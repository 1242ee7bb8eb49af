--------------------------- MODULE CodingTree_proofs ---------------------------
(***************************************************************************)
(* The bins of a split are read as they were written, whatever splits a    *)
(* block may have; the depths and the quantization group that are kept     *)
(* beside the path of a partitioner are those of the path; the parts of a  *)
(* split tile its block, the walk codes what the picture shows of a CTU    *)
(* once in luma and once in chroma, and no CHECK fails on the way.         *)
(***************************************************************************)
EXTENDS CodingTree, SequenceTheorems, FiniteSetTheorems, IntegerFacts

-----------------------------------------------------------------------------
\* A bin that is written only if sent holds, and bins in front of others.
Bin(sent, bin) == IF sent THEN <<bin>> ELSE <<>>
Join(a, b) == a \o b

LEMMA BinRead ==
    ASSUME NEW sent \in BOOLEAN, NEW bin \in BOOLEAN, NEW rest \in Seq(BOOLEAN), NEW else
    PROVE  /\ HeadOr(sent, Join(Bin(sent, bin), rest), else) = IF sent THEN bin ELSE else
           /\ TailIf(sent, Join(Bin(sent, bin), rest)) = rest
           /\ Join(Bin(sent, bin), rest) \in Seq(BOOLEAN)
<1>1. CASE sent
  <2>1. Join(Bin(sent, bin), rest) = <<bin>> \o rest
    BY <1>1 DEF Bin, Join
  <2>2. /\ <<bin>> \o rest \in Seq(BOOLEAN) /\ Len(<<bin>> \o rest) = Len(rest) + 1
        /\ (<<bin>> \o rest)[1] = bin
        /\ \A i \in 1..Len(rest) : (<<bin>> \o rest)[i + 1] = rest[i]
    OBVIOUS
  <2>3. Head(<<bin>> \o rest) = bin
    BY <2>2
  <2>4. Tail(<<bin>> \o rest) = rest
    BY <2>2
  <2> QED BY <1>1, <2>1, <2>2, <2>3, <2>4 DEF HeadOr, TailIf
<1>2. CASE ~sent
  <2>1. Join(Bin(sent, bin), rest) = rest
    BY <1>2 DEF Bin, Join
  <2> QED BY <1>2, <2>1 DEF HeadOr, TailIf
<1> QED BY <1>1, <1>2

LEMMA BinType ==
    ASSUME NEW sent \in BOOLEAN, NEW bin \in BOOLEAN
    PROVE  Bin(sent, bin) \in Seq(BOOLEAN)
<1>1. CASE sent
  BY <1>1 DEF Bin
<1>2. CASE ~sent
  BY <1>2 DEF Bin
<1> QED BY <1>1, <1>2

LEMMA Associative ==
    ASSUME NEW a \in Seq(BOOLEAN), NEW b \in Seq(BOOLEAN), NEW c \in Seq(BOOLEAN)
    PROVE  Join(a, b) \in Seq(BOOLEAN) /\ Join(Join(a, b), c) = Join(a, Join(b, c))
<1> DEFINE l == (a \o b) \o c
           r == a \o (b \o c)
<1>1. /\ a \o b \in Seq(BOOLEAN) /\ Len(a \o b) = Len(a) + Len(b)
      /\ b \o c \in Seq(BOOLEAN) /\ Len(b \o c) = Len(b) + Len(c)
      /\ l \in Seq(BOOLEAN) /\ Len(l) = Len(a) + Len(b) + Len(c)
      /\ r \in Seq(BOOLEAN) /\ Len(r) = Len(a) + Len(b) + Len(c)
  OBVIOUS
<1>2. ASSUME NEW i \in 1..Len(l) PROVE l[i] = r[i]
  <2>1. CASE i <= Len(a)
    BY <1>1, <2>1
  <2>2. CASE i > Len(a) /\ i <= Len(a) + Len(b)
    BY <1>1, <2>2
  <2>3. CASE i > Len(a) + Len(b)
    BY <1>1, <2>3
  <2> QED BY <1>1, <2>1, <2>2, <2>3
<1> HIDE DEF l, r
<1>3. l = r
  BY <1>1, <1>2, SeqEqual
<1> QED BY <1>1, <1>3 DEF l, r, Join

LEMMA Regrouped ==
    ASSUME NEW a \in Seq(BOOLEAN), NEW b \in Seq(BOOLEAN), NEW c \in Seq(BOOLEAN),
           NEW d \in Seq(BOOLEAN), NEW e \in Seq(BOOLEAN)
    PROVE  Join(Join(Join(Join(a, b), c), d), e) = Join(a, Join(b, Join(c, Join(d, e))))
<1>1. /\ Join(a, b) \in Seq(BOOLEAN) /\ Join(Join(a, b), c) \in Seq(BOOLEAN)
      /\ Join(d, e) \in Seq(BOOLEAN) /\ Join(c, Join(d, e)) \in Seq(BOOLEAN)
  BY Associative
<1>2. Join(Join(Join(Join(a, b), c), d), e) = Join(Join(Join(a, b), c), Join(d, e))
  BY <1>1, Associative
<1>3. Join(Join(Join(a, b), c), Join(d, e)) = Join(Join(a, b), Join(c, Join(d, e)))
  BY <1>1, Associative
<1>4. Join(Join(a, b), Join(c, Join(d, e))) = Join(a, Join(b, Join(c, Join(d, e))))
  BY <1>1, Associative
<1> QED BY <1>2, <1>3, <1>4

-----------------------------------------------------------------------------
\* A split is recovered from its bins, and the bins behind them are left.
LEMMA SplitRead ==
    ASSUME NEW can \in SUBSET Splits, NEW split \in can
    PROVE  Sent(can, split) = [split |-> split, rest |-> Following]
<1> DEFINE ver == can \cap {"bv", "tv"}
           hor == can \cap {"bh", "th"}
           dir == IF split \in ver THEN ver ELSE hor
           s1  == "no" \in can /\ can # {"no"}
           s2  == split # "no" /\ "qt" \in can /\ can \cap Btt # {}
           s3  == split \in Btt /\ ver # {} /\ hor # {}
           s4  == split \in Btt /\ dir \cap Bt # {} /\ dir \cap Tt # {}
           b1  == split # "no"
           b2  == split = "qt"
           b3  == split \in ver
           b4  == split \in Bt
           r4  == Join(Bin(s4, b4), Following)
           r3  == Join(Bin(s3, b3), r4)
           r2  == Join(Bin(s2, b2), r3)
           r1  == Join(Bin(s1, b1), r2)
<1>1. /\ s1 \in BOOLEAN /\ s2 \in BOOLEAN /\ s3 \in BOOLEAN /\ s4 \in BOOLEAN
      /\ b1 \in BOOLEAN /\ b2 \in BOOLEAN /\ b3 \in BOOLEAN /\ b4 \in BOOLEAN
  OBVIOUS
<1>2. Following \in Seq(BOOLEAN)
  BY DEF Following
<1>3. SplitBins(can, split) \o Following = r1
  <2> DEFINE q1 == Bin(s1, b1)
             q2 == Bin(s2, b2)
             q3 == Bin(s3, b3)
             q4 == Bin(s4, b4)
  <2>1. SplitBins(can, split) \o Following
            = Join(Join(Join(Join(q1, q2), q3), q4), Following)
    BY Zenon DEF SplitBins, Bin, Join
  <2> HIDE DEF s1, s2, s3, s4, b1, b2, b3, b4
  <2>2. /\ q1 \in Seq(BOOLEAN) /\ q2 \in Seq(BOOLEAN)
        /\ q3 \in Seq(BOOLEAN) /\ q4 \in Seq(BOOLEAN)
    BY <1>1, BinType
  <2>3. r1 = Join(q1, Join(q2, Join(q3, Join(q4, Following))))
    OBVIOUS
  <2> HIDE DEF q1, q2, q3, q4, r1
  <2> QED BY <1>2, <2>1, <2>2, <2>3, Regrouped
<1> HIDE DEF s1, s2, s3, s4, b1, b2, b3, b4
<1>4. \A else : /\ HeadOr(s4, r4, else) = (IF s4 THEN b4 ELSE else)
                /\ TailIf(s4, r4) = Following
                /\ r4 \in Seq(BOOLEAN)
  BY <1>1, <1>2, BinRead
<1> HIDE DEF r4
<1>5. \A else : /\ HeadOr(s3, r3, else) = (IF s3 THEN b3 ELSE else)
                /\ TailIf(s3, r3) = r4
                /\ r3 \in Seq(BOOLEAN)
  BY <1>1, <1>4, BinRead
<1> HIDE DEF r3
<1>6. \A else : /\ HeadOr(s2, r2, else) = (IF s2 THEN b2 ELSE else)
                /\ TailIf(s2, r2) = r3
                /\ r2 \in Seq(BOOLEAN)
  BY <1>1, <1>5, BinRead
<1> HIDE DEF r2
<1>7. \A else : /\ HeadOr(s1, r1, else) = (IF s1 THEN b1 ELSE else)
                /\ TailIf(s1, r1) = r2
  BY <1>1, <1>6, BinRead
<1> HIDE DEF r1
<1>8. \A b : Join(Bin(FALSE, b), Following) = Following
  BY <1>2 DEF Bin, Join
<1> DEFINE e1 == can # {"no"}
           e2 == "qt" \in can
           e3 == ver # {}
           e4 == dir \cap Bt # {}
<1> HIDE DEF e1, e2, e3, e4
<1>9. b1 = ~(split = "no") /\ b2 = (split = "qt") /\ b3 = (split \in ver) /\ b4 = (split \in Bt)
  BY DEF b1, b2, b3, b4
<1>10. CASE split = "no"
  <2>1. (IF s1 THEN b1 ELSE e1) = FALSE
    BY <1>10 DEF s1, b1, e1
  <2>2. s2 = FALSE /\ s3 = FALSE /\ s4 = FALSE
    BY <1>10 DEF s2, s3, s4, Btt, Bt, Tt
  <2>3. r2 = Following
    BY <1>8, <2>2 DEF r2, r3, r4
  <2>4. HeadOr(s1, r1, e1) = FALSE /\ TailIf(s1, r1) = Following
    BY <1>7, <2>1, <2>3
  <2> HIDE DEF ver, hor, dir
  <2>5. ParsedSplit(can, r1) = [split |-> "no", rest |-> Following]
    BY <2>4, Zenon DEF ParsedSplit, s1, e1
  <2> QED BY <1>3, <1>10, <2>5 DEF Sent
<1>11. CASE split = "qt"
  <2>1. (IF s1 THEN b1 ELSE e1) = TRUE /\ (IF s2 THEN b2 ELSE e2) = TRUE
    BY <1>11 DEF s1, b1, e1, b2, e2
  <2>2. s2 = ("qt" \in can /\ hor \cup ver # {}) /\ s3 = FALSE /\ s4 = FALSE
    BY <1>11 DEF s2, s3, s4, Btt, Bt, Tt
  <2>3. r3 = Following
    BY <1>8, <2>2 DEF r3, r4
  <2>4. /\ HeadOr(s1, r1, e1) = TRUE /\ TailIf(s1, r1) = r2
        /\ HeadOr(s2, r2, e2) = TRUE /\ TailIf(s2, r2) = Following
    BY <1>6, <1>7, <2>1, <2>3
  <2>5. ParsedSplit(can, r1) = [split |-> "qt", rest |-> Following]
    BY <2>2, <2>4, Zenon DEF ParsedSplit, s1, e1, e2
  <2> QED BY <1>3, <1>11, <2>5 DEF Sent
<1>12. CASE split \in Btt
  <2>1. /\ (IF s1 THEN b1 ELSE e1) = TRUE /\ (IF s2 THEN b2 ELSE e2) = FALSE
        /\ (IF s3 THEN b3 ELSE e3) = (split \in ver)
        /\ (IF s4 THEN b4 ELSE e4) = (split \in Bt)
    <3>1. split \in can /\ split \in {"bh", "bv", "th", "tv"}
      BY <1>12 DEF Btt, Bt, Tt
    <3>2. (IF s1 THEN b1 ELSE e1) = TRUE /\ (IF s2 THEN b2 ELSE e2) = FALSE
      BY <3>1 DEF s1, b1, e1, s2, b2, e2, Btt, Bt, Tt
    <3>3. (IF s3 THEN b3 ELSE e3) = (split \in ver)
      BY <3>1 DEF s3, b3, e3, Btt, Bt, Tt
    <3>4. (IF s4 THEN b4 ELSE e4) = (split \in Bt)
      BY <3>1 DEF s4, b4, e4, Btt, Bt, Tt
    <3> QED BY <3>2, <3>3, <3>4
  <2>2. /\ s2 = ("qt" \in can /\ hor \cup ver # {})
        /\ s3 = (ver # {} /\ hor # {})
        /\ s4 = (dir \cap Bt # {} /\ dir \cap Tt # {})
    BY <1>12 DEF s2, s3, s4, Btt, Bt, Tt
  <2>3. /\ HeadOr(s1, r1, e1) = TRUE /\ TailIf(s1, r1) = r2
        /\ HeadOr(s2, r2, e2) = FALSE /\ TailIf(s2, r2) = r3
        /\ HeadOr(s3, r3, e3) = (split \in ver) /\ TailIf(s3, r3) = r4
        /\ HeadOr(s4, r4, e4) = (split \in Bt) /\ TailIf(s4, r4) = Following
    BY <1>4, <1>5, <1>6, <1>7, <2>1
  <2>4. split = IF split \in ver THEN (IF split \in Bt THEN "bv" ELSE "tv")
                ELSE (IF split \in Bt THEN "bh" ELSE "th")
    BY <1>12 DEF Btt, Bt, Tt
  <2>5. ParsedSplit(can, r1) = [split |-> split, rest |-> Following]
    BY <2>2, <2>3, <2>4, Zenon DEF ParsedSplit, s1, e1, e2, e3, e4
  <2> QED BY <1>3, <2>5 DEF Sent
<1> QED BY <1>10, <1>11, <1>12 DEF Splits

LEMMA SplitsOnly == ASSUME NEW c, NEW q PROVE canSplit(c, q) \in SUBSET Splits
BY DEF canSplit, ImplicitChoice, Splits, Btt, Bt, Tt

\* The reader takes the splits that the writer sent from all blocks, and the
\* bins that follow stay where they are: whatever the limits on splits are and
\* wherever the picture ends (split_cu_mode of CABACWriter and CABACReader).
THEOREM SplitsRecovered == Spec => []BinsParsed
<1>1. BinsParsed
  BY SplitRead, SplitsOnly DEF BinsParsed
<1> QED BY <1>1, PTL

-----------------------------------------------------------------------------
(* Sums and numbers of levels, one level more at a time. *)
LEMMA TotalSteps ==
    ASSUME NEW f \in Seq(Int)
    PROVE  \E s \in [0..Len(f) -> Int] :
              /\ s[0] = 0
              /\ \A n \in 1..Len(f) : s[n] = s[n - 1] + f[n]
              /\ Total(f) = s[Len(f)]
<1> DEFINE N == Len(f)
           step == [xn \in Int \X (1..N) |-> xn[1] + f[xn[2]]]
           sum[n \in 0..N] == IF n = 0 THEN 0 ELSE sum[n - 1] + f[n]
<1>1. N \in Nat /\ f \in [1..N -> Int]
  OBVIOUS
<1>2. Total(f) = sum[N]
  BY DEF Total
<1> HIDE DEF N
<1>3. step \in [Int \X (1..N) -> Int]
  <2>1. ASSUME NEW xn \in Int \X (1..N) PROVE xn[1] + f[xn[2]] \in Int
    BY <1>1
  <2> QED BY <2>1
<1>4. PICK g \in [0..N -> Int] :
         g[0] = 0 /\ \A n \in 1..N : g[n] = step[<<g[n - 1], n>>]
  <2> HIDE DEF step, sum
  <2>1. Steppable(N, Int, 0, step)
    BY <1>1, <1>3 DEF Steppable
  <2>2. \E g : Steps(g, N, Int, 0, step)
    BY <2>1, StepsExist
  <2> QED BY <2>2 DEF Steps
<1>5. ASSUME NEW n \in 1..N PROVE g[n] = g[n - 1] + f[n]
  <2>1. n - 1 \in 0..N
    BY <1>1
  <2>2. <<g[n - 1], n>> \in Int \X (1..N)
    BY <2>1, <1>4
  <2>3. g[n] = step[<<g[n - 1], n>>]
    BY <1>4
  <2> QED BY <2>2, <2>3
<1>6. g = [n \in 0..N |-> IF n = 0 THEN 0 ELSE g[n - 1] + f[n]]
  <2>1. \A n \in 0..N : n = 0 \/ n \in 1..N
    BY <1>1
  <2>2. \A n \in 0..N : g[n] = IF n = 0 THEN 0 ELSE g[n - 1] + f[n]
    BY <1>4, <1>5, <2>1
  <2> QED BY <1>4, <2>2
<1>7. sum = [n \in 0..N |-> IF n = 0 THEN 0 ELSE sum[n - 1] + f[n]]
  BY <1>6
<1> HIDE DEF sum, step
<1>8. sum = [n \in 0..N |-> sum[n]] /\ sum[0] = 0
  BY <1>1, <1>7
<1>9. ASSUME NEW n \in 1..N PROVE sum[n] = sum[n - 1] + f[n]
  <2>1. n \in 0..N /\ n # 0
    BY <1>1
  <2> QED BY <1>7, <2>1
<1>10. \A n \in 0..N : sum[n] \in Int
  <2> DEFINE S == {n \in 0..N : sum[n] \in Int}
  <2>1. 0 \in S
    BY <1>1, <1>8
  <2>2. ASSUME NEW n \in 1..N, n - 1 \in S PROVE n \in S
    <3>1. sum[n - 1] \in Int /\ f[n] \in Int
      BY <1>1, <2>2
    <3> QED BY <1>1, <1>9, <3>1
  <2> HIDE DEF S
  <2>3. 0..N \subseteq S
    BY <1>1, <2>1, <2>2, InductionTo
  <2> QED BY <2>3 DEF S
<1>11. sum \in [0..N -> Int]
  BY <1>8, <1>10
<1> QED BY <1>2, <1>8, <1>9, <1>11 DEF N

\* A sum grows by what is added at the end.
LEMMA TotalAppend ==
    ASSUME NEW f \in Seq(Int), NEW x \in Int
    PROVE  Total(f) \in Int /\ Total(Append(f, x)) = Total(f) + x
<1> DEFINE g == Append(f, x)
           N == Len(f)
<1>1. N \in Nat /\ g \in Seq(Int) /\ Len(g) = N + 1 /\ g[N + 1] = x /\ \A i \in 1..N : g[i] = f[i]
  OBVIOUS
<1> HIDE DEF g
<1>2. PICK s \in [0..N -> Int] : s[0] = 0 /\ (\A n \in 1..N : s[n] = s[n - 1] + f[n]) /\ Total(f) = s[N]
  BY TotalSteps
<1>3. PICK t \in [0..(N + 1) -> Int] :
         t[0] = 0 /\ (\A n \in 1..(N + 1) : t[n] = t[n - 1] + g[n]) /\ Total(g) = t[N + 1]
  BY <1>1, TotalSteps
<1> HIDE DEF N
<1> DEFINE S == {n \in 0..N : t[n] = s[n]}
<1>4. 0 \in S
  BY <1>1, <1>2, <1>3
<1>5. ASSUME NEW n \in 1..N, n - 1 \in S PROVE n \in S
  BY <1>1, <1>2, <1>3, <1>5
<1> HIDE DEF S
<1>6. 0..N \subseteq S
  BY <1>1, <1>4, <1>5, InductionTo
<1>7. t[N] = s[N] /\ s[N] \in Int
  BY <1>1, <1>2, <1>6 DEF S
<1>8. t[N + 1] = t[(N + 1) - 1] + g[N + 1] /\ (N + 1) - 1 = N
  BY <1>1, <1>3
<1> QED BY <1>1, <1>2, <1>3, <1>7, <1>8 DEF g

LEMMA IndexSets ==
    ASSUME NEW n \in Nat, NEW A \in SUBSET (1..n)
    PROVE  Cardinality(A) \in Nat /\ Cardinality(A \cup {n + 1}) = Cardinality(A) + 1
<1>1. IsFiniteSet(1..n)
  BY FS_Interval
<1>2. IsFiniteSet(A)
  BY <1>1, FS_Subset
<1>3. n + 1 \notin A
  OBVIOUS
<1> QED BY <1>2, <1>3, FS_CardinalityType, FS_AddElement

LEMMA Appended ==
    ASSUME NEW S, NEW s \in Seq(S), NEW y \in S
    PROVE  /\ Append(s, y) \in Seq(S) /\ Len(Append(s, y)) = Len(s) + 1 /\ Len(s) \in Nat
           /\ DOMAIN s = 1..Len(s) /\ DOMAIN Append(s, y) = 1..(Len(s) + 1)
           /\ Append(s, y)[Len(s) + 1] = y /\ \A i \in 1..Len(s) : Append(s, y)[i] = s[i]
           /\ Last(Append(s, y)) = y /\ Append(s, y) # <<>>
<1> DEFINE a == Append(s, y)
<1>1. a \in Seq(S) /\ Len(a) = Len(s) + 1 /\ a[Len(s) + 1] = y /\ \A i \in 1..Len(s) : a[i] = s[i]
  OBVIOUS
<1>2. Len(s) \in Nat /\ DOMAIN s = 1..Len(s) /\ DOMAIN a = 1..(Len(s) + 1)
  OBVIOUS
<1> HIDE DEF a
<1>3. Last(a) = y
  BY <1>1 DEF Last
<1>4. a # <<>>
  BY <1>1, <1>2
<1> QED BY <1>1, <1>2, <1>3, <1>4 DEF a

\* A sequence with another last element.
LEMMA LastOf ==
    ASSUME NEW S, NEW s \in Seq(S), s # <<>>
    PROVE  /\ Len(s) \in Nat \ {0} /\ Last(s) = s[Len(s)] /\ Last(s) \in S
           /\ Front(s) \in Seq(S) /\ Len(Front(s)) = Len(s) - 1
           /\ \A i \in 1..(Len(s) - 1) : Front(s)[i] = s[i]
           /\ s = Append(Front(s), Last(s))
           /\ \A y \in S : [s EXCEPT ![Len(s)] = y] = Append(Front(s), y)
<1>1. Len(s) \in Nat \ {0} /\ s \in [1..Len(s) -> S]
  OBVIOUS
<1>2. Last(s) = s[Len(s)] /\ Last(s) \in S
  BY <1>1 DEF Last
<1> DEFINE f == Front(s)
<1>3. f \in Seq(S) /\ Len(f) = Len(s) - 1 /\ \A i \in 1..(Len(s) - 1) : f[i] = s[i]
  BY <1>1 DEF Front
<1> HIDE DEF f
<1>4. ASSUME NEW y \in S PROVE [s EXCEPT ![Len(s)] = y] = Append(f, y)
  <2> DEFINE a == [s EXCEPT ![Len(s)] = y]
             b == Append(f, y)
  <2>1. a \in Seq(S) /\ Len(a) = Len(s) /\ \A i \in 1..Len(s) : a[i] = IF i = Len(s) THEN y ELSE s[i]
    OBVIOUS
  <2>2. b \in Seq(S) /\ Len(b) = Len(s) /\ \A i \in 1..Len(s) : b[i] = IF i = Len(s) THEN y ELSE s[i]
    <3>1. b \in Seq(S) /\ Len(b) = Len(f) + 1 /\ b[Len(f) + 1] = y /\ \A i \in 1..Len(f) : b[i] = f[i]
      BY <1>3, <1>4, Appended
    <3>2. \A i \in 1..Len(s) : i = Len(s) \/ i \in 1..(Len(s) - 1)
      <4>1. \A k \in Nat : \A i \in 1..k : i = k \/ i \in 1..(k - 1)
        OBVIOUS
      <4> QED BY <1>1, <4>1
    <3>3. Len(f) + 1 = Len(s) /\ Len(s) \notin 1..(Len(s) - 1)
      BY <1>1, <1>3
    <3> HIDE DEF b
    <3> QED BY <1>3, <3>1, <3>2, <3>3, Zenon
  <2> HIDE DEF a, b
  <2>3. a = b
    BY <2>1, <2>2, SeqEqual
  <2> QED BY <2>3 DEF a, b
<1>5. s = Append(f, Last(s))
  <2>1. [s EXCEPT ![Len(s)] = Last(s)] = s
    BY <1>1, <1>2
  <2> QED BY <1>2, <1>4, <2>1
<1> QED BY <1>1, <1>2, <1>3, <1>4, <1>5 DEF f

-----------------------------------------------------------------------------
(* The path of a partitioner, and the depths along it. *)
Areas == [x : Nat, y : Nat, w : Nat, h : Nat]
PathLevel == [split : {"ctu"} \cup Splits, parts : Seq(Areas), idx : Nat,
              implicit : Splits \cup {"unknown"}, qg : BOOLEAN]
Partition == [levels : Seq(PathLevel), chType : {"luma", "chroma"},
              treeType : {"D", "L", "C"}, modeType : {"all", "intra", "inter"},
              qt : Int, bt : Int, mt : Int, implicitBt : Int, subdiv : Int,
              qgPos : Nat \X Nat]

Cur(l) == l.parts[l.idx + 1]
PartsIn(split) == IF split = "ctu" THEN 1 ELSE IF split = "qt" THEN 4
                  ELSE IF split \in Tt THEN 3 ELSE 2
LevelSound(l) == Len(l.parts) = PartsIn(l.split) /\ l.idx < Len(l.parts) /\ l.split # "no"

\* The CTU, and behind it the levels of splits.
Sound(s) == \A i \in DOMAIN s : LevelSound(s[i]) /\ (s[i].split = "ctu" <=> i = 1)

TakenBy(l) ==
    IF l.split = "ctu" THEN 0
    ELSE IF l.split \in Bt \/ (l.split \in Tt /\ l.idx = 1) THEN 1 ELSE 2
QtAt(s) == {i \in DOMAIN s : s[i].split = "qt"}
MultiAt(s) == {i \in DOMAIN s : s[i].split \in Btt}
ImplicitAt(s) == {i \in MultiAt(s) : s[i - 1].implicit # "no"}
BtTaken(s) == [i \in DOMAIN s |-> IF i \in MultiAt(s) THEN TakenBy(s[i]) ELSE 0]
AllTaken(s) == [i \in DOMAIN s |-> TakenBy(s[i])]

Tally(s) == [qt |-> Cardinality(QtAt(s)), mt |-> Cardinality(MultiAt(s)),
             implicitBt |-> Cardinality(ImplicitAt(s)),
             bt |-> Total(BtTaken(s)), subdiv |-> Total(AllTaken(s))]
Tallies == [qt : Int, mt : Int, implicitBt : Int, bt : Int, subdiv : Int]

\* What a level l adds to the tally, under a level that forced a split or not.
Plus(t, l, forced) ==
    LET multi == l.split \in Btt
    IN  [qt |-> t.qt + (IF l.split = "qt" THEN 1 ELSE 0),
         mt |-> t.mt + (IF multi THEN 1 ELSE 0),
         implicitBt |-> t.implicitBt + (IF multi /\ forced THEN 1 ELSE 0),
         bt |-> t.bt + (IF multi THEN TakenBy(l) ELSE 0),
         subdiv |-> t.subdiv + TakenBy(l)]
Forced(s) == s # <<>> /\ Last(s).implicit # "no"
TalliedWith(s, l) == Tally(Append(s, l)) = Plus(Tally(s), l, Forced(s))

LEMMA TallyAppend ==
    ASSUME NEW s \in Seq(PathLevel), NEW l \in PathLevel, l.split \in Btt => s # <<>>,
           1 \notin MultiAt(s)
    PROVE  TalliedWith(s, l)
<1> DEFINE r == Append(s, l)
           n == Len(s)
           multi == l.split \in Btt
           b == IF multi THEN TakenBy(l) ELSE 0
<1>1. /\ n \in Nat /\ r \in Seq(PathLevel) /\ Len(r) = n + 1 /\ r[n + 1] = l
      /\ DOMAIN s = 1..n /\ DOMAIN r = 1..(n + 1) /\ \A i \in 1..n : r[i] = s[i]
  BY Appended
<1>2. \A i \in 1..(n + 1) : i \in 1..n \/ i = n + 1
  BY <1>1
<1>3. (n + 1) \in 1..(n + 1) /\ (n + 1) \notin 1..n /\ 1..n \subseteq 1..(n + 1)
  BY <1>1
<1>0. n = 0 => s = <<>>
  BY EmptySeq
<1>a. s # <<>> => Last(s) = s[n]
  BY DEF Last
<1> HIDE DEF r, n
<1>4. QtAt(r) = IF l.split = "qt" THEN QtAt(s) \cup {n + 1} ELSE QtAt(s)
  BY <1>1, <1>2, <1>3 DEF QtAt
<1>5. MultiAt(r) = IF multi THEN MultiAt(s) \cup {n + 1} ELSE MultiAt(s)
  BY <1>1, <1>2, <1>3 DEF MultiAt
<1>6. QtAt(s) \subseteq 1..n /\ MultiAt(s) \subseteq 1..n /\ ImplicitAt(s) \subseteq MultiAt(s)
  BY <1>1 DEF QtAt, MultiAt, ImplicitAt
<1>7. ImplicitAt(r) = IF multi /\ Forced(s) THEN ImplicitAt(s) \cup {n + 1} ELSE ImplicitAt(s)
  <2>1. \A i \in MultiAt(s) : r[i - 1] = s[i - 1]
    <3>1. \A i \in 1..n : i # 1 => i - 1 \in 1..n
      BY <1>1
    <3> QED BY <1>1, <1>6, <3>1
  <2>2. ImplicitAt(s) = {i \in MultiAt(s) : r[i - 1].implicit # "no"}
    BY <2>1 DEF ImplicitAt
  <2>3. CASE multi
    <3>1. n # 0 /\ (n + 1) - 1 = n /\ n \in 1..n
      BY <1>0, <1>1, <2>3
    <3>2. r[(n + 1) - 1].implicit = Last(s).implicit /\ s # <<>>
      BY <1>1, <1>a, <2>3, <3>1
    <3>3. MultiAt(r) = MultiAt(s) \cup {n + 1}
      BY <1>5, <2>3
    <3>4. ImplicitAt(r) = {i \in MultiAt(s) \cup {n + 1} : r[i - 1].implicit # "no"}
      BY <3>3 DEF ImplicitAt
    <3>5. Forced(s) <=> r[(n + 1) - 1].implicit # "no"
      BY <3>2 DEF Forced
    <3> QED BY <2>2, <2>3, <3>4, <3>5
  <2>4. CASE ~multi
    <3>1. MultiAt(r) = MultiAt(s)
      BY <1>5, <2>4
    <3> QED BY <2>2, <2>4, <3>1 DEF ImplicitAt
  <2> QED BY <2>3, <2>4
<1>8. Cardinality(QtAt(r)) = Cardinality(QtAt(s)) + (IF l.split = "qt" THEN 1 ELSE 0)
  <2>1. Cardinality(QtAt(s)) \in Nat /\ Cardinality(QtAt(s) \cup {n + 1}) = Cardinality(QtAt(s)) + 1
    BY <1>1, <1>6, IndexSets
  <2> QED BY <1>4, <2>1
<1>9. Cardinality(MultiAt(r)) = Cardinality(MultiAt(s)) + (IF multi THEN 1 ELSE 0)
  <2>1. Cardinality(MultiAt(s)) \in Nat /\ Cardinality(MultiAt(s) \cup {n + 1}) = Cardinality(MultiAt(s)) + 1
    BY <1>1, <1>6, IndexSets
  <2> QED BY <1>5, <2>1
<1>10. Cardinality(ImplicitAt(r)) = Cardinality(ImplicitAt(s)) + (IF multi /\ Forced(s) THEN 1 ELSE 0)
  <2>1. /\ Cardinality(ImplicitAt(s)) \in Nat
        /\ Cardinality(ImplicitAt(s) \cup {n + 1}) = Cardinality(ImplicitAt(s)) + 1
    <3>1. ImplicitAt(s) \in SUBSET (1..n)
      BY <1>6
    <3> QED BY <1>1, <3>1, IndexSets
  <2> QED BY <1>7, <2>1
<1>11. BtTaken(s) \in Seq(Int) /\ AllTaken(s) \in Seq(Int) /\ Len(BtTaken(s)) = n /\ Len(AllTaken(s)) = n
  <2>1. \A i \in 1..n : TakenBy(s[i]) \in Int
    BY DEF TakenBy
  <2>2. /\ BtTaken(s) = [i \in 1..n |-> IF i \in MultiAt(s) THEN TakenBy(s[i]) ELSE 0]
        /\ AllTaken(s) = [i \in 1..n |-> TakenBy(s[i])]
    BY <1>1 DEF BtTaken, AllTaken
  <2> QED BY <1>1, <2>1, <2>2
<1>12. TakenBy(l) \in Int /\ b \in Int
  BY DEF TakenBy
<1>13. BtTaken(r) = Append(BtTaken(s), b)
  <2>1. BtTaken(r) = [i \in 1..(n + 1) |-> IF i \in MultiAt(r) THEN TakenBy(r[i]) ELSE 0]
    BY <1>1 DEF BtTaken
  <2>2. BtTaken(s) = [i \in 1..n |-> IF i \in MultiAt(s) THEN TakenBy(s[i]) ELSE 0]
    BY <1>1 DEF BtTaken
  <2>3. \A i \in 1..n : (i \in MultiAt(r) <=> i \in MultiAt(s)) /\ r[i] = s[i]
    BY <1>1, <1>3, <1>5
  <2>4. (n + 1) \in MultiAt(r) <=> multi
    BY <1>3, <1>5, <1>6
  <2> DEFINE t == BtTaken(s)
             u == Append(t, b)
  <2>5. /\ u \in Seq(Int) /\ Len(u) = n + 1 /\ DOMAIN u = 1..(n + 1)
        /\ u[n + 1] = b /\ \A i \in 1..n : u[i] = t[i]
    BY <1>11, <1>12, Appended
  <2> HIDE DEF u, t
  <2>6. \A i \in 1..(n + 1) : BtTaken(r)[i] = u[i]
    BY <1>1, <1>2, <1>3, <2>1, <2>2, <2>3, <2>4, <2>5 DEF t
  <2>7. u = [i \in 1..(n + 1) |-> u[i]]
    BY <1>1, <2>5
  <2>8. BtTaken(r) = [i \in 1..(n + 1) |-> BtTaken(r)[i]]
    BY <2>1, Zenon
  <2>9. BtTaken(r) = u
    BY <2>6, <2>7, <2>8, Zenon
  <2> QED BY <2>9 DEF u, t
<1>14. AllTaken(r) = Append(AllTaken(s), TakenBy(l))
  <2>1. AllTaken(r) = [i \in 1..(n + 1) |-> TakenBy(r[i])]
    BY <1>1 DEF AllTaken
  <2>2. AllTaken(s) = [i \in 1..n |-> TakenBy(s[i])]
    BY <1>1 DEF AllTaken
  <2> DEFINE t == AllTaken(s)
             u == Append(t, TakenBy(l))
  <2>5. /\ u \in Seq(Int) /\ Len(u) = n + 1 /\ DOMAIN u = 1..(n + 1)
        /\ u[n + 1] = TakenBy(l) /\ \A i \in 1..n : u[i] = t[i]
    BY <1>11, <1>12, Appended
  <2> HIDE DEF u, t
  <2>6. \A i \in 1..(n + 1) : AllTaken(r)[i] = u[i]
    BY <1>1, <1>2, <1>3, <2>1, <2>2, <2>5 DEF t
  <2>7. u = [i \in 1..(n + 1) |-> u[i]]
    BY <1>1, <2>5
  <2>8. AllTaken(r) = [i \in 1..(n + 1) |-> AllTaken(r)[i]]
    BY <2>1, Zenon
  <2>9. AllTaken(r) = u
    BY <2>6, <2>7, <2>8, Zenon
  <2> QED BY <2>9 DEF u, t
<1>15. Total(BtTaken(s)) \in Int /\ Total(BtTaken(r)) = Total(BtTaken(s)) + b
  BY <1>11, <1>12, <1>13, TotalAppend
<1>16. Total(AllTaken(s)) \in Int /\ Total(AllTaken(r)) = Total(AllTaken(s)) + TakenBy(l)
  BY <1>11, <1>12, <1>14, TotalAppend
<1>17. Tally(r) = Plus(Tally(s), l, Forced(s))
  BY <1>8, <1>9, <1>10, <1>15, <1>16, Zenon DEF Tally, Plus
<1> QED BY <1>17 DEF TalliedWith, r

\* It is a tally of integers.
LEMMA TallyType ==
    ASSUME NEW s \in Seq(PathLevel), 1 \notin MultiAt(s)
    PROVE  Tally(s) \in Tallies
<1> DEFINE n == Len(s)
<1>1. n \in Nat /\ DOMAIN s = 1..n
  OBVIOUS
<1> HIDE DEF n
<1>2. QtAt(s) \in SUBSET (1..n) /\ MultiAt(s) \in SUBSET (1..n) /\ ImplicitAt(s) \in SUBSET (1..n)
  BY <1>1 DEF QtAt, MultiAt, ImplicitAt
<1>3. /\ Cardinality(QtAt(s)) \in Nat /\ Cardinality(MultiAt(s)) \in Nat
      /\ Cardinality(ImplicitAt(s)) \in Nat
  BY <1>1, <1>2, IndexSets
<1>4. BtTaken(s) \in Seq(Int) /\ AllTaken(s) \in Seq(Int)
  <2>1. \A i \in 1..n : TakenBy(s[i]) \in Int
    BY DEF TakenBy
  <2>2. /\ BtTaken(s) = [i \in 1..n |-> IF i \in MultiAt(s) THEN TakenBy(s[i]) ELSE 0]
        /\ AllTaken(s) = [i \in 1..n |-> TakenBy(s[i])]
    BY <1>1 DEF BtTaken, AllTaken
  <2> QED BY <1>1, <2>1, <2>2
<1>5. Total(BtTaken(s)) \in Int /\ Total(AllTaken(s)) \in Int
  BY <1>4, TotalAppend
<1> QED BY <1>3, <1>5 DEF Tally, Tallies

-----------------------------------------------------------------------------
(* Levels that begin quantization groups are in front; where the last one's  *)
(* block begins is where the group does.                                     *)
Groups(s, g) == \A i \in DOMAIN s : s[i].qg <=> i <= g
GroupedAt(s, pos) == \E g \in DOMAIN s : Groups(s, g) /\ pos = Pos(Cur(s[g]))
AllGroups(s) == \A i \in DOMAIN s : s[i].qg

LEMMA GroupPush ==
    ASSUME NEW s \in Seq(PathLevel), NEW l \in PathLevel
    PROVE  /\ l.qg /\ AllGroups(s) => GroupedAt(Append(s, l), Pos(Cur(l)))
           /\ \A pos : ~l.qg /\ GroupedAt(s, pos) => GroupedAt(Append(s, l), pos)
<1> DEFINE r == Append(s, l)
           n == Len(s)
<1>1. /\ n \in Nat /\ r[n + 1] = l /\ DOMAIN s = 1..n /\ DOMAIN r = 1..(n + 1)
      /\ \A i \in 1..n : r[i] = s[i]
  BY Appended
<1>2. \A i \in 1..(n + 1) : i \in 1..n \/ i = n + 1
  BY <1>1
<1>3. (n + 1) \in 1..(n + 1) /\ 1..n \subseteq 1..(n + 1) /\ \A i \in 1..n : i <= n + 1 /\ ~(n + 1 <= i)
  BY <1>1
<1>9. n + 1 <= n + 1
  BY <1>1
<1> HIDE DEF r, n
<1>4. ASSUME l.qg, AllGroups(s) PROVE GroupedAt(r, Pos(Cur(l)))
  <2>1. Groups(r, n + 1)
    BY <1>1, <1>2, <1>3, <1>9, <1>4, Zenon DEF Groups, AllGroups
  <2> QED BY <1>1, <1>3, <2>1, Zenon DEF GroupedAt
<1>5. ASSUME NEW pos, ~l.qg, GroupedAt(s, pos) PROVE GroupedAt(r, pos)
  <2>1. PICK g \in 1..n : Groups(s, g) /\ pos = Pos(Cur(s[g]))
    BY <1>1, <1>5, Zenon DEF GroupedAt
  <2>2. Groups(r, g)
    BY <1>1, <1>2, <1>3, <1>5, <2>1, Zenon DEF Groups
  <2>3. r[g] = s[g] /\ g \in DOMAIN r
    BY <1>1, <1>3
  <2> QED BY <2>1, <2>2, <2>3, Zenon DEF GroupedAt
<1> QED BY <1>4, <1>5, Zenon DEF r

LEMMA GroupPop ==
    ASSUME NEW s \in Seq(PathLevel), NEW l \in PathLevel, NEW pos,
           GroupedAt(Append(s, l), pos)
    PROVE  /\ l.qg => AllGroups(s) /\ pos = Pos(Cur(l))
           /\ ~l.qg => s # <<>> /\ GroupedAt(s, pos)
<1> DEFINE r == Append(s, l)
           n == Len(s)
<1>1. /\ n \in Nat /\ r[n + 1] = l /\ DOMAIN s = 1..n /\ DOMAIN r = 1..(n + 1)
      /\ \A i \in 1..n : r[i] = s[i]
  BY Appended
<1>2. \A i \in 1..(n + 1) : i \in 1..n \/ i = n + 1
  BY <1>1
<1>3. (n + 1) \in 1..(n + 1) /\ 1..n \subseteq 1..(n + 1) /\ \A i \in 1..n : i <= n + 1 /\ ~(n + 1 <= i)
  BY <1>1
<1>9. n + 1 <= n + 1
  BY <1>1
<1>8. GroupedAt(r, pos)
  OBVIOUS
<1> HIDE DEF r, n
<1>4. PICK g \in 1..(n + 1) : Groups(r, g) /\ pos = Pos(Cur(r[g]))
  BY <1>1, <1>8, Zenon DEF GroupedAt
<1>5. l.qg <=> n + 1 <= g
  BY <1>1, <1>3, <1>4, Zenon DEF Groups
<1>6. CASE g = n + 1
  <2>1. AllGroups(s)
    BY <1>1, <1>2, <1>3, <1>4, <1>6, Zenon DEF Groups, AllGroups
  <2> QED BY <1>1, <1>4, <1>5, <1>6, <1>9, <2>1, Zenon
<1>7. CASE g \in 1..n
  <2>1. ~l.qg
    BY <1>3, <1>5, <1>7
  <2>2. Groups(s, g) /\ pos = Pos(Cur(s[g]))
    BY <1>1, <1>3, <1>4, <1>7, Zenon DEF Groups
  <2>3. s # <<>>
    BY <1>1, <1>7 DEF n
  <2>4. GroupedAt(s, pos)
    BY <1>1, <1>7, <2>2, Zenon DEF GroupedAt
  <2> QED BY <2>1, <2>3, <2>4
<1> QED BY <1>2, <1>4, <1>6, <1>7

LEMMA AllGroupsPush ==
    ASSUME NEW s \in Seq(PathLevel), NEW l \in PathLevel
    PROVE  AllGroups(Append(s, l)) <=> AllGroups(s) /\ l.qg
<1> DEFINE r == Append(s, l)
           n == Len(s)
<1>1. /\ n \in Nat /\ r[n + 1] = l /\ DOMAIN s = 1..n /\ DOMAIN r = 1..(n + 1)
      /\ \A i \in 1..n : r[i] = s[i]
  BY Appended
<1>2. \A i \in 1..(n + 1) : i \in 1..n \/ i = n + 1
  BY <1>1
<1>3. (n + 1) \in 1..(n + 1) /\ 1..n \subseteq 1..(n + 1)
  BY <1>1
<1> HIDE DEF r, n
<1>4. AllGroups(r) <=> AllGroups(s) /\ l.qg
  BY <1>1, <1>2, <1>3, Zenon DEF AllGroups
<1> QED BY <1>4 DEF r

LEMMA SoundPush ==
    ASSUME NEW s \in Seq(PathLevel), NEW l \in PathLevel
    PROVE  Sound(Append(s, l))
             <=> Sound(s) /\ LevelSound(l) /\ (l.split = "ctu" <=> s = <<>>)
<1> DEFINE r == Append(s, l)
           n == Len(s)
<1>1. /\ n \in Nat /\ r[n + 1] = l /\ DOMAIN s = 1..n /\ DOMAIN r = 1..(n + 1)
      /\ \A i \in 1..n : r[i] = s[i]
  BY Appended
<1>2. \A i \in 1..(n + 1) : i \in 1..n \/ i = n + 1
  BY <1>1
<1>3. (n + 1) \in 1..(n + 1) /\ 1..n \subseteq 1..(n + 1)
  BY <1>1
<1>4. s = <<>> <=> n + 1 = 1
  BY <1>1, EmptySeq
<1> HIDE DEF r, n
<1>5. Sound(r) <=> Sound(s) /\ LevelSound(l) /\ (l.split = "ctu" <=> n + 1 = 1)
  BY <1>1, <1>2, <1>3, Zenon DEF Sound
<1> QED BY <1>4, <1>5 DEF r

LEMMA SoundMulti ==
    ASSUME NEW s \in Seq(PathLevel), Sound(s)
    PROVE  1 \notin MultiAt(s)
BY DEF Sound, MultiAt, Btt, Bt, Tt

-----------------------------------------------------------------------------
(* What the operations of a partitioner do to its path. *)
LEMMA CutsSound ==
    ASSUME NEW split \in Splits, NEW n \in Nat
    PROVE  /\ DOMAIN Cuts(split, n) = 1..(IF split \in Tt THEN 3 ELSE 2)
           /\ \A i \in DOMAIN Cuts(split, n) : Cuts(split, n)[i] \in Nat \X Nat
           /\ Cuts(split, n)[1][1] = 0
<1>1. n \div 4 \in Nat /\ n \div 2 \in Nat /\ 3 * (n \div 4) \in Nat
  OBVIOUS
<1>2. CASE split \in Tt
  <2>1. Cuts(split, n) = <<<<0, n \div 4>>, <<n \div 4, n \div 2>>, <<3 * (n \div 4), n \div 4>>>>
    BY <1>2 DEF Cuts
  <2> DEFINE a == n \div 4
             b == n \div 2
             c == 3 * (n \div 4)
  <2> HIDE DEF a, b, c
  <2>2. a \in Nat /\ b \in Nat /\ c \in Nat /\ Cuts(split, n) = <<<<0, a>>, <<a, b>>, <<c, a>>>>
    BY <1>1, <2>1 DEF a, b, c
  <2> QED BY <1>2, <2>2
<1>3. CASE split \notin Tt
  <2>1. Cuts(split, n) = <<<<0, n \div 2>>, <<n \div 2, n \div 2>>>>
    BY <1>3 DEF Cuts
  <2> DEFINE b == n \div 2
  <2> HIDE DEF b
  <2>2. b \in Nat /\ Cuts(split, n) = <<<<0, b>>, <<b, b>>>>
    BY <1>1, <2>1 DEF b
  <2> QED BY <1>3, <2>2
<1> QED BY <1>2, <1>3

LEMMA AreaCut ==
    ASSUME NEW a \in Areas, NEW cut \in Nat \X Nat
    PROVE  /\ Across(a, cut) \in Areas /\ Along(a, cut) \in Areas
           /\ cut[1] = 0 => Pos(Across(a, cut)) = Pos(a) /\ Pos(Along(a, cut)) = Pos(a)
<1> DEFINE v == a.y + cut[1]
           z == a.x + cut[1]
           t == cut[2]
           r == [a EXCEPT !.y = v, !.h = t]
           u == [a EXCEPT !.x = z, !.w = t]
<1>1. Across(a, cut) = r /\ Along(a, cut) = u
  BY Zenon DEF Across, Along
<1>2. a.x \in Nat /\ a.y \in Nat /\ v \in Nat /\ z \in Nat /\ t \in Nat
  BY DEF Areas
<1>3. cut[1] = 0 => v = a.y /\ z = a.x
  BY <1>2
<1> HIDE DEF v, z, t
<1>4. r \in Areas /\ r.x = a.x /\ r.y = v
  BY <1>2 DEF Areas
<1>5. u \in Areas /\ u.x = z /\ u.y = a.y
  BY <1>2 DEF Areas
<1> HIDE DEF r, u
<1> QED BY <1>1, <1>3, <1>4, <1>5, Zenon DEF Pos

LEMMA PartsSound ==
    ASSUME NEW a \in Areas, NEW split \in Splits \ {"no"}
    PROVE  /\ Parts(a, split) \in Seq(Areas) /\ Len(Parts(a, split)) = PartsIn(split)
           /\ PartsIn(split) \in Nat /\ 0 < PartsIn(split)
           /\ Pos(Parts(a, split)[1]) = Pos(a)
<1> DEFINE across == Cuts(split, a.h)
           along == Cuts(split, a.w)
           n == IF split \in Tt THEN 3 ELSE 2
<1>1. a.w \in Nat /\ a.h \in Nat
  BY DEF Areas
<1>2. /\ DOMAIN across = 1..n /\ DOMAIN along = 1..n /\ across[1][1] = 0 /\ along[1][1] = 0
      /\ \A i \in 1..n : across[i] \in Nat \X Nat /\ along[i] \in Nat \X Nat
  BY <1>1, CutsSound
<1>0. n \in Nat /\ 0 < n /\ 1 \in 1..n /\ 2 \in 1..n
  OBVIOUS
<1>p. Parts(a, split) = IF split = "qt"
        THEN [i \in 1..4 |-> Along(Across(a, across[1 + ((i - 1) \div 2)]),
                                   along[1 + ((i - 1) % 2)])]
        ELSE IF split \in {"bh", "th"}
        THEN [i \in DOMAIN across |-> Across(a, across[i])]
        ELSE [i \in DOMAIN along |-> Along(a, along[i])]
  BY Zenon DEF Parts
<1> HIDE DEF across, along
<1>3. CASE split = "qt"
  <2>1. \A i \in 1..4 : 1 + ((i - 1) \div 2) \in 1..2 /\ 1 + ((i - 1) % 2) \in 1..2
    <3>1. \A i \in 1..4 : i = 1 \/ i = 2 \/ i = 3 \/ i = 4
      OBVIOUS
    <3>2. /\ 1 + ((1 - 1) \div 2) = 1 /\ 1 + ((1 - 1) % 2) = 1
          /\ 1 + ((2 - 1) \div 2) = 1 /\ 1 + ((2 - 1) % 2) = 2
          /\ 1 + ((3 - 1) \div 2) = 2 /\ 1 + ((3 - 1) % 2) = 1
          /\ 1 + ((4 - 1) \div 2) = 2 /\ 1 + ((4 - 1) % 2) = 2
      OBVIOUS
    <3> QED BY <3>1, <3>2
  <2>2. \A i \in 1..2 : i \in 1..n
    BY <1>0
  <2> DEFINE part(i) == Along(Across(a, across[1 + ((i - 1) \div 2)]), along[1 + ((i - 1) % 2)])
  <2>3. \A i \in 1..4 : part(i) \in Areas
    <3>1. TAKE i \in 1..4
    <3>2. across[1 + ((i - 1) \div 2)] \in Nat \X Nat /\ along[1 + ((i - 1) % 2)] \in Nat \X Nat
      BY <1>2, <2>1, <2>2, Zenon
    <3>3. Across(a, across[1 + ((i - 1) \div 2)]) \in Areas
      BY <3>2, AreaCut
    <3> QED BY <3>2, <3>3, AreaCut
  <2>4. part(1) = Along(Across(a, across[1]), along[1])
    <3>1. 1 + ((1 - 1) \div 2) = 1 /\ 1 + ((1 - 1) % 2) = 1
      OBVIOUS
    <3> QED BY <3>1, Zenon
  <2>5. Pos(part(1)) = Pos(a)
    <3>1. across[1] \in Nat \X Nat /\ along[1] \in Nat \X Nat
      BY <1>0, <1>2
    <3>2. Across(a, across[1]) \in Areas /\ Pos(Across(a, across[1])) = Pos(a)
      BY <1>2, <3>1, AreaCut
    <3>3. Pos(Along(Across(a, across[1]), along[1])) = Pos(Across(a, across[1]))
      BY <1>2, <3>1, <3>2, AreaCut
    <3> QED BY <2>4, <3>2, <3>3
  <2>6. Parts(a, split) = [i \in 1..4 |-> part(i)]
    BY <1>p, <1>3, Zenon
  <2> HIDE DEF part
  <2>7. Parts(a, split) \in Seq(Areas) /\ Len(Parts(a, split)) = 4 /\ Parts(a, split)[1] = part(1)
    BY <2>3, <2>6
  <2>8. PartsIn(split) = 4
    BY <1>3 DEF PartsIn
  <2> QED BY <2>5, <2>7, <2>8
<1>4. CASE split \in Btt
  <2>1. PartsIn(split) = n
    BY <1>4 DEF PartsIn, Btt, Bt, Tt
  <2> DEFINE part(i) == IF split \in {"bh", "th"} THEN Across(a, across[i]) ELSE Along(a, along[i])
  <2>2. split # "qt"
    BY <1>4 DEF Btt, Bt, Tt
  <2>3. Parts(a, split) = [i \in 1..n |-> part(i)]
    <3>1. CASE split \in {"bh", "th"}
      BY <1>p, <1>2, <2>2, <3>1
    <3>2. CASE split \notin {"bh", "th"}
      BY <1>p, <1>2, <2>2, <3>2
    <3> QED BY <3>1, <3>2
  <2>4. \A i \in 1..n : part(i) \in Areas
    BY <1>2, AreaCut
  <2>5. Pos(part(1)) = Pos(a)
    <3>1. across[1] \in Nat \X Nat /\ along[1] \in Nat \X Nat
      BY <1>0, <1>2
    <3> QED BY <1>2, <3>1, AreaCut
  <2> HIDE DEF part, n
  <2>6. Parts(a, split) \in Seq(Areas) /\ Len(Parts(a, split)) = n /\ Parts(a, split)[1] = part(1)
    BY <1>0, <2>3, <2>4
  <2> QED BY <1>0, <2>1, <2>5, <2>6
<1> QED BY <1>3, <1>4 DEF Splits

LEMMA SplitKinds ==
    /\ Splits \ {"no"} = {"qt"} \cup Btt
    /\ \A split \in Btt : /\ split # "qt" /\ split # "ctu" /\ split # "no"
                          /\ PartsIn(split) = IF split \in Tt THEN 3 ELSE 2
                          /\ split \in Tt <=> split \notin Bt
    /\ "qt" \notin Bt /\ "qt" \notin Tt /\ "ctu" \notin Bt /\ "ctu" \notin Tt /\ PartsIn("qt") = 4
    /\ PartsIn("ctu") = 1
BY DEF Splits, Btt, Bt, Tt, PartsIn

LEMMA LevelsCounted == ASSUME NEW q \in Partition PROVE Len(q.levels) \in Nat
<1>1. q.levels \in Seq(PathLevel)
  BY DEF Partition
<1> QED BY <1>1

CountsOf(q) == [qt |-> q.qt, mt |-> q.mt, implicitBt |-> q.implicitBt, bt |-> q.bt,
                subdiv |-> q.subdiv]
SameKind(r, q) == r.chType = q.chType /\ r.treeType = q.treeType /\ r.modeType = q.modeType

\* The path ends with a level below others.
PathOf(q, s, l) ==
    /\ s \in Seq(PathLevel) /\ l \in PathLevel /\ q.levels = Append(s, l)
    /\ Level(q) = l /\ Front(q.levels) = s
    /\ \A m \in PathLevel : [q.levels EXCEPT ![Len(q.levels)] = m] = Append(s, m)

LEMMA PathExists ==
    ASSUME NEW q \in Partition, q.levels # <<>>
    PROVE  PathOf(q, Front(q.levels), Level(q))
<1>1. q.levels \in Seq(PathLevel)
  BY DEF Partition
<1> QED BY <1>1, LastOf, Zenon DEF PathOf, Level

Asked(c, q) == [Level(q) EXCEPT !.implicit = getImplicitSplit(c, q)]

LEMMA AskedSound ==
    ASSUME NEW c, NEW q, Level(q) \in PathLevel
    PROVE  /\ getImplicitSplit(c, q) \in Splits /\ Asked(c, q) \in PathLevel
           /\ Asked(c, q).split = Level(q).split /\ Asked(c, q).parts = Level(q).parts
           /\ Asked(c, q).idx = Level(q).idx /\ Asked(c, q).qg = Level(q).qg
           /\ Asked(c, q).implicit = getImplicitSplit(c, q)
<1>1. ForcedSplit(c, q) \in Splits
  BY DEF ForcedSplit, Splits, Btt, Bt, Tt
<1>2. getImplicitSplit(c, q) \in Splits
  BY <1>1 DEF getImplicitSplit, PathLevel
<1> HIDE DEF Splits
<1> QED BY <1>2 DEF Asked, PathLevel

LEMMA CheckedPath ==
    ASSUME NEW c, NEW q \in Partition, q.levels # <<>>
    PROVE  Checked(c, q) = [q EXCEPT !.levels = Append(Front(q.levels), Asked(c, q))]
<1> DEFINE n == Len(q.levels)
           i == getImplicitSplit(c, q)
<1>1. PathOf(q, Front(q.levels), Level(q))
  BY PathExists
<1>2. Asked(c, q) \in PathLevel
  BY <1>1, AskedSound DEF PathOf
<1>3. Level(q) = q.levels[n]
  BY DEF Level, Last
<1>4. [q.levels EXCEPT ![n].implicit = i] = [q.levels EXCEPT ![n] = [q.levels[n] EXCEPT !.implicit = i]]
  OBVIOUS
<1>5. [q.levels EXCEPT ![n].implicit = i] = [q.levels EXCEPT ![n] = Asked(c, q)]
  BY <1>3, <1>4, Zenon DEF Asked
<1>6. [q.levels EXCEPT ![n] = Asked(c, q)] = Append(Front(q.levels), Asked(c, q))
  BY <1>1, <1>2, Zenon DEF PathOf
<1>7. Checked(c, q) = [q EXCEPT !.levels = [q.levels EXCEPT ![n].implicit = i]]
  BY DEF Checked
<1> QED BY <1>5, <1>6, <1>7, Zenon

\* A block is divided.
Child(c, q, split) ==
    PartLevel(split, Parts(currArea(q), split),
              Level(q).qg /\ q.subdiv + (IF split \in Bt THEN 1 ELSE 2) <= c.qpSubdiv)
DividedPath(r, c, q, split) ==
    /\ r \in Partition /\ SameKind(r, q)
    /\ r.levels = Append(Append(Front(q.levels), Asked(c, q)), Child(c, q, split))
    /\ r.qgPos = IF Child(c, q, split).qg THEN Pos(Cur(Child(c, q, split))) ELSE q.qgPos
    /\ CountsOf(r) = Plus(CountsOf(q), Child(c, q, split), getImplicitSplit(c, q) = split)

LEMMA CurSound ==
    ASSUME NEW l \in PathLevel, LevelSound(l)
    PROVE  Cur(l) \in Areas /\ Pos(Cur(l)) \in Nat \X Nat
<1>1. l.parts \in Seq(Areas) /\ l.idx \in Nat /\ l.idx < Len(l.parts)
  BY DEF PathLevel, LevelSound
<1>2. l.idx + 1 \in 1..Len(l.parts)
  BY <1>1
<1>3. Cur(l) \in Areas
  BY <1>1, <1>2 DEF Cur
<1> QED BY <1>3 DEF Areas, Pos

LEMMA ChildSound ==
    ASSUME NEW c, NEW q, NEW split \in Splits \ {"no"}, Level(q) \in PathLevel,
           LevelSound(Level(q))
    PROVE  /\ Child(c, q, split) \in PathLevel /\ LevelSound(Child(c, q, split))
           /\ Child(c, q, split).split = split /\ Child(c, q, split).idx = 0
           /\ Pos(Cur(Child(c, q, split))) = Pos(Cur(Level(q)))
           /\ Child(c, q, split).qg => Level(q).qg
<1> DEFINE parts == Parts(currArea(q), split)
           g == Level(q).qg /\ q.subdiv + (IF split \in Bt THEN 1 ELSE 2) <= c.qpSubdiv
<1>1. currArea(q) = Cur(Level(q))
  BY DEF currArea, Cur
<1>2. currArea(q) \in Areas
  BY <1>1, CurSound
<1>3. /\ parts \in Seq(Areas) /\ Len(parts) = PartsIn(split) /\ 0 < PartsIn(split)
      /\ Pos(parts[1]) = Pos(currArea(q))
  BY <1>2, PartsSound
<1> HIDE DEF parts
<1>4. g \in BOOLEAN /\ (g => Level(q).qg)
  OBVIOUS
<1>5. Child(c, q, split) = [split |-> split, parts |-> parts, idx |-> 0, implicit |-> "unknown", qg |-> g]
  BY Zenon DEF Child, PartLevel, parts
<1> HIDE DEF g, Splits
<1>6. split \in Splits /\ split # "no" /\ 0 + 1 = 1 /\ 0 \in Nat
  OBVIOUS
<1> QED BY <1>1, <1>3, <1>4, <1>5, <1>6 DEF PathLevel, LevelSound, Cur

LEMMA CheckedFields ==
    ASSUME NEW c, NEW q \in Partition, q.levels # <<>>
    PROVE  /\ Checked(c, q) \in Partition /\ SameKind(Checked(c, q), q)
           /\ Checked(c, q).levels = Append(Front(q.levels), Asked(c, q))
           /\ Checked(c, q).qgPos = q.qgPos /\ CountsOf(Checked(c, q)) = CountsOf(q)
<1> DEFINE s == Append(Front(q.levels), Asked(c, q))
           k == Checked(c, q)
<1>1. PathOf(q, Front(q.levels), Level(q))
  BY PathExists
<1>2. s \in Seq(PathLevel)
  BY <1>1, AskedSound, Appended DEF PathOf
<1>3. k = [q EXCEPT !.levels = s]
  BY CheckedPath
<1> HIDE DEF s, k
<1>4. /\ k \in Partition /\ SameKind(k, q) /\ k.levels = s /\ k.qgPos = q.qgPos
      /\ CountsOf(k) = CountsOf(q)
  BY <1>2, <1>3 DEF Partition, SameKind, CountsOf
<1> QED BY <1>4 DEF s, k

\* The position of a group is set where it is on.
LEMMA AtGroupFields ==
    ASSUME NEW m \in Partition, m.levels # <<>>, LevelSound(Level(m))
    PROVE  /\ AtGroup(m) \in Partition /\ SameKind(AtGroup(m), m)
           /\ AtGroup(m).levels = m.levels /\ CountsOf(AtGroup(m)) = CountsOf(m)
           /\ AtGroup(m).qgPos = (IF Level(m).qg THEN Pos(Cur(Level(m))) ELSE m.qgPos)
<1> DEFINE r == AtGroup(m)
           z == Pos(Cur(Level(m)))
<1>1. PathOf(m, Front(m.levels), Level(m))
  BY PathExists
<1>2. z \in Nat \X Nat
  BY <1>1, CurSound DEF PathOf
<1>3. r = IF Level(m).qg THEN [m EXCEPT !.qgPos = z] ELSE m
  BY Zenon DEF AtGroup, currArea, Cur
<1> HIDE DEF r, z
<1>4. CASE Level(m).qg
  <2>1. /\ r \in Partition /\ SameKind(r, m) /\ r.levels = m.levels /\ CountsOf(r) = CountsOf(m)
        /\ r.qgPos = z
    BY <1>2, <1>3, <1>4 DEF Partition, SameKind, CountsOf
  <2> QED BY <1>4, <2>1 DEF r, z
<1>5. CASE ~Level(m).qg
  <2>1. r = m
    BY <1>3, <1>5
  <2> QED BY <1>5, <2>1 DEF r, SameKind
<1> QED BY <1>4, <1>5

LEMMA DividesPath ==
    ASSUME NEW c, NEW q \in Partition, NEW split \in Splits \ {"no"}, q.levels # <<>>,
           LevelSound(Level(q)), split = "qt" => q.bt = 0 /\ q.mt = 0
    PROVE  DividedPath(splitCurrArea(c, q, split), c, q, split)
<1> DEFINE l == Child(c, q, split)
           a == Asked(c, q)
           k == Checked(c, q)
           u == Append(Front(q.levels), a)
           s == Append(u, l)
           g == IF getImplicitSplit(c, q) = split THEN 1 ELSE 0
           d == q.subdiv + (IF split \in Bt THEN 1 ELSE 2)
           e == [k EXCEPT !.levels = Append(k.levels, l), !.subdiv = d]
           m == IF split = "qt"
                THEN [e EXCEPT !.qt = e.qt + 1, !.bt = 0, !.mt = 0]
                ELSE [e EXCEPT !.bt = e.bt + (IF split \in Tt THEN 2 ELSE 1), !.mt = e.mt + 1,
                               !.implicitBt = e.implicitBt + g]
<1>1. PathOf(q, Front(q.levels), Level(q))
  BY PathExists
<1>2. /\ l \in PathLevel /\ LevelSound(l) /\ l.split = split /\ l.idx = 0 /\ a \in PathLevel
  BY <1>1, ChildSound, AskedSound DEF PathOf
<1>4. splitCurrArea(c, q, split) = AtGroup(m)
  BY Zenon DEF splitCurrArea, Child
<1>5. u \in Seq(PathLevel)
  BY <1>1, <1>2, Appended DEF PathOf
<1>6. /\ k \in Partition /\ SameKind(k, q) /\ k.levels = u /\ k.qgPos = q.qgPos
      /\ CountsOf(k) = CountsOf(q)
  BY CheckedFields
<1> HIDE DEF u, g, l, a, k
<1>3. s \in Seq(PathLevel) /\ Last(s) = l /\ s # <<>>
  BY <1>2, <1>5, Appended
<1> HIDE DEF s
<1>7. g \in {0, 1} /\ g = (IF getImplicitSplit(c, q) = split THEN 1 ELSE 0)
  BY DEF g
<1>8. d \in Int /\ d = q.subdiv + (IF split \in Bt THEN 1 ELSE 2)
  BY DEF Partition
<1> HIDE DEF d
<1>9. k.qt = q.qt /\ k.mt = q.mt /\ k.bt = q.bt /\ k.implicitBt = q.implicitBt /\ k.subdiv = q.subdiv
  BY <1>6 DEF CountsOf
<1>10. /\ e \in Partition /\ SameKind(e, q) /\ e.levels = s /\ e.qgPos = q.qgPos
       /\ e.qt = q.qt /\ e.mt = q.mt /\ e.bt = q.bt /\ e.implicitBt = q.implicitBt
       /\ e.subdiv = d
  <2>1. e = [k EXCEPT !.levels = s, !.subdiv = d]
    BY <1>6 DEF s
  <2> HIDE DEF e
  <2> QED BY <1>3, <1>6, <1>8, <1>9, <2>1 DEF Partition, SameKind
<1> HIDE DEF e
<1>11. /\ m \in Partition /\ SameKind(m, q) /\ m.levels = s /\ m.qgPos = q.qgPos
       /\ m.qt = q.qt + (IF split = "qt" THEN 1 ELSE 0)
       /\ m.mt = q.mt + (IF split \in Btt THEN 1 ELSE 0)
       /\ m.bt = q.bt + (IF split \in Bt THEN 1 ELSE IF split \in Tt THEN 2 ELSE 0)
       /\ m.implicitBt = q.implicitBt + (IF split \in Btt THEN g ELSE 0)
       /\ m.subdiv = d
  <2>0. q.qt \in Int /\ q.mt \in Int /\ q.bt \in Int /\ q.implicitBt \in Int
    BY DEF Partition
  <2>1. CASE split = "qt"
    <3>1. m = [e EXCEPT !.qt = q.qt + 1, !.bt = 0, !.mt = 0]
      BY <1>10, <2>1
    <3> HIDE DEF m
    <3>2. split \notin Btt /\ split \notin Bt /\ split \notin Tt
      BY <2>1, SplitKinds
    <3> DEFINE x == q.qt + 1
               o == 0
    <3>3. x \in Int /\ o \in Int
      BY <2>0
    <3>4. m = [e EXCEPT !.qt = x, !.bt = o, !.mt = o]
      BY <3>1
    <3> HIDE DEF x, o
    <3>5. m \in Partition
      BY <1>10, <3>3, <3>4 DEF Partition
    <3>6. /\ m.chType = e.chType /\ m.treeType = e.treeType /\ m.modeType = e.modeType
          /\ m.levels = e.levels /\ m.qgPos = e.qgPos
          /\ m.qt = x /\ m.mt = o /\ m.bt = o /\ m.implicitBt = e.implicitBt /\ m.subdiv = e.subdiv
      BY <1>10, <3>4 DEF Partition
    <3>7. q.bt + 0 = 0 /\ q.mt + 0 = 0 /\ q.implicitBt + 0 = q.implicitBt
      BY <2>0, <2>1
    <3> QED BY <1>10, <2>1, <3>2, <3>5, <3>6, <3>7 DEF SameKind, x, o
  <2>2. CASE split \in Btt
    <3> DEFINE b == q.bt + (IF split \in Tt THEN 2 ELSE 1)
    <3>0. split # "qt"
      BY <2>2, SplitKinds
    <3>1. m = [e EXCEPT !.bt = b, !.mt = q.mt + 1, !.implicitBt = q.implicitBt + g]
      BY <1>10, <3>0
    <3> HIDE DEF m
    <3>2. b \in Int /\ b = q.bt + (IF split \in Bt THEN 1 ELSE IF split \in Tt THEN 2 ELSE 0)
      BY <2>0, <2>2, SplitKinds
    <3> HIDE DEF b
    <3> DEFINE x == q.mt + 1
               y == q.implicitBt + g
    <3>3. x \in Int /\ y \in Int
      BY <1>7, <2>0
    <3>4. m = [e EXCEPT !.bt = b, !.mt = x, !.implicitBt = y]
      BY <3>1
    <3> HIDE DEF x, y
    <3>5. m \in Partition
      BY <1>10, <3>2, <3>3, <3>4 DEF Partition
    <3>6. /\ m.chType = e.chType /\ m.treeType = e.treeType /\ m.modeType = e.modeType
          /\ m.levels = e.levels /\ m.qgPos = e.qgPos
          /\ m.qt = e.qt /\ m.mt = x /\ m.bt = b /\ m.implicitBt = y /\ m.subdiv = e.subdiv
      BY <1>10, <3>4 DEF Partition
    <3>7. q.qt + 0 = q.qt
      BY <2>0
    <3> QED BY <1>10, <2>2, <3>0, <3>2, <3>5, <3>6, <3>7 DEF SameKind, x, y
  <2> QED BY <2>1, <2>2, SplitKinds
<1> HIDE DEF m
<1>12. Level(m) = l /\ m.levels # <<>>
  BY <1>3, <1>11 DEF Level
<1> DEFINE r == AtGroup(m)
<1>13. /\ r \in Partition /\ SameKind(r, m) /\ r.levels = m.levels /\ CountsOf(r) = CountsOf(m)
       /\ r.qgPos = (IF l.qg THEN Pos(Cur(l)) ELSE m.qgPos)
  BY <1>2, <1>11, <1>12, AtGroupFields
<1> HIDE DEF r
<1>14. CountsOf(m) = Plus(CountsOf(q), l, getImplicitSplit(c, q) = split)
  <2>1. TakenBy(l) = IF split \in Bt THEN 1 ELSE 2
    BY <1>2, SplitKinds DEF TakenBy
  <2>2. split \in Btt => (split \in Tt <=> split \notin Bt)
    BY SplitKinds
  <2> QED BY <1>2, <1>7, <1>8, <1>11, <2>1, <2>2, SplitKinds DEF CountsOf, Plus
<1>15. SameKind(r, q) /\ r.qgPos = (IF l.qg THEN Pos(Cur(l)) ELSE q.qgPos)
  BY <1>11, <1>13, Zenon DEF SameKind
<1>16. r.levels = s /\ CountsOf(r) = Plus(CountsOf(q), l, getImplicitSplit(c, q) = split)
  BY <1>11, <1>13, <1>14, Zenon
<1>17. DividedPath(r, c, q, split)
  BY <1>13, <1>15, <1>16, Zenon DEF DividedPath, s, u, l, a
<1> QED BY <1>4, <1>17, Zenon DEF r

\* The next part of a block becomes the current one.
Further(l) == [l EXCEPT !.idx = l.idx + 1, !.implicit = "unknown"]
NextPath(r, q) ==
    /\ r \in Partition /\ SameKind(r, q)
    /\ r.levels = Append(Front(q.levels), Further(Level(q)))
    /\ r.qgPos = IF Level(q).qg THEN Pos(Cur(Further(Level(q)))) ELSE q.qgPos
    /\ \A t \in Tallies, forced \in BOOLEAN :
          CountsOf(q) = Plus(t, Level(q), forced)
            => CountsOf(r) = Plus(t, Further(Level(q)), forced)

LEMMA FurtherSound ==
    ASSUME NEW l \in PathLevel, LevelSound(l), l.idx + 1 < Len(l.parts)
    PROVE  /\ Further(l) \in PathLevel /\ LevelSound(Further(l))
           /\ Further(l).split = l.split /\ Further(l).idx = l.idx + 1
           /\ Further(l).qg = l.qg /\ Further(l).parts = l.parts
<1> DEFINE n == l.idx + 1
           r == Further(l)
<1>1. r = [l EXCEPT !.idx = n, !.implicit = "unknown"]
  BY Zenon DEF Further
<1>2. n \in Nat /\ n < Len(l.parts)
  BY DEF PathLevel
<1> HIDE DEF n, r
<1>3. /\ r \in PathLevel /\ r.split = l.split /\ r.idx = n /\ r.qg = l.qg /\ r.parts = l.parts
  BY <1>1, <1>2 DEF PathLevel
<1> QED BY <1>2, <1>3, Zenon DEF LevelSound, r, n

\* The middle part of three counts one less than those beside it.
LEMMA TakenFurther ==
    ASSUME NEW l \in PathLevel, LevelSound(l), l.idx + 1 < Len(l.parts), l.split # "ctu"
    PROVE  TakenBy(Further(l))
             = TakenBy(l) + (IF l.split \notin Tt THEN 0 ELSE IF l.idx + 1 = 1 THEN -1 ELSE 1)
<1>1. Further(l).split = l.split /\ Further(l).idx = l.idx + 1 /\ l.idx \in Nat
  BY FurtherSound DEF PathLevel
<1>2. CASE l.split \in Tt
  <2>1. l.idx < 2 /\ l.split \notin Bt
    <3>1. Len(l.parts) = 3
      BY <1>2 DEF LevelSound, PartsIn, Tt
    <3> QED BY <1>1, <1>2, <3>1 DEF Bt, Tt
  <2> QED BY <1>1, <1>2, <2>1 DEF TakenBy
<1>3. CASE l.split \notin Tt
  BY <1>1, <1>3 DEF TakenBy
<1> QED BY <1>2, <1>3

LEMMA NextsPath ==
    ASSUME NEW q \in Partition, q.levels # <<>>, LevelSound(Level(q)), hasNextPart(q)
    PROVE  NextPath(nextPart(q), q)
<1> DEFINE l == Level(q)
           f == Further(l)
           n == Len(q.levels)
           s == Append(Front(q.levels), f)
           k == [q EXCEPT !.levels[n].idx = @ + 1, !.levels[n].implicit = "unknown"]
           step == IF l.split \notin Tt THEN 0 ELSE IF l.idx + 1 = 1 THEN -1 ELSE 1
           m == Adapted(k)
           r == AtGroup(m)
<1>1. PathOf(q, Front(q.levels), l)
  BY PathExists
<1>2. l \in PathLevel /\ l.idx + 1 < Len(l.parts) /\ LevelSound(l) /\ l.idx \in Nat
  BY <1>1 DEF PathOf, hasNextPart, PathLevel
<1>3. /\ f \in PathLevel /\ LevelSound(f) /\ f.split = l.split /\ f.idx = l.idx + 1 /\ f.qg = l.qg
  BY <1>2, FurtherSound
<1>4. s \in Seq(PathLevel) /\ Last(s) = f /\ s # <<>>
  BY <1>1, <1>3, Appended DEF PathOf
<1>5. l = q.levels[n] /\ n \in DOMAIN q.levels /\ q.levels \in Seq(PathLevel)
  <2>1. q.levels \in Seq(PathLevel)
    BY DEF Partition
  <2>2. l = q.levels[n]
    BY DEF Level, Last
  <2> QED BY <2>1, <2>2
<1>6. l.split # "ctu"
  BY <1>2 DEF LevelSound, PartsIn
<1>7. nextPart(q) = r
  BY Zenon DEF nextPart
<1>8. k = [q EXCEPT !.levels = s]
  <2> DEFINE v == q.levels
             v1 == [v EXCEPT ![n].idx = v[n].idx + 1]
             v2 == [v1 EXCEPT ![n].implicit = "unknown"]
  <2>1. k = [q EXCEPT !.levels = v2]
    OBVIOUS
  <2>2. v2 = [v EXCEPT ![n] = f]
    <3> DEFINE x == l.idx + 1
               w1 == [l EXCEPT !.idx = x]
               w2 == [w1 EXCEPT !.implicit = "unknown"]
    <3>1. v1 = [v EXCEPT ![n] = w1]
      BY <1>5
    <3>2. f = w2
      <4>1. f = [l EXCEPT !.idx = x, !.implicit = "unknown"]
        BY Zenon DEF Further
      <4>2. l \in PathLevel
        BY <1>2
      <4> HIDE DEF l, x, f
      <4> QED BY <4>1, <4>2 DEF PathLevel
    <3> HIDE DEF f, l, w1, v
    <3>3. v1[n] = w1
      BY <1>5, <3>1 DEF v
    <3>4. v2 = [v1 EXCEPT ![n] = w2]
      BY <3>3
    <3> HIDE DEF v1, v2, w2
    <3> QED BY <3>1, <3>2, <3>4
  <2>3. [v EXCEPT ![n] = f] = s
    BY <1>1, <1>3, Zenon DEF PathOf
  <2> QED BY <2>1, <2>2, <2>3
<1> HIDE DEF s, k, n, l, f, r
<1>9. /\ k \in Partition /\ SameKind(k, q) /\ k.levels = s /\ k.qgPos = q.qgPos
      /\ CountsOf(k) = CountsOf(q) /\ k.bt = q.bt /\ k.subdiv = q.subdiv
  BY <1>4, <1>8 DEF Partition, SameKind, CountsOf
<1>10. Level(k) = f
  BY <1>4, <1>9 DEF Level
<1>11. step \in Int /\ q.bt \in Int /\ q.subdiv \in Int
  BY DEF Partition
<1>12. m = [k EXCEPT !.bt = q.bt + step, !.subdiv = q.subdiv + step]
  BY <1>3, <1>9, <1>10, Zenon DEF Adapted
<1> HIDE DEF step, m
<1>13. /\ m \in Partition /\ SameKind(m, k) /\ m.levels = k.levels /\ m.qgPos = k.qgPos
       /\ m.qt = k.qt /\ m.mt = k.mt /\ m.implicitBt = k.implicitBt
       /\ m.bt = q.bt + step /\ m.subdiv = q.subdiv + step
  <2> DEFINE x == q.bt + step
             y == q.subdiv + step
  <2>1. x \in Int /\ y \in Int
    BY <1>11
  <2>2. m = [k EXCEPT !.bt = x, !.subdiv = y]
    BY <1>12
  <2> HIDE DEF x, y
  <2>3. m \in Partition
    BY <1>9, <2>1, <2>2 DEF Partition
  <2>4. /\ SameKind(m, k) /\ m.levels = k.levels /\ m.qgPos = k.qgPos
        /\ m.qt = k.qt /\ m.mt = k.mt /\ m.implicitBt = k.implicitBt /\ m.bt = x /\ m.subdiv = y
    BY <1>9, <2>2 DEF Partition, SameKind
  <2> QED BY <2>3, <2>4 DEF x, y
<1>14. Level(m) = f /\ m.levels # <<>>
  BY <1>4, <1>9, <1>10, <1>13 DEF Level
<1>15. /\ r \in Partition /\ SameKind(r, m) /\ r.levels = m.levels /\ CountsOf(r) = CountsOf(m)
       /\ r.qgPos = (IF f.qg THEN Pos(Cur(f)) ELSE m.qgPos)
  BY <1>3, <1>13, <1>14, AtGroupFields DEF r
<1>16. ASSUME NEW t \in Tallies, NEW forced \in BOOLEAN, CountsOf(q) = Plus(t, l, forced)
       PROVE  CountsOf(r) = Plus(t, f, forced)
  <2>1. TakenBy(f) = TakenBy(l) + step
    BY <1>2, <1>6, TakenFurther, Zenon DEF f, step
  <2>2. TakenBy(l) \in Int
    BY DEF TakenBy
  <2>3. step = 0 \/ l.split \in Btt
    BY DEF step, Btt
  <2>4. /\ k.qt = t.qt + (IF l.split = "qt" THEN 1 ELSE 0)
        /\ k.mt = t.mt + (IF l.split \in Btt THEN 1 ELSE 0)
        /\ k.implicitBt = t.implicitBt + (IF l.split \in Btt /\ forced THEN 1 ELSE 0)
        /\ q.bt = t.bt + (IF l.split \in Btt THEN TakenBy(l) ELSE 0)
        /\ q.subdiv = t.subdiv + TakenBy(l)
    BY <1>9, <1>16 DEF CountsOf, Plus
  <2>5. t.bt \in Int /\ t.subdiv \in Int
    BY DEF Tallies
  <2>6. m.bt = t.bt + (IF l.split \in Btt THEN TakenBy(f) ELSE 0) /\ m.subdiv = t.subdiv + TakenBy(f)
    BY <1>11, <1>13, <2>1, <2>2, <2>3, <2>4, <2>5
  <2>7. CountsOf(m) = Plus(t, f, forced)
    BY <1>3, <1>13, <2>4, <2>6, Zenon DEF CountsOf, Plus
  <2> QED BY <1>15, <2>7
<1>17. /\ SameKind(r, q) /\ r.levels = Append(Front(q.levels), f)
       /\ r.qgPos = IF l.qg THEN Pos(Cur(f)) ELSE q.qgPos
  BY <1>3, <1>9, <1>13, <1>15, Zenon DEF SameKind, s
<1>18. NextPath(r, q)
  BY <1>15, <1>16, <1>17, Zenon DEF NextPath, l, f
<1> QED BY <1>7, <1>18, Zenon

\* A block is left behind its last part.
ExitPath(r, q) ==
    /\ r \in Partition /\ SameKind(r, q) /\ r.levels = Front(q.levels)
    /\ r.qgPos = IF Last(Front(q.levels)).qg THEN Pos(Cur(Last(Front(q.levels)))) ELSE q.qgPos
    /\ \A t \in Tallies :
          CountsOf(q) = Plus(t, Level(q), Forced(Front(q.levels))) => CountsOf(r) = t

LEMMA ExitsPath ==
    ASSUME NEW q \in Partition, q.levels # <<>>, LevelSound(Level(q)), ~hasNextPart(q),
           Level(q).split # "ctu", Front(q.levels) # <<>>, LevelSound(Last(Front(q.levels)))
    PROVE  ExitPath(exitCurrSplit(q), q)
<1> DEFINE l == Level(q)
           s == Front(q.levels)
           d == Last(s)
           k == [q EXCEPT !.levels = s]
           m == AtGroup(k)
           taken == IF l.split \in Bt THEN 1 ELSE 2
           g == IF d.implicit # "no" THEN 1 ELSE 0
           r == exitCurrSplit(q)
<1>1. PathOf(q, s, l)
  BY PathExists
<1>2. l \in PathLevel /\ s \in Seq(PathLevel) /\ LevelSound(l) /\ l.idx \in Nat /\ ~(l.idx + 1 < Len(l.parts))
  BY <1>1 DEF PathOf, hasNextPart, PathLevel
<1>3. d \in PathLevel /\ LevelSound(d)
  BY <1>2, LastOf
<1>4. TakenBy(l) = taken
  <2>1. CASE l.split \in Tt
    <3>1. Len(l.parts) = 3 /\ l.split \notin Bt
      BY <2>1 DEF LevelSound, PartsIn, Tt, Bt
    <3>2. l.idx = 2
      BY <1>2, <3>1 DEF LevelSound
    <3> QED BY <2>1, <3>1, <3>2 DEF TakenBy
  <2>2. CASE l.split \notin Tt
    BY <2>2 DEF TakenBy
  <2> QED BY <2>1, <2>2
<1>5. l.split \in Splits \ {"no"}
  BY <1>2 DEF LevelSound, PathLevel
<1>6. taken \in Int /\ g \in Int
  OBVIOUS
<1>7. s # <<>>
  OBVIOUS
<1> HIDE DEF l, s
<1>8. k \in Partition /\ SameKind(k, q) /\ k.levels = s /\ k.qgPos = q.qgPos /\ CountsOf(k) = CountsOf(q)
  BY <1>2 DEF Partition, SameKind, CountsOf
<1> HIDE DEF k
<1>9. Level(k) = d
  BY <1>8 DEF Level
<1>10. /\ m \in Partition /\ SameKind(m, k) /\ m.levels = s /\ CountsOf(m) = CountsOf(k)
       /\ m.qgPos = (IF d.qg THEN Pos(Cur(d)) ELSE k.qgPos)
  BY <1>3, <1>7, <1>8, <1>9, AtGroupFields
<1>11. Level(m) = d
  BY <1>10 DEF Level
<1>12. r = IF l.split = "qt" THEN [m EXCEPT !.qt = @ - 1, !.subdiv = @ - taken]
           ELSE [m EXCEPT !.bt = @ - taken, !.subdiv = @ - taken, !.mt = @ - 1,
                          !.implicitBt = @ - (IF Level(m).implicit # "no" THEN 1 ELSE 0)]
  BY Zenon DEF exitCurrSplit, l, s, k
<1> HIDE DEF m, r, d
<1>13. /\ m.qt = q.qt /\ m.mt = q.mt /\ m.bt = q.bt /\ m.implicitBt = q.implicitBt
       /\ m.subdiv = q.subdiv
  BY <1>8, <1>10 DEF CountsOf
<1>14. q.qt \in Int /\ q.mt \in Int /\ q.bt \in Int /\ q.implicitBt \in Int /\ q.subdiv \in Int
  BY DEF Partition
<1> DEFINE y == q.subdiv - taken
<1>15. /\ r \in Partition /\ SameKind(r, m) /\ r.levels = m.levels /\ r.qgPos = m.qgPos
       /\ r.qt = q.qt - (IF l.split = "qt" THEN 1 ELSE 0)
       /\ r.mt = q.mt - (IF l.split \in Btt THEN 1 ELSE 0)
       /\ r.bt = q.bt - (IF l.split \in Btt THEN taken ELSE 0)
       /\ r.implicitBt = q.implicitBt - (IF l.split \in Btt THEN g ELSE 0)
       /\ r.subdiv = y
  <2>1. CASE l.split = "qt"
    <3> DEFINE x == q.qt - 1
    <3>1. x \in Int /\ y \in Int
      BY <1>6, <1>14
    <3>2. r = [m EXCEPT !.qt = x, !.subdiv = y]
      BY <1>12, <1>13, <2>1
    <3> HIDE DEF x, y
    <3>3. r \in Partition
      BY <1>10, <3>1, <3>2 DEF Partition
    <3>4. /\ SameKind(r, m) /\ r.levels = m.levels /\ r.qgPos = m.qgPos /\ r.qt = x
          /\ r.mt = m.mt /\ r.bt = m.bt /\ r.implicitBt = m.implicitBt /\ r.subdiv = y
      BY <1>10, <3>2 DEF Partition, SameKind
    <3>5. l.split \notin Btt
      BY <2>1, SplitKinds
    <3>6. q.mt - 0 = q.mt /\ q.bt - 0 = q.bt /\ q.implicitBt - 0 = q.implicitBt
      BY <1>14
    <3> QED BY <1>13, <2>1, <3>3, <3>4, <3>5, <3>6 DEF x
  <2>2. CASE l.split \in Btt
    <3> DEFINE b == q.bt - taken
               x == q.mt - 1
               z == q.implicitBt - g
    <3>0. l.split # "qt"
      BY <2>2, SplitKinds
    <3>1. b \in Int /\ x \in Int /\ y \in Int /\ z \in Int
      BY <1>6, <1>14
    <3>2. r = [m EXCEPT !.bt = b, !.subdiv = y, !.mt = x, !.implicitBt = z]
      BY <1>11, <1>12, <1>13, <3>0
    <3> HIDE DEF b, x, y, z
    <3>3. r \in Partition
      BY <1>10, <3>1, <3>2 DEF Partition
    <3>4. /\ SameKind(r, m) /\ r.levels = m.levels /\ r.qgPos = m.qgPos /\ r.qt = m.qt
          /\ r.mt = x /\ r.bt = b /\ r.implicitBt = z /\ r.subdiv = y
      BY <1>10, <3>2 DEF Partition, SameKind
    <3>6. q.qt - 0 = q.qt
      BY <1>14
    <3> QED BY <1>13, <2>2, <3>0, <3>3, <3>4, <3>6 DEF b, x, z
  <2> QED BY <1>5, <2>1, <2>2, SplitKinds
<1>16. ASSUME NEW t \in Tallies, CountsOf(q) = Plus(t, l, Forced(s)) PROVE CountsOf(r) = t
  <2>1. Forced(s) <=> d.implicit # "no"
    BY <1>7 DEF Forced, d
  <2>2. /\ q.qt = t.qt + (IF l.split = "qt" THEN 1 ELSE 0)
        /\ q.mt = t.mt + (IF l.split \in Btt THEN 1 ELSE 0)
        /\ q.implicitBt = t.implicitBt + (IF l.split \in Btt /\ Forced(s) THEN 1 ELSE 0)
        /\ q.bt = t.bt + (IF l.split \in Btt THEN TakenBy(l) ELSE 0)
        /\ q.subdiv = t.subdiv + TakenBy(l)
    BY <1>16 DEF CountsOf, Plus
  <2>3. /\ t.qt \in Int /\ t.mt \in Int /\ t.implicitBt \in Int /\ t.bt \in Int /\ t.subdiv \in Int
        /\ t = [qt |-> t.qt, mt |-> t.mt, implicitBt |-> t.implicitBt, bt |-> t.bt, subdiv |-> t.subdiv]
    BY DEF Tallies
  <2> DEFINE one == IF l.split = "qt" THEN 1 ELSE 0
             many == IF l.split \in Btt THEN 1 ELSE 0
             all == IF l.split \in Btt THEN taken ELSE 0
             asked == IF l.split \in Btt THEN g ELSE 0
  <2>a. one \in Int /\ many \in Int /\ all \in Int /\ asked \in Int
    BY <1>6
  <2>b. /\ r.qt = q.qt - one /\ r.mt = q.mt - many /\ r.bt = q.bt - all
        /\ r.implicitBt = q.implicitBt - asked /\ r.subdiv = q.subdiv - taken
    BY <1>15
  <2>c. /\ q.qt = t.qt + one /\ q.mt = t.mt + many /\ q.bt = t.bt + all
        /\ q.subdiv = t.subdiv + taken
    BY <1>4, <2>2
  <2>d. q.implicitBt = t.implicitBt + asked
    BY <2>1, <2>2
  <2>e. t.qt \in Int /\ t.mt \in Int /\ t.implicitBt \in Int /\ t.bt \in Int /\ t.subdiv \in Int
    BY <2>3
  <2> HIDE DEF one, many, all, asked
  <2>4. r.qt = t.qt /\ r.mt = t.mt
    BY ONLY <2>a, <2>b, <2>c, <2>e
  <2>5. r.bt = t.bt /\ r.subdiv = t.subdiv
    BY ONLY <1>6, <2>a, <2>b, <2>c, <2>e
  <2>6. r.implicitBt = t.implicitBt
    BY ONLY <2>a, <2>b, <2>d, <2>e
  <2> QED BY <2>3, <2>4, <2>5, <2>6, Zenon DEF CountsOf
<1>17. /\ SameKind(r, q) /\ r.levels = s
       /\ r.qgPos = IF d.qg THEN Pos(Cur(d)) ELSE q.qgPos
  BY <1>8, <1>10, <1>15, Zenon DEF SameKind
<1>18. ExitPath(r, q)
  BY <1>15, <1>16, <1>17, Zenon DEF ExitPath, l, s, d
<1> QED BY <1>18 DEF r

-----------------------------------------------------------------------------
(* The counters and the group position of a partitioner are those of its path. *)
PathInv(q) ==
    /\ q.levels # <<>> /\ Sound(q.levels)
    /\ CountsOf(q) = Tally(q.levels)
    /\ GroupedAt(q.levels, q.qgPos)

\* Of a path and its last level.
PathEnd(q, s, l) ==
    /\ Sound(s) /\ LevelSound(l) /\ (l.split = "ctu" <=> s = <<>>)
    /\ Tally(s) \in Tallies /\ CountsOf(q) = Plus(Tally(s), l, Forced(s))
    /\ l.qg => AllGroups(s) /\ q.qgPos = Pos(Cur(l))
    /\ ~l.qg => s # <<>> /\ GroupedAt(s, q.qgPos)
    /\ 1 \notin MultiAt(s)

LEMMA NotMulti == \A l : l.split = "ctu" => l.split \notin Btt
BY SplitKinds

LEMMA PathEnds ==
    ASSUME NEW q \in Partition, PathInv(q)
    PROVE  PathOf(q, Front(q.levels), Level(q)) /\ PathEnd(q, Front(q.levels), Level(q))
<1> DEFINE s == Front(q.levels)
           l == Level(q)
<1>1. PathOf(q, s, l)
  BY PathExists DEF PathInv
<1>2. s \in Seq(PathLevel) /\ l \in PathLevel /\ q.levels = Append(s, l)
  BY <1>1 DEF PathOf
<1> HIDE DEF s, l
<1>3. Sound(s) /\ LevelSound(l) /\ (l.split = "ctu" <=> s = <<>>)
  BY <1>2, SoundPush DEF PathInv
<1>4. 1 \notin MultiAt(s)
  BY <1>2, <1>3, SoundMulti
<1>5. Tally(s) \in Tallies
  BY <1>2, <1>4, TallyType
<1>6. CountsOf(q) = Plus(Tally(s), l, Forced(s))
  <2>1. TalliedWith(s, l)
    BY <1>2, <1>3, <1>4, NotMulti, TallyAppend
  <2> QED BY <1>2, <2>1 DEF TalliedWith, PathInv
<1>7. GroupedAt(Append(s, l), q.qgPos)
  BY <1>2 DEF PathInv
<1>8. /\ l.qg => AllGroups(s) /\ q.qgPos = Pos(Cur(l))
      /\ ~l.qg => s # <<>> /\ GroupedAt(s, q.qgPos)
  BY <1>2, <1>7, GroupPop
<1> QED BY <1>1, <1>3, <1>4, <1>5, <1>6, <1>8, Zenon DEF PathEnd, s, l

\* And back.
LEMMA PathMade ==
    ASSUME NEW q \in Partition, NEW s \in Seq(PathLevel), NEW l \in PathLevel,
           q.levels = Append(s, l), PathEnd(q, s, l)
    PROVE  PathInv(q) /\ Level(q) = l
<1>1. q.levels # <<>> /\ Level(q) = l
  BY Appended DEF Level
<1>2. Sound(q.levels)
  BY SoundPush DEF PathEnd
<1>3. CountsOf(q) = Tally(q.levels)
  <2>1. TalliedWith(s, l)
    BY NotMulti, TallyAppend DEF PathEnd
  <2> QED BY <2>1 DEF TalliedWith, PathEnd
<1>4. GroupedAt(q.levels, q.qgPos)
  <2>1. CASE l.qg
    BY <2>1, GroupPush DEF PathEnd
  <2>2. CASE ~l.qg
    BY <2>2, GroupPush DEF PathEnd
  <2> QED BY <2>1, <2>2
<1> QED BY <1>1, <1>2, <1>3, <1>4 DEF PathInv

\* What is counted does not depend on what a level was asked.
LEMMA AskedEnd ==
    ASSUME NEW c, NEW q \in Partition, PathInv(q)
    PROVE  /\ Asked(c, q) \in PathLevel /\ LevelSound(Asked(c, q))
           /\ Cur(Asked(c, q)) = Cur(Level(q))
           /\ \A t, forced : Plus(t, Asked(c, q), forced) = Plus(t, Level(q), forced)
<1>1. Level(q) \in PathLevel /\ LevelSound(Level(q))
  BY PathEnds, Zenon DEF PathOf, PathEnd
<1> DEFINE a == Asked(c, q)
<1>2. /\ a \in PathLevel /\ a.split = Level(q).split /\ a.parts = Level(q).parts
      /\ a.idx = Level(q).idx
  BY <1>1, AskedSound
<1> HIDE DEF a
<1>3. LevelSound(a) /\ Cur(a) = Cur(Level(q)) /\ TakenBy(a) = TakenBy(Level(q))
  BY <1>1, <1>2, Zenon DEF LevelSound, Cur, TakenBy
<1>4. \A t, forced : Plus(t, a, forced) = Plus(t, Level(q), forced)
  BY <1>2, <1>3, Zenon DEF Plus
<1> QED BY <1>2, <1>3, <1>4 DEF a

CheckedKeeps(r, q) ==
    /\ r \in Partition /\ SameKind(r, q) /\ PathInv(r)
    /\ Len(r.levels) = Len(q.levels) /\ r.qgPos = q.qgPos
    /\ (Level(r).qg <=> Level(q).qg) /\ currArea(r) = currArea(q)

LEMMA CheckedKept ==
    ASSUME NEW c, NEW q \in Partition, PathInv(q)
    PROVE  CheckedKeeps(Checked(c, q), q)
<1> DEFINE s == Front(q.levels)
           l == Level(q)
           a == Asked(c, q)
           r == Checked(c, q)
<1>1. PathOf(q, s, l) /\ PathEnd(q, s, l)
  BY PathEnds
<1>2. /\ a \in PathLevel /\ LevelSound(a) /\ a.split = l.split /\ a.qg = l.qg /\ Cur(a) = Cur(l)
      /\ \A t, forced : Plus(t, a, forced) = Plus(t, l, forced)
  BY <1>1, AskedEnd, AskedSound DEF PathOf
<1>3. /\ r \in Partition /\ SameKind(r, q) /\ r.levels = Append(s, a)
      /\ r.qgPos = q.qgPos /\ CountsOf(r) = CountsOf(q)
  BY CheckedFields DEF PathInv
<1>4. s \in Seq(PathLevel) /\ l \in PathLevel /\ q.levels = Append(s, l)
  BY <1>1, Zenon DEF PathOf
<1>7. currArea(q) = Cur(l) /\ currArea(r) = Cur(Level(r))
  BY Zenon DEF currArea, Cur
<1> HIDE DEF s, l, a, r
<1>5. PathEnd(r, s, a)
  BY <1>1, <1>2, <1>3, Zenon DEF PathEnd
<1>6. PathInv(r) /\ Level(r) = a
  BY <1>2, <1>3, <1>4, <1>5, PathMade
<1>8. Len(r.levels) = Len(q.levels)
  BY <1>2, <1>3, <1>4, Appended
<1>9. CheckedKeeps(r, q)
  BY <1>2, <1>3, <1>6, <1>7, <1>8, Zenon DEF CheckedKeeps, l
<1> QED BY <1>9 DEF r

DividedKeeps(r, q) ==
    /\ r \in Partition /\ SameKind(r, q) /\ PathInv(r)
    /\ Len(r.levels) = Len(q.levels) + 1 /\ r.qgPos = q.qgPos
    /\ (Level(r).qg => Level(q).qg) /\ Pos(currArea(r)) = Pos(currArea(q))

LEMMA DividedKept ==
    ASSUME NEW c, NEW q \in Partition, PathInv(q), NEW split \in Splits \ {"no"},
           split = "qt" => q.bt = 0 /\ q.mt = 0,
           split \in Btt => (getImplicitSplit(c, q) = split <=> getImplicitSplit(c, q) # "no")
    PROVE  DividedKeeps(splitCurrArea(c, q, split), q)
<1> DEFINE s == Front(q.levels)
           l == Level(q)
           a == Asked(c, q)
           u == Append(s, a)
           k == Child(c, q, split)
           r == splitCurrArea(c, q, split)
           f == getImplicitSplit(c, q) = split
<1>1. PathOf(q, s, l) /\ PathEnd(q, s, l)
  BY PathEnds
<1>2. /\ a \in PathLevel /\ LevelSound(a) /\ a.split = l.split /\ a.qg = l.qg /\ Cur(a) = Cur(l)
      /\ \A t, forced : Plus(t, a, forced) = Plus(t, l, forced)
      /\ a.implicit = getImplicitSplit(c, q)
  BY <1>1, AskedEnd, AskedSound DEF PathOf
<1>3. s \in Seq(PathLevel) /\ l \in PathLevel /\ q.levels = Append(s, l)
  BY <1>1, Zenon DEF PathOf
<1>4. /\ k \in PathLevel /\ LevelSound(k) /\ k.split = split
      /\ Pos(Cur(k)) = Pos(Cur(l)) /\ (k.qg => l.qg)
  BY <1>1, <1>3, ChildSound DEF PathEnd
<1>5. DividedPath(r, c, q, split)
  BY <1>1, DividesPath DEF PathEnd, PathInv
<1>6. /\ r \in Partition /\ SameKind(r, q) /\ r.levels = Append(u, k)
      /\ r.qgPos = (IF k.qg THEN Pos(Cur(k)) ELSE q.qgPos)
      /\ CountsOf(r) = Plus(CountsOf(q), k, f)
  BY <1>5, Zenon DEF DividedPath
<1>7. currArea(q) = Cur(l) /\ currArea(r) = Cur(Level(r))
  BY Zenon DEF currArea, Cur
<1>8. f <=> getImplicitSplit(c, q) = split
  OBVIOUS
<1> HIDE DEF s, l, a, k, r, f
<1>9. u \in Seq(PathLevel) /\ Last(u) = a /\ u # <<>> /\ Len(u) = Len(q.levels) /\ Len(u) \in Nat
  BY <1>2, <1>3, Appended
<1>10. Sound(u)
  BY <1>1, <1>2, <1>3, SoundPush DEF PathEnd
<1>11. 1 \notin MultiAt(u)
  BY <1>9, <1>10, SoundMulti
<1>12. Tally(u) \in Tallies /\ Tally(u) = CountsOf(q)
  <2>1. TalliedWith(s, a)
    BY <1>1, <1>2, <1>3, NotMulti, TallyAppend DEF PathEnd
  <2> QED BY <1>1, <1>2, <1>9, <1>11, <2>1, TallyType DEF TalliedWith, PathEnd
<1>13. Plus(CountsOf(q), k, f) = Plus(Tally(u), k, Forced(u))
  <2>1. split \in Btt => (f <=> Forced(u))
    BY <1>2, <1>8, <1>9 DEF Forced
  <2> QED BY <1>4, <1>12, <2>1 DEF Plus
<1>14. r.qgPos = q.qgPos
  BY <1>1, <1>4, <1>6, Zenon DEF PathEnd
<1>15. /\ k.qg => AllGroups(u)
       /\ ~k.qg => GroupedAt(u, q.qgPos)
  <2>1. l.qg => AllGroups(u) /\ GroupedAt(u, q.qgPos)
    BY <1>1, <1>2, <1>3, AllGroupsPush, GroupPush DEF PathEnd
  <2>2. ~l.qg => GroupedAt(u, q.qgPos)
    BY <1>1, <1>2, <1>3, GroupPush DEF PathEnd
  <2> QED BY <1>4, <2>1, <2>2
<1>16. k.split # "ctu"
  BY <1>4, SplitKinds
<1> HIDE DEF u
<1>17. PathEnd(r, u, k)
  BY <1>4, <1>6, <1>9, <1>10, <1>11, <1>12, <1>13, <1>14, <1>15, <1>16, Zenon DEF PathEnd
<1>18. PathInv(r) /\ Level(r) = k
  BY <1>4, <1>6, <1>9, <1>17, PathMade
<1>19. Len(r.levels) = Len(q.levels) + 1
  BY <1>4, <1>6, <1>9, Appended
<1>20. DividedKeeps(r, q)
  BY <1>4, <1>6, <1>7, <1>14, <1>18, <1>19, Zenon DEF DividedKeeps, l
<1> QED BY <1>20 DEF r

NextKeeps(r, q) ==
    /\ r \in Partition /\ SameKind(r, q) /\ PathInv(r)
    /\ Len(r.levels) = Len(q.levels) /\ (~Level(q).qg => r.qgPos = q.qgPos)
    /\ (Level(r).qg <=> Level(q).qg)

LEMMA NextKept ==
    ASSUME NEW q \in Partition, PathInv(q), hasNextPart(q)
    PROVE  NextKeeps(nextPart(q), q)
<1> DEFINE s == Front(q.levels)
           l == Level(q)
           k == Further(l)
           r == nextPart(q)
<1>1. PathOf(q, s, l) /\ PathEnd(q, s, l)
  BY PathEnds
<1>2. s \in Seq(PathLevel) /\ l \in PathLevel /\ q.levels = Append(s, l) /\ LevelSound(l)
  BY <1>1, Zenon DEF PathOf, PathEnd
<1>3. l.idx + 1 < Len(l.parts)
  BY DEF hasNextPart
<1>4. k \in PathLevel /\ LevelSound(k) /\ k.split = l.split /\ k.qg = l.qg
  BY <1>2, <1>3, FurtherSound
<1>5. NextPath(r, q)
  BY <1>2, NextsPath DEF PathInv
<1>6. /\ r \in Partition /\ SameKind(r, q) /\ r.levels = Append(s, k)
      /\ r.qgPos = (IF l.qg THEN Pos(Cur(k)) ELSE q.qgPos)
      /\ \A t \in Tallies, forced \in BOOLEAN :
            CountsOf(q) = Plus(t, l, forced) => CountsOf(r) = Plus(t, k, forced)
  BY <1>5, Zenon DEF NextPath
<1> HIDE DEF s, l, k, r
<1>7. CountsOf(r) = Plus(Tally(s), k, Forced(s))
  <2>1. Forced(s) \in BOOLEAN
    BY DEF Forced
  <2> QED BY <1>1, <1>6, <2>1, Zenon DEF PathEnd
<1>8. PathEnd(r, s, k)
  BY <1>1, <1>4, <1>6, <1>7, Zenon DEF PathEnd
<1>9. PathInv(r) /\ Level(r) = k
  BY <1>2, <1>4, <1>6, <1>8, PathMade
<1>10. Len(r.levels) = Len(q.levels)
  BY <1>2, <1>4, <1>6, Appended
<1>11. NextKeeps(r, q)
  BY <1>4, <1>6, <1>9, <1>10, Zenon DEF NextKeeps, l
<1> QED BY <1>11 DEF r

ExitKeeps(r, q) ==
    /\ r \in Partition /\ SameKind(r, q) /\ PathInv(r)
    /\ Len(r.levels) + 1 = Len(q.levels)
    /\ (~Level(r).qg => ~Level(q).qg /\ r.qgPos = q.qgPos)

LEMMA ExitKept ==
    ASSUME NEW q \in Partition, PathInv(q), ~hasNextPart(q), Len(q.levels) # 1
    PROVE  ExitKeeps(exitCurrSplit(q), q)
<1> DEFINE s == Front(q.levels)
           l == Level(q)
           d == Last(s)
           u == Front(s)
           r == exitCurrSplit(q)
<1>1. PathOf(q, s, l) /\ PathEnd(q, s, l)
  BY PathEnds
<1>2. s \in Seq(PathLevel) /\ l \in PathLevel /\ q.levels = Append(s, l) /\ LevelSound(l)
  BY <1>1, Zenon DEF PathOf, PathEnd
<1>3. s # <<>>
  <2>1. Len(q.levels) = Len(s) + 1 /\ Len(s) \in Nat
    BY <1>2, Appended
  <2> QED BY <2>1
<1>4. d \in PathLevel /\ u \in Seq(PathLevel) /\ s = Append(u, d)
  BY <1>2, <1>3, LastOf
<1>5. Sound(s) /\ l.split # "ctu"
  BY <1>1, <1>3, Zenon DEF PathEnd
<1> HIDE DEF s, l, u, d, r
<1>6. Sound(u) /\ LevelSound(d) /\ (d.split = "ctu" <=> u = <<>>)
  BY <1>4, <1>5, SoundPush
<1>7. ExitPath(r, q)
  BY <1>2, <1>3, <1>5, <1>6, ExitsPath DEF PathInv, r, s, l, d
<1>8. /\ r \in Partition /\ SameKind(r, q) /\ r.levels = s
      /\ r.qgPos = (IF d.qg THEN Pos(Cur(d)) ELSE q.qgPos)
      /\ CountsOf(r) = Tally(s)
  BY <1>1, <1>7, Zenon DEF ExitPath, PathEnd, s, l, d
<1>9. Level(r) = d
  BY <1>8 DEF Level, d
<1>10. /\ d.qg => AllGroups(u) /\ GroupedAt(s, r.qgPos)
       /\ ~d.qg => ~l.qg /\ GroupedAt(s, q.qgPos)
  <2>1. CASE l.qg
    <3>1. AllGroups(s)
      BY <1>1, <2>1, Zenon DEF PathEnd
    <3>2. AllGroups(u) /\ d.qg
      BY <1>4, <3>1, AllGroupsPush
    <3>3. GroupedAt(s, Pos(Cur(d)))
      BY <1>4, <3>2, GroupPush
    <3> QED BY <1>8, <3>2, <3>3
  <2>2. CASE ~l.qg
    <3>1. GroupedAt(Append(u, d), q.qgPos)
      BY <1>1, <1>4, <2>2, Zenon DEF PathEnd
    <3>2. d.qg => AllGroups(u) /\ q.qgPos = Pos(Cur(d))
      BY <1>4, <3>1, GroupPop
    <3> QED BY <1>4, <1>8, <2>2, <3>1, <3>2
  <2> QED BY <2>1, <2>2
<1>11. GroupedAt(s, r.qgPos)
  BY <1>8, <1>10
<1>12. PathInv(r)
  BY <1>3, <1>5, <1>8, <1>11, Zenon DEF PathInv
<1>13. Len(r.levels) + 1 = Len(q.levels)
  BY <1>2, <1>8, Appended
<1>14. ExitKeeps(r, q)
  BY <1>8, <1>9, <1>10, <1>12, <1>13, Zenon DEF ExitKeeps, l
<1> QED BY <1>14 DEF r

LEMMA CtuPath ==
    ASSUME NEW c, c.ctu \in Nat, NEW chType \in {"luma", "chroma"}
    PROVE  /\ initCtu(c, chType) \in Partition /\ PathInv(initCtu(c, chType))
           /\ initCtu(c, chType).chType = chType /\ initCtu(c, chType).treeType = "D"
           /\ Len(initCtu(c, chType).levels) = 1 /\ Level(initCtu(c, chType)).qg
<1> DEFINE a == [x |-> 0, y |-> 0, w |-> c.ctu, h |-> c.ctu]
           l == PartLevel("ctu", <<a>>, TRUE)
           q == initCtu(c, chType)
<1>1. a \in Areas
  BY DEF Areas
<1>2. q = [levels |-> <<l>>, chType |-> chType, treeType |-> "D", modeType |-> "all",
           qt |-> 0, bt |-> 0, mt |-> 0, implicitBt |-> 0, subdiv |-> 0, qgPos |-> <<0, 0>>]
  BY Zenon DEF initCtu
<1>3. Pos(a) = <<0, 0>>
  BY DEF Pos
<1> HIDE DEF a, q
<1>4. /\ l \in PathLevel /\ l.split = "ctu" /\ l.parts = <<a>> /\ l.idx = 0 /\ l.qg = TRUE
  BY <1>1 DEF l, PartLevel, PathLevel
<1> HIDE DEF l
<1>5. LevelSound(l) /\ Cur(l) = a
  BY <1>1, <1>4, SplitKinds DEF LevelSound, Cur
<1>6. q \in Partition
  <2>1. <<0, 0>> \in Nat \X Nat /\ 0 \in Int
    OBVIOUS
  <2>2. <<l>> \in Seq(PathLevel)
    BY <1>4
  <2> QED BY <1>2, <2>1, <2>2 DEF Partition
<1>7. <<>> \in Seq(PathLevel) /\ q.levels = Append(<<>>, l) /\ Len(q.levels) = 1
  BY <1>2
<1>8. Tally(<<>>) = [qt |-> 0, mt |-> 0, implicitBt |-> 0, bt |-> 0, subdiv |-> 0]
  <2>1. QtAt(<<>>) = {} /\ MultiAt(<<>>) = {} /\ ImplicitAt(<<>>) = {}
    BY DEF QtAt, MultiAt, ImplicitAt
  <2>2. BtTaken(<<>>) = <<>> /\ AllTaken(<<>>) = <<>>
    BY DEF BtTaken, AllTaken
  <2>3. Total(<<>>) = 0
    <3>1. <<>> \in Seq(Int) /\ Len(<<>>) = 0
      OBVIOUS
    <3>2. \A f \in Seq(Int) : Len(f) = 0 => Total(f) = 0
      BY TotalSteps
    <3> QED BY <3>1, <3>2
  <2>4. Cardinality({}) = 0
    BY FS_EmptySet
  <2> QED BY <2>1, <2>2, <2>3, <2>4, Zenon DEF Tally
<1>9. PathEnd(q, <<>>, l)
  <2>1. Sound(<<>>) /\ AllGroups(<<>>) /\ 1 \notin MultiAt(<<>>)
    BY DEF Sound, AllGroups, MultiAt
  <2>2. q.qgPos = Pos(Cur(l))
    BY <1>2, <1>3, <1>5
  <2>3. CountsOf(q) = Plus(Tally(<<>>), l, Forced(<<>>))
    <3>1. CountsOf(q) = [qt |-> 0, mt |-> 0, implicitBt |-> 0, bt |-> 0, subdiv |-> 0]
      BY <1>2 DEF CountsOf
    <3>2. TakenBy(l) = 0 /\ l.split \notin Btt /\ l.split # "qt"
      BY <1>4, SplitKinds DEF TakenBy
    <3>3. Plus(Tally(<<>>), l, Forced(<<>>)) = [qt |-> 0, mt |-> 0, implicitBt |-> 0, bt |-> 0, subdiv |-> 0]
      BY <1>8, <3>2 DEF Plus
    <3> QED BY <3>1, <3>3
  <2>4. Tally(<<>>) \in Tallies
    BY <1>8 DEF Tallies
  <2> QED BY <1>4, <1>5, <2>1, <2>2, <2>3, <2>4, Zenon DEF PathEnd
<1>10. PathInv(q) /\ Level(q) = l
  BY <1>4, <1>6, <1>7, <1>9, PathMade
<1>11. q.chType = chType /\ q.treeType = "D"
  BY <1>2
<1> QED BY <1>4, <1>6, <1>7, <1>10, <1>11 DEF q

-----------------------------------------------------------------------------
(* The calls of coding_tree, and the groups, along the walk. *)
Call == [mode : {"all", "intra", "inter"}, chromaNotSplit : BOOLEAN, both : BOOLEAN]

\* A level for every call, but under a chroma tree of its own.
LevelCount(q, k) == Len(q.levels) = Len(k) + (IF q.treeType = "C" THEN 0 ELSE 1)

\* Chroma is walked alone in a dual tree, or if it was not split.
Trees(dual, q, k) ==
    /\ q.treeType = "C" => k # <<>> /\ Last(k) # Both /\ q.chType = "chroma" /\ ~dual
    /\ ~dual /\ q.treeType # "C" => q.chType = "luma"
    /\ dual => q.treeType = "D" /\ \A i \in DOMAIN k : ~k[i].chromaNotSplit

\* The other partitioner of a CTU whose trees alternate.
Waits(dual, q, w, k) ==
    /\ \A i \in DOMAIN k : k[i] = Both <=> (w # NoPartitioner /\ i = 1)
    /\ w # NoPartitioner =>
          /\ dual /\ w \in Partition /\ PathInv(w)
          /\ Len(w.levels) = (IF k = <<>> THEN 1 ELSE 2)
          /\ w.chType # q.chType /\ w.treeType = "D"
          /\ k = <<>> => q.chType = "luma"

\* Where the QP of the group was predicted: for sure, or unless the unit to
\* predict it is still to come.
Known(q, g) == ~Level(q).qg => ~g.start /\ g.first = q.qgPos
Begun(q, g) ==
    ~Level(q).qg => IF g.start THEN Pos(currArea(q)) = q.qgPos ELSE g.first = q.qgPos
Predicted(ph, q, w, g) ==
    /\ q.chType = "luma" /\ ph = "tree" => Begun(q, g)
    /\ q.chType = "luma" /\ ph = "unit" => ~g.start /\ g.first = q.qgPos
    /\ q.chType = "luma" /\ ph = "return" => Known(q, g)
    /\ q.treeType = "C" => Known(q, g)
    /\ w # NoPartitioner /\ w.chType = "luma" => Known(w, g)

Tree(c, ph, q, w, k, g) ==
    /\ c.ctu \in Nat
    /\ q \in Partition /\ PathInv(q) /\ k \in Seq(Call)
    /\ LevelCount(q, k) /\ Trees(isDualITree(c), q, k)
    /\ Waits(isDualITree(c), q, w, k)
    /\ Predicted(ph, q, w, g)
TreeInv == Tree(cs, phase, p, waiting, calls, qg)

LEMMA NobodyWaits == NoPartitioner \notin Partition
<1>1. DOMAIN NoPartitioner = {}
  BY DEF NoPartitioner
<1>2. ASSUME NEW q \in Partition PROVE "levels" \in DOMAIN q
  BY DEF Partition
<1> QED BY <1>1, <1>2

\* A partitioner that is at the same place.
SamePlace(r, q) == r.levels = q.levels /\ CountsOf(r) = CountsOf(q) /\ r.qgPos = q.qgPos

LEMMA PlaceKept ==
    ASSUME NEW r, NEW q, SamePlace(r, q)
    PROVE  /\ PathInv(q) => PathInv(r)
           /\ Level(r) = Level(q) /\ currArea(r) = currArea(q)
           /\ \A g : Known(q, g) => Known(r, g)
           /\ \A c : r.chType = q.chType => getImplicitSplit(c, r) = getImplicitSplit(c, q)
<1>1. /\ r.levels = q.levels /\ CountsOf(r) = CountsOf(q) /\ r.qgPos = q.qgPos
      /\ r.mt = q.mt /\ r.bt = q.bt /\ r.implicitBt = q.implicitBt
  BY DEF SamePlace, CountsOf
<1>2. PathInv(q) => PathInv(r)
  BY <1>1, Zenon DEF PathInv
<1>3. Level(r) = Level(q) /\ currArea(r) = currArea(q)
  BY <1>1, Zenon DEF Level, currArea
<1>4. \A g : Known(q, g) => Known(r, g)
  BY <1>1, <1>3, Zenon DEF Known
<1>5. ASSUME NEW c, r.chType = q.chType PROVE getImplicitSplit(c, r) = getImplicitSplit(c, q)
  <2>1. Shallow(c, r) = Shallow(c, q)
    BY <1>1, <1>5, Zenon DEF Shallow
  <2>2. ForcedSplit(c, r) = ForcedSplit(c, q)
    BY <1>1, <1>3, <1>5, <2>1, Zenon DEF ForcedSplit
  <2> QED BY <1>3, <2>2, Zenon DEF getImplicitSplit
<1> QED BY <1>2, <1>3, <1>4, <1>5

Retype(q, ch, tree, mode) == [q EXCEPT !.chType = ch, !.treeType = tree, !.modeType = mode]

LEMMA Retyped ==
    ASSUME NEW q \in Partition, NEW ch \in {"luma", "chroma"}, NEW tree \in {"D", "L", "C"},
           NEW mode \in {"all", "intra", "inter"}
    PROVE  /\ Retype(q, ch, tree, mode) \in Partition /\ SamePlace(Retype(q, ch, tree, mode), q)
           /\ Retype(q, ch, tree, mode).chType = ch /\ Retype(q, ch, tree, mode).treeType = tree
           /\ Retype(q, ch, tree, mode).modeType = mode
<1> DEFINE r == Retype(q, ch, tree, mode)
<1>0. r = [q EXCEPT !.chType = ch, !.treeType = tree, !.modeType = mode]
  BY Zenon DEF Retype
<1> HIDE DEF r
<1>1. r \in Partition
  BY <1>0 DEF Partition
<1>2. SamePlace(r, q) /\ r.chType = ch /\ r.treeType = tree /\ r.modeType = mode
  BY <1>0 DEF Partition, SamePlace, CountsOf
<1> QED BY <1>1, <1>2 DEF r

\* A split in two or three that is allowed where one is forced is the forced one.
LEMMA ForcedIsTaken ==
    ASSUME NEW c, NEW q, NEW split \in canSplit(c, q), split \in Btt
    PROVE  getImplicitSplit(c, q) = split <=> getImplicitSplit(c, q) # "no"
<1>1. split # "no" /\ split # "qt"
  BY SplitKinds
<1>2. q.treeType # "C"
  BY <1>1 DEF canSplit
<1>3. CASE getImplicitSplit(c, q) # "no"
  <2>1. split \in ImplicitChoice(c, q, getImplicitSplit(c, q))
    BY <1>2, <1>3, Zenon DEF canSplit
  <2>2. split = getImplicitSplit(c, q)
    BY <1>1, <2>1 DEF ImplicitChoice
  <2> QED BY <1>3, <2>2
<1>4. CASE getImplicitSplit(c, q) = "no"
  BY <1>1, <1>4
<1> QED BY <1>3, <1>4

LEMMA CtuIsRooted == ASSUME NEW q \in Partition, PathInv(q), Level(q).qg PROVE q.qgPos = Pos(currArea(q))
BY PathEnds, Zenon DEF PathEnd, currArea, Cur

\* A group is carried to the first part of a block.
LEMMA BegunDivided ==
    ASSUME NEW q \in Partition, PathInv(q), NEW r, DividedKeeps(r, q), NEW g, NEW h,
           Begun(q, g), h = IF Level(q).qg THEN [start |-> TRUE, first |-> Nowhere] ELSE g
    PROVE  Begun(r, h)
<1>1. /\ Level(r).qg => Level(q).qg
      /\ r.qgPos = q.qgPos /\ Pos(currArea(r)) = Pos(currArea(q))
  BY Zenon DEF DividedKeeps
<1>2. CASE Level(q).qg
  <2>1. h.start /\ Pos(currArea(r)) = r.qgPos
    BY <1>1, <1>2, CtuIsRooted
  <2> QED BY <2>1, Zenon DEF Begun
<1>3. CASE ~Level(q).qg
  <2>1. h = g
    BY <1>3
  <2> QED BY <1>1, <1>3, <2>1, Zenon DEF Begun
<1> QED BY <1>2, <1>3

LEMMA KnownBegun == \A q, g : Known(q, g) => Begun(q, g)
BY DEF Known, Begun

\* The calls after one more, and after one less.
LEMMA CallsPush ==
    ASSUME NEW k \in Seq(Call), NEW x \in Call
    PROVE  /\ Append(k, x) \in Seq(Call) /\ Len(Append(k, x)) = Len(k) + 1 /\ Append(k, x) # <<>>
           /\ \A i \in DOMAIN Append(k, x) :
                 (i \in DOMAIN k /\ Append(k, x)[i] = k[i]) \/ (i = Len(k) + 1 /\ Append(k, x)[i] = x)
           /\ Len(k) \in Nat /\ (Len(k) + 1 = 1 => k = <<>>)
<1>1. /\ Append(k, x) \in Seq(Call) /\ Len(Append(k, x)) = Len(k) + 1 /\ Append(k, x) # <<>>
      /\ DOMAIN k = 1..Len(k) /\ DOMAIN Append(k, x) = 1..(Len(k) + 1) /\ Len(k) \in Nat
      /\ Append(k, x)[Len(k) + 1] = x /\ \A i \in 1..Len(k) : Append(k, x)[i] = k[i]
  BY Appended
<1>2. \A n \in Nat : \A i \in 1..(n + 1) : i \in 1..n \/ i = n + 1
  OBVIOUS
<1>3. Len(k) + 1 = 1 => k = <<>>
  BY <1>1, EmptySeq
<1> QED BY <1>1, <1>2, <1>3, Zenon

LEMMA CallsPop ==
    ASSUME NEW k \in Seq(Call), k # <<>>
    PROVE  /\ Front(k) \in Seq(Call) /\ Len(Front(k)) + 1 = Len(k)
           /\ \A i \in DOMAIN Front(k) : i \in DOMAIN k /\ Front(k)[i] = k[i]
           /\ Last(k) \in Call /\ (Front(k) = <<>> => Last(k) = k[1] /\ 1 \in DOMAIN k)
           /\ Len(k) \in Nat /\ \E i \in DOMAIN k : Last(k) = k[i]
<1>1. /\ Len(k) \in Nat \ {0} /\ Last(k) = k[Len(k)] /\ Last(k) \in Call
      /\ Front(k) \in Seq(Call) /\ Len(Front(k)) = Len(k) - 1
      /\ \A i \in 1..(Len(k) - 1) : Front(k)[i] = k[i]
  BY LastOf
<1>2. DOMAIN k = 1..Len(k) /\ DOMAIN Front(k) = 1..(Len(k) - 1)
  BY <1>1
<1>3. \A n \in Nat \ {0} : (n - 1) + 1 = n /\ n \in 1..n /\ 1 \in 1..n /\ \A i \in 1..(n - 1) : i \in 1..n
  OBVIOUS
<1>4. Front(k) = <<>> => Len(k) = 1
  BY <1>1
<1> QED BY <1>1, <1>2, <1>3, <1>4, Zenon

LEMMA BothSound == Both \in Call /\ Both.chromaNotSplit = FALSE
BY DEF Both, Call

LEMMA TreeParts ==
    ASSUME TreeInv
    PROVE  /\ cs.ctu \in Nat /\ p \in Partition /\ PathInv(p) /\ calls \in Seq(Call)
           /\ LevelCount(p, calls) /\ Trees(isDualITree(cs), p, calls)
           /\ Waits(isDualITree(cs), p, waiting, calls) /\ Predicted(phase, p, waiting, qg)
           /\ p.chType \in {"luma", "chroma"} /\ p.treeType \in {"D", "L", "C"}
           /\ p.modeType \in {"all", "intra", "inter"}
<1>1. /\ cs.ctu \in Nat /\ p \in Partition /\ PathInv(p) /\ calls \in Seq(Call)
      /\ LevelCount(p, calls) /\ Trees(isDualITree(cs), p, calls)
      /\ Waits(isDualITree(cs), p, waiting, calls) /\ Predicted(phase, p, waiting, qg)
  BY Zenon DEF TreeInv, Tree
<1> QED BY <1>1 DEF Partition

LEMMA TreeMade ==
    ASSUME UNCHANGED cs, Tree(cs, phase', p', waiting', calls', qg')
    PROVE  TreeInv'
BY Zenon DEF TreeInv

\* The place of the walk does not change, or all that may change is what was asked.
SameWalk(r, q) ==
    /\ r \in Partition /\ PathInv(r) /\ SameKind(r, q) /\ Len(r.levels) = Len(q.levels)
    /\ r.qgPos = q.qgPos /\ (Level(r).qg <=> Level(q).qg)

LEMMA WalkKept ==
    ASSUME TreeInv, UNCHANGED <<cs, waiting, calls>>, SameWalk(p', p),
           Predicted(phase', p', waiting, qg')
    PROVE  TreeInv'
<1>1. /\ cs.ctu \in Nat /\ LevelCount(p, calls) /\ Trees(isDualITree(cs), p, calls)
      /\ Waits(isDualITree(cs), p, waiting, calls) /\ calls \in Seq(Call)
  BY TreeParts
<1>2. /\ p' \in Partition /\ PathInv(p') /\ SameKind(p', p) /\ Len((p').levels) = Len(p.levels)
  BY Zenon DEF SameWalk
<1>3. LevelCount(p', calls) /\ Trees(isDualITree(cs), p', calls)
  BY <1>1, <1>2, Zenon DEF LevelCount, Trees, SameKind
<1>4. Waits(isDualITree(cs), p', waiting, calls)
  BY <1>1, <1>2, Zenon DEF Waits, SameKind
<1>5. Tree(cs, phase', p', waiting, calls, qg')
  BY <1>1, <1>2, <1>3, <1>4, Zenon DEF Tree
<1> QED BY <1>5, TreeMade

LEMMA StaysThere == ASSUME TreeInv PROVE SameWalk(p, p)
BY TreeParts DEF SameWalk, SameKind

\* What is known of a group stays known while chroma is walked.
LEMMA ChromaPredicts ==
    ASSUME TreeInv, StartOfGroup # qg
    PROVE  p.chType = "luma" /\ p.treeType # "C" /\ (waiting # NoPartitioner => waiting.chType # "luma")
<1>1. p.chType = "luma"
  BY DEF StartOfGroup, GroupStarts
<1>2. p.treeType # "C"
  BY <1>1, TreeParts DEF Trees
<1> QED BY <1>1, <1>2, TreeParts DEF Waits

LEMMA FailureStep ==
    ASSUME TreeInv, UNCHANGED <<cs, p, waiting, calls>>, phase' = "failed",
           qg' = qg \/ qg' = StartOfGroup
    PROVE  TreeInv'
<1>1. Predicted(phase, p, waiting, qg)
  BY TreeParts
<1>2. Predicted(phase', p', waiting, qg')
  <2>1. p' = p /\ phase' # "tree" /\ phase' # "unit" /\ phase' # "return"
    OBVIOUS
  <2>2. CASE qg' = qg
    BY <1>1, <2>1, <2>2, Zenon DEF Predicted
  <2>3. CASE qg' # qg
    <3>1. p.treeType # "C" /\ (waiting # NoPartitioner => waiting.chType # "luma")
      BY <2>3, ChromaPredicts
    <3> QED BY <2>1, <3>1, Zenon DEF Predicted
  <2> QED BY <2>2, <2>3
<1>3. SameWalk(p', p)
  BY StaysThere
<1> QED BY <1>2, <1>3, WalkKept

LEMMA SplitBothStep == ASSUME TreeInv, SplitBoth PROVE TreeInv'
<1>1. /\ waiting # NoPartitioner /\ calls = <<>> /\ phase = "tree" /\ qg' = StartOfGroup
      /\ UNCHANGED cs
  BY DEF SplitBoth
<1>2. /\ isDualITree(cs) /\ waiting \in Partition /\ PathInv(waiting)
      /\ Len(waiting.levels) = 1 /\ waiting.chType # p.chType /\ waiting.treeType = "D"
      /\ p.chType = "luma"
  BY <1>1, TreeParts DEF Waits
<1>3. CASE MaySplit(cs, p, "qt") /\ MaySplit(cs, waiting, "qt")
  <2> DEFINE r == splitCurrArea(cs, p, "qt")
             w == splitCurrArea(cs, waiting, "qt")
  <2>1. p' = r /\ waiting' = w /\ calls' = <<Both>> /\ phase' = "tree"
    BY <1>1, <1>3 DEF SplitBoth
  <2>2. /\ p.bt = 0 /\ p.mt = 0 /\ waiting.bt = 0 /\ waiting.mt = 0
    BY <1>3 DEF MaySplit
  <2>3. "qt" \in Splits \ {"no"} /\ "qt" \notin Btt
    BY SplitKinds
  <2>4. DividedKeeps(r, p)
    BY <2>2, <2>3, TreeParts, DividedKept
  <2>5. DividedKeeps(w, waiting)
    BY <1>2, <2>2, <2>3, DividedKept
  <2> HIDE DEF r, w
  <2>6. /\ r \in Partition /\ PathInv(r) /\ SameKind(r, p) /\ Len(r.levels) = Len(p.levels) + 1
    BY <2>4, Zenon DEF DividedKeeps
  <2>7. /\ w \in Partition /\ PathInv(w) /\ SameKind(w, waiting) /\ Len(w.levels) = Len(waiting.levels) + 1
    BY <2>5, Zenon DEF DividedKeeps
  <2>8. p.treeType = "D" /\ r.treeType = "D" /\ r.chType = "luma" /\ w.treeType = "D" /\ w.chType # "luma"
    BY <1>2, <2>6, <2>7, TreeParts DEF Trees, SameKind
  <2>9. <<Both>> \in Seq(Call) /\ Len(<<Both>>) = 1 /\ <<Both>> # <<>> /\ DOMAIN <<Both>> = {1} /\ <<Both>>[1] = Both
    BY BothSound
  <2>10. Len(p.levels) = 1
    BY <1>1, <2>8, TreeParts DEF LevelCount
  <2>11. LevelCount(r, <<Both>>)
    BY <2>6, <2>8, <2>9, <2>10 DEF LevelCount
  <2>12. Trees(isDualITree(cs), r, <<Both>>)
    <3>1. Both.chromaNotSplit = FALSE
      BY BothSound
    <3> QED BY <1>2, <2>8, <2>9, <3>1, Zenon DEF Trees
  <2>13. w # NoPartitioner
    BY <2>7, NobodyWaits
  <2>14. Waits(isDualITree(cs), r, w, <<Both>>)
    <3>1. Len(w.levels) = 2
      BY <1>2, <2>7
    <3> QED BY <1>2, <2>7, <2>8, <2>9, <2>13, <3>1 DEF Waits
  <2>15. Begun(r, qg')
    <3>1. Begun(p, qg)
      BY <1>1, <1>2, TreeParts DEF Predicted
    <3>2. qg' = IF Level(p).qg THEN [start |-> TRUE, first |-> Nowhere] ELSE qg
      BY <1>1, <1>2 DEF StartOfGroup, GroupStarts
    <3> QED BY <2>4, <3>1, <3>2, TreeParts, BegunDivided
  <2>16. Predicted("tree", r, w, qg')
    BY <2>8, <2>15 DEF Predicted
  <2>17. Tree(cs, "tree", r, w, <<Both>>, qg')
    BY <2>6, <2>9, <2>11, <2>12, <2>14, <2>16, TreeParts, Zenon DEF Tree
  <2> QED BY <1>1, <2>1, <2>17, TreeMade
<1>4. CASE ~(MaySplit(cs, p, "qt") /\ MaySplit(cs, waiting, "qt"))
  <2>1. phase' = "failed" /\ UNCHANGED <<p, waiting, calls>>
    BY <1>4, Zenon DEF SplitBoth
  <2> QED BY <1>1, <2>1, FailureStep
<1> QED BY <1>3, <1>4

LEMMA SplitStep == ASSUME TreeInv, Split PROVE TreeInv'
<1>1. /\ phase = "tree" /\ (waiting = NoPartitioner \/ calls # <<>>) /\ qg' = StartOfGroup
      /\ UNCHANGED <<cs, waiting>>
  BY DEF Split
<1> DEFINE can == canSplit(cs, p)
<1>2. PICK choice \in can \ {"no"} :
        LET split == Sent(can, choice).split
        IN  \E mode \in Modes(split) :
            LET alone == p.modeType = "all" /\ mode = "intra"
                tree  == IF p.treeType = "D" /\ alone THEN "L" ELSE p.treeType
            IN  IF MaySplit(cs, p, split) /\ (alone => p.chType = "luma")
                THEN /\ p' = splitCurrArea(cs, [p EXCEPT !.modeType = mode,
                                                         !.treeType = tree],
                                           split)
                     /\ calls' = Append(calls, [mode |-> p.modeType,
                                                chromaNotSplit |-> alone,
                                                both |-> FALSE])
                     /\ UNCHANGED phase
                ELSE phase' = "failed" /\ UNCHANGED <<p, calls>>
  BY Zenon DEF Split
<1>3. can \in SUBSET Splits
  BY SplitsOnly
<1>4. Sent(can, choice).split = choice /\ choice \in Splits \ {"no"}
  BY <1>3, SplitRead
<1>5. PICK mode \in Modes(choice) :
            LET alone == p.modeType = "all" /\ mode = "intra"
                tree  == IF p.treeType = "D" /\ alone THEN "L" ELSE p.treeType
            IN  IF MaySplit(cs, p, choice) /\ (alone => p.chType = "luma")
                THEN /\ p' = splitCurrArea(cs, [p EXCEPT !.modeType = mode,
                                                         !.treeType = tree],
                                           choice)
                     /\ calls' = Append(calls, [mode |-> p.modeType,
                                                chromaNotSplit |-> alone,
                                                both |-> FALSE])
                     /\ UNCHANGED phase
                ELSE phase' = "failed" /\ UNCHANGED <<p, calls>>
  BY <1>2, <1>4, Zenon
<1> DEFINE alone == p.modeType = "all" /\ mode = "intra"
           tree  == IF p.treeType = "D" /\ alone THEN "L" ELSE p.treeType
           q == [p EXCEPT !.modeType = mode, !.treeType = tree]
           x == [mode |-> p.modeType, chromaNotSplit |-> alone, both |-> FALSE]
           r == splitCurrArea(cs, q, choice)
<1>6. CASE MaySplit(cs, p, choice) /\ (alone => p.chType = "luma")
  <2>1. p' = r /\ calls' = Append(calls, x) /\ phase' = "tree"
    BY <1>1, <1>5, <1>6, Zenon
  <2>2. p.treeType # "C" /\ p.treeType \in {"D", "L"} /\ tree \in {"D", "L"}
    <3>1. p.treeType # "C"
      BY <1>2 DEF canSplit
    <3> QED BY <3>1, TreeParts
  <2>3. mode \in {"all", "intra", "inter"} /\ (isDualITree(cs) => ~alone)
    <3>1. mode \in {p.modeType, "intra", "inter"} /\ (isDualITree(cs) => mode = p.modeType)
      BY DEF Modes
    <3> QED BY <3>1, TreeParts
  <2>4. x \in Call /\ x # Both /\ x.chromaNotSplit = alone
    BY TreeParts DEF Call, Both
  <2>5. q \in Partition /\ SamePlace(q, p) /\ q.chType = p.chType /\ q.treeType = tree
    <3>1. q = [p EXCEPT !.chType = p.chType, !.treeType = tree, !.modeType = mode]
      BY TreeParts DEF Partition
    <3> HIDE DEF q, tree
    <3>2. tree \in {"D", "L", "C"}
      BY <2>2
    <3>3. p \in Partition /\ p.chType \in {"luma", "chroma"}
      BY TreeParts
    <3> DEFINE ch == p.chType
    <3> HIDE DEF ch
    <3>4. q = Retype(p, ch, tree, mode) /\ ch \in {"luma", "chroma"}
      BY <3>1, <3>3 DEF ch, Retype
    <3>5. q \in Partition /\ SamePlace(q, p) /\ q.chType = ch /\ q.treeType = tree
      BY <2>3, <3>2, <3>3, <3>4, Retyped
    <3> QED BY <3>5 DEF ch
  <2> HIDE DEF q, x
  <2>6. /\ choice = "qt" => q.bt = 0 /\ q.mt = 0
        /\ choice \in Btt => (getImplicitSplit(cs, q) = choice <=> getImplicitSplit(cs, q) # "no")
    <3>1. choice = "qt" => p.bt = 0 /\ p.mt = 0
      BY <1>6 DEF MaySplit
    <3>2. choice \in Btt => (getImplicitSplit(cs, p) = choice <=> getImplicitSplit(cs, p) # "no")
      BY ForcedIsTaken
    <3>3. getImplicitSplit(cs, q) = getImplicitSplit(cs, p)
      BY <2>5, PlaceKept
    <3>4. q.bt = p.bt /\ q.mt = p.mt
      BY <2>5 DEF SamePlace, CountsOf
    <3> QED BY <3>1, <3>2, <3>3, <3>4
  <2>7. PathInv(q) /\ Level(q) = Level(p) /\ currArea(q) = currArea(p)
    BY <2>5, TreeParts, PlaceKept
  <2>8. DividedKeeps(r, q)
    BY <1>4, <2>5, <2>6, <2>7, DividedKept
  <2> HIDE DEF r, alone
  <2>9. /\ r \in Partition /\ PathInv(r) /\ Len(r.levels) = Len(p.levels) + 1
        /\ r.chType = p.chType /\ r.treeType = tree
    BY <2>5, <2>8 DEF DividedKeeps, SameKind, SamePlace
  <2> DEFINE k == Append(calls, x)
  <2>10. /\ k \in Seq(Call) /\ Len(k) = Len(calls) + 1 /\ k # <<>> /\ Len(calls) \in Nat
         /\ \A i \in DOMAIN k :
              (i \in DOMAIN calls /\ k[i] = calls[i]) \/ (i = Len(calls) + 1 /\ k[i] = x)
         /\ (Len(calls) + 1 = 1 => calls = <<>>)
    BY <2>4, TreeParts, CallsPush
  <2> HIDE DEF k
  <2>11. LevelCount(r, k)
    BY <2>2, <2>9, <2>10, TreeParts DEF LevelCount
  <2>12. Trees(isDualITree(cs), r, k)
    <3>1. tree # "C"
      BY <2>2
    <3>2. ~isDualITree(cs) => p.chType = "luma"
      BY <2>2, TreeParts DEF Trees
    <3>3. ASSUME isDualITree(cs) PROVE tree = "D" /\ \A i \in DOMAIN k : ~k[i].chromaNotSplit
      <4>1. p.treeType = "D" /\ (\A i \in DOMAIN calls : ~calls[i].chromaNotSplit) /\ ~alone
        BY <2>3, <3>3, TreeParts DEF Trees
      <4> QED BY <2>4, <2>10, <4>1
    <3> HIDE DEF tree
    <3> QED BY <2>9, <3>1, <3>2, <3>3, Zenon DEF Trees
  <2>13. Waits(isDualITree(cs), r, waiting, k)
    <3>1. Waits(isDualITree(cs), p, waiting, calls)
      BY TreeParts
    <3>2. \A i \in DOMAIN k : k[i] = Both <=> (waiting # NoPartitioner /\ i = 1)
      <4>1. TAKE i \in DOMAIN k
      <4>2. CASE i \in DOMAIN calls /\ k[i] = calls[i]
        BY <3>1, <4>2, Zenon DEF Waits
      <4>3. CASE i = Len(calls) + 1 /\ k[i] = x
        BY <1>1, <2>4, <2>10, <4>3
      <4> QED BY <2>10, <4>2, <4>3
    <3>3. ASSUME waiting # NoPartitioner
          PROVE  /\ isDualITree(cs) /\ waiting \in Partition /\ PathInv(waiting)
                 /\ Len(waiting.levels) = 2 /\ waiting.chType # p.chType /\ waiting.treeType = "D"
      BY <1>1, <3>1, <3>3, Zenon DEF Waits
    <3> QED BY <2>9, <2>10, <3>2, <3>3, Zenon DEF Waits
  <2>14. Predicted("tree", r, waiting, qg')
    <3>1. Predicted("tree", p, waiting, qg)
      BY <1>1, TreeParts
    <3>2. ASSUME p.chType = "luma" PROVE Begun(r, qg')
      <4>1. Begun(p, qg)
        BY <3>1, <3>2, Zenon DEF Predicted
      <4>2. Begun(q, qg)
        <5>1. q.qgPos = p.qgPos
          BY <2>5 DEF SamePlace
        <5> QED BY <2>7, <4>1, <5>1, Zenon DEF Begun
      <4>3. qg' = IF Level(q).qg THEN [start |-> TRUE, first |-> Nowhere] ELSE qg
        BY <1>1, <2>7, <3>2 DEF StartOfGroup, GroupStarts
      <4> QED BY <2>5, <2>7, <2>8, <4>2, <4>3, BegunDivided
    <3>3. ASSUME waiting # NoPartitioner, waiting.chType = "luma" PROVE Known(waiting, qg')
      <4>1. qg' = qg
        BY <1>1, <3>3, ChromaPredicts
      <4> QED BY <3>1, <3>3, <4>1, Zenon DEF Predicted
    <3>4. r.treeType # "C"
      BY <2>2, <2>9
    <3>5. "tree" # "unit" /\ "tree" # "return"
      OBVIOUS
    <3> QED BY <2>9, <3>2, <3>3, <3>4, <3>5, Zenon DEF Predicted
  <2>15. Tree(cs, "tree", r, waiting, k, qg')
    BY <2>9, <2>10, <2>11, <2>12, <2>13, <2>14, TreeParts, Zenon DEF Tree
  <2>16. Tree(cs, phase', p', waiting', calls', qg')
    BY <1>1, <2>1, <2>15 DEF k
  <2> QED BY <1>1, <2>16, TreeMade
<1>7. CASE ~(MaySplit(cs, p, choice) /\ (alone => p.chType = "luma"))
  <2>1. phase' = "failed" /\ UNCHANGED <<p, calls>>
    BY <1>5, <1>7, Zenon
  <2> QED BY <1>1, <2>1, FailureStep
<1> QED BY <1>6, <1>7

LEMMA DontSplitStep == ASSUME TreeInv, DontSplit PROVE TreeInv'
<1>1. /\ phase = "tree" /\ p' = Checked(cs, p) /\ UNCHANGED <<cs, waiting, calls>>
      /\ qg' = (IF StartOfGroup.start /\ ~(isDualITree(cs) /\ p.chType = "chroma")
                THEN [start |-> FALSE, first |-> Pos(currArea(p))] ELSE StartOfGroup)
      /\ phase' = (IF HasLuma THEN "unit" ELSE "failed")
  BY DEF DontSplit
<1>2. CheckedKeeps(p', p)
  BY <1>1, TreeParts, CheckedKept
<1>3. SameWalk(p', p)
  BY <1>2, Zenon DEF SameWalk, CheckedKeeps
<1>4. /\ (p').chType = p.chType /\ (p').treeType = p.treeType /\ (p').qgPos = p.qgPos
      /\ (Level(p').qg <=> Level(p).qg)
  BY <1>3, Zenon DEF SameWalk, SameKind
<1>5. Predicted("tree", p, waiting, qg)
  BY <1>1, TreeParts
<1>6. CASE p.chType = "luma"
  <2>1. ~qg'.start /\ qg'.first = p.qgPos
    <3>1. Begun(p, qg)
      BY <1>5, <1>6, Zenon DEF Predicted
    <3>2. CASE Level(p).qg
      <4>1. p.qgPos = Pos(currArea(p))
        BY <3>2, TreeParts, CtuIsRooted
      <4>2. qg' = [start |-> FALSE, first |-> Pos(currArea(p))]
        BY <1>1, <1>6, <3>2 DEF StartOfGroup, GroupStarts
      <4> QED BY <4>1, <4>2
    <3>3. CASE ~Level(p).qg
      <4>1. StartOfGroup = qg
        BY <3>3 DEF StartOfGroup, GroupStarts
      <4>2. CASE qg.start
        <5>1. qg' = [start |-> FALSE, first |-> Pos(currArea(p))]
          BY <1>1, <1>6, <4>1, <4>2
        <5> QED BY <3>1, <3>3, <4>2, <5>1 DEF Begun
      <4>3. CASE ~qg.start
        <5>1. qg' = qg
          BY <1>1, <4>1, <4>3
        <5> QED BY <3>1, <3>3, <4>3, <5>1 DEF Begun
      <4> QED BY <4>2, <4>3
    <3> QED BY <3>2, <3>3
  <2>2. (p').treeType # "C" /\ (waiting # NoPartitioner => waiting.chType # "luma")
    BY <1>4, <1>6, TreeParts DEF Trees, Waits
  <2>3. phase' # "tree" /\ phase' # "return"
    BY <1>1
  <2>4. Predicted(phase', p', waiting, qg')
    BY <1>4, <2>1, <2>2, <2>3, Zenon DEF Predicted
  <2> QED BY <1>1, <1>3, <2>4, WalkKept
<1>7. CASE p.chType # "luma"
  <2>1. StartOfGroup = qg
    BY <1>7, ChromaPredicts
  <2>2. ASSUME p.treeType = "C" PROVE Known(p', qg')
    <3>1. Known(p, qg)
      BY <1>5, <2>2, Zenon DEF Predicted
    <3>2. CASE Level(p).qg
      BY <1>4, <3>2 DEF Known
    <3>3. CASE ~Level(p).qg
      <4>1. ~qg.start /\ qg' = qg
        BY <1>1, <2>1, <3>1, <3>3 DEF Known
      <4> QED BY <1>4, <3>1, <4>1, Zenon DEF Known
    <3> QED BY <3>2, <3>3
  <2>3. ASSUME waiting # NoPartitioner, waiting.chType = "luma" PROVE Known(waiting, qg')
    <3>1. isDualITree(cs) /\ p.chType = "chroma"
      BY <1>7, <2>3, TreeParts DEF Waits
    <3>2. qg' = qg
      BY <1>1, <2>1, <3>1
    <3> QED BY <1>5, <2>3, <3>2, Zenon DEF Predicted
  <2>4. Predicted(phase', p', waiting, qg')
    BY <1>4, <1>7, <2>2, <2>3, Zenon DEF Predicted
  <2> QED BY <1>1, <1>3, <2>4, WalkKept
<1> QED BY <1>6, <1>7

LEMMA CodeUnitStep == ASSUME TreeInv, CodeUnit PROVE TreeInv'
<1>1. phase = "unit" /\ phase' = "return" /\ UNCHANGED <<cs, p, waiting, calls, qg>>
  BY DEF CodeUnit
<1>2. Predicted("unit", p, waiting, qg)
  BY <1>1, TreeParts
<1>3. Predicted("return", p, waiting, qg)
  <2>1. "return" # "unit" /\ "return" # "tree"
    OBVIOUS
  <2> QED BY <1>2, <2>1, Zenon DEF Predicted, Known
<1>4. Predicted(phase', p', waiting, qg')
  BY <1>1, <1>3
<1> QED BY <1>1, <1>4, StaysThere, WalkKept

\* What is known of a group is known of the next part, and of the whole block.
LEMMA KnownNext ==
    ASSUME NEW q, NEW r, NextKeeps(r, q), NEW g, Known(q, g)
    PROVE  Known(r, g)
BY Zenon DEF NextKeeps, Known

LEMMA KnownExit ==
    ASSUME NEW q, NEW r, ExitKeeps(r, q), NEW g, Known(q, g)
    PROVE  Known(r, g)
BY Zenon DEF ExitKeeps, Known

LEMMA BeginTwo == \A q : Begin(q) = "tree" \/ Begin(q) = "return"
BY DEF Begin

\* Where more is known than a phase asks for.
LEMMA PredictedAll ==
    ASSUME NEW ph, ph # "unit", NEW q, NEW w, NEW g,
           q.chType = "luma" \/ q.treeType = "C" => Known(q, g),
           w # NoPartitioner /\ w.chType = "luma" => Known(w, g)
    PROVE  Predicted(ph, q, w, g)
BY KnownBegun, Zenon DEF Predicted

LEMMA NextPartStep == ASSUME TreeInv, NextPart PROVE TreeInv'
<1> DEFINE r == nextPart(p)
<1>1. /\ phase = "return" /\ p.treeType # "C" /\ hasNextPart(p) /\ p' = r
      /\ phase' = Begin(r) /\ UNCHANGED <<cs, waiting, calls, qg>>
  BY DEF NextPart, InSplit
<1>2. NextKeeps(r, p)
  BY <1>1, TreeParts, NextKept
<1> HIDE DEF r
<1>3. /\ r \in Partition /\ PathInv(r) /\ SameKind(r, p) /\ Len(r.levels) = Len(p.levels)
  BY <1>2, Zenon DEF NextKeeps
<1>4. LevelCount(r, calls) /\ Trees(isDualITree(cs), r, calls)
  BY <1>3, TreeParts, Zenon DEF LevelCount, Trees, SameKind
<1>5. Waits(isDualITree(cs), r, waiting, calls)
  BY <1>3, TreeParts, Zenon DEF Waits, SameKind
<1>6. Predicted("return", p, waiting, qg)
  BY <1>1, TreeParts
<1>7. r.chType = "luma" \/ r.treeType = "C" => Known(r, qg)
  <2>1. p.chType = "luma" => Known(p, qg)
    BY <1>6, Zenon DEF Predicted
  <2> QED BY <1>1, <1>2, <1>3, <2>1, KnownNext, Zenon DEF SameKind
<1>8. waiting # NoPartitioner /\ waiting.chType = "luma" => Known(waiting, qg)
  BY <1>6, Zenon DEF Predicted
<1>9. Begin(r) # "unit"
  BY BeginTwo
<1>10. Predicted(Begin(r), r, waiting, qg)
  BY <1>7, <1>8, <1>9, PredictedAll
<1>11. Tree(cs, Begin(r), r, waiting, calls, qg)
  BY <1>3, <1>4, <1>5, <1>10, TreeParts, Zenon DEF Tree
<1>12. Tree(cs, phase', p', waiting', calls', qg')
  BY <1>1, <1>11
<1> QED BY <1>1, <1>12, TreeMade

\* Inside a split of its own a partitioner is below the CTU.
LEMMA BelowCtu ==
    ASSUME TreeInv, calls # <<>>, p.treeType # "C"
    PROVE  Len(p.levels) # 1
<1>1. Len(p.levels) = Len(calls) + 1 /\ Len(calls) \in Nat /\ Len(calls) # 0
  BY TreeParts, EmptySeq DEF LevelCount
<1> QED BY <1>1

LEMMA ExitSplitStep == ASSUME TreeInv, ExitSplit PROVE TreeInv'
<1> DEFINE e == exitCurrSplit(p)
<1>1. /\ phase = "return" /\ calls # <<>> /\ Last(calls) # Both /\ p.treeType # "C"
      /\ ~hasNextPart(p) /\ UNCHANGED <<cs, waiting, qg>>
  BY DEF ExitSplit, InSplit
<1>2. CASE ~MayExit(p)
  <2>1. phase' = "failed" /\ UNCHANGED <<p, calls>>
    BY <1>2 DEF ExitSplit
  <2> QED BY <1>1, <2>1, FailureStep
<1>3. ExitKeeps(e, p)
  BY <1>1, BelowCtu, TreeParts, ExitKept
<1>x. CASE MayExit(p)
 <2>0. IF Last(calls).chromaNotSplit
       THEN /\ p' = [e EXCEPT !.chType = "chroma", !.treeType = "C"]
            /\ phase' = "tree"
            /\ UNCHANGED calls
       ELSE /\ p' = [e EXCEPT !.modeType = Last(calls).mode]
            /\ calls' = Front(calls)
            /\ UNCHANGED phase
   BY <1>x, Zenon DEF ExitSplit
 <2> HIDE DEF e
 <2>1. /\ e \in Partition /\ PathInv(e) /\ SameKind(e, p) /\ Len(e.levels) + 1 = Len(p.levels)
   BY <1>3, Zenon DEF ExitKeeps
 <2>2. /\ e.chType = p.chType /\ e.treeType = p.treeType /\ e.modeType = p.modeType
   BY <2>1, Zenon DEF SameKind
 <2>3. Predicted("return", p, waiting, qg)
   BY <1>1, TreeParts
 <2>4. p.chType = "luma" => Known(e, qg)
   <3>1. p.chType = "luma" => Known(p, qg)
     BY <2>3, Zenon DEF Predicted
   <3> QED BY <1>3, <3>1, KnownExit
 <2>5. waiting # NoPartitioner /\ waiting.chType = "luma" => Known(waiting, qg)
   BY <2>3, Zenon DEF Predicted
 <2>6. /\ Front(calls) \in Seq(Call) /\ Len(Front(calls)) + 1 = Len(calls)
       /\ \A i \in DOMAIN Front(calls) : i \in DOMAIN calls /\ Front(calls)[i] = calls[i]
       /\ Last(calls) \in Call /\ (Front(calls) = <<>> => Last(calls) = calls[1] /\ 1 \in DOMAIN calls)
       /\ Len(calls) \in Nat /\ \E i \in DOMAIN calls : Last(calls) = calls[i]
   BY <1>1, TreeParts, CallsPop
 <2>7. Len(p.levels) = Len(calls) + 1
   BY <1>1, TreeParts DEF LevelCount
 <2>8. Len(e.levels) \in Nat
   BY <2>1 DEF Partition
 <2>9. CASE Last(calls).chromaNotSplit
   <3> DEFINE r == [e EXCEPT !.chType = "chroma", !.treeType = "C"]
   <3>1. p' = r /\ phase' = "tree" /\ UNCHANGED calls
     BY <2>0, <2>9
   <3>2. r \in Partition /\ SamePlace(r, e) /\ r.chType = "chroma" /\ r.treeType = "C"
     <4> DEFINE mode == e.modeType
     <4>1. mode \in {"all", "intra", "inter"}
       BY <2>1 DEF Partition
     <4>2. r = Retype(e, "chroma", "C", mode)
       BY <2>1 DEF Partition, Retype
     <4> HIDE DEF mode, r
     <4> QED BY <2>1, <4>1, <4>2, Retyped
   <3> HIDE DEF r
   <3>3. ~isDualITree(cs) /\ waiting = NoPartitioner /\ p.chType = "luma"
     <4>1. ~isDualITree(cs)
       BY <2>6, <2>9, TreeParts DEF Trees
     <4> QED BY <1>1, <4>1, TreeParts DEF Trees, Waits
   <3>4. PathInv(r) /\ Known(r, qg) /\ r.levels = e.levels
     BY <2>1, <2>4, <3>2, <3>3, PlaceKept DEF SamePlace
   <3>5. LevelCount(r, calls)
     BY <2>1, <2>6, <2>7, <2>8, <3>2, <3>4 DEF LevelCount
   <3>6. Trees(isDualITree(cs), r, calls)
     BY <1>1, <3>2, <3>3, Zenon DEF Trees
   <3>7. Waits(isDualITree(cs), r, waiting, calls)
     BY <3>3, TreeParts, Zenon DEF Waits
   <3>8. Predicted("tree", r, waiting, qg)
     <4>1. "tree" # "unit"
       OBVIOUS
     <4> QED BY <3>3, <3>4, <4>1, PredictedAll
   <3>9. Tree(cs, "tree", r, waiting, calls, qg)
     BY <3>2, <3>4, <3>5, <3>6, <3>7, <3>8, TreeParts, Zenon DEF Tree
   <3>10. Tree(cs, phase', p', waiting', calls', qg')
     BY <1>1, <3>1, <3>9
   <3> QED BY <1>1, <3>10, TreeMade
 <2>10. CASE ~Last(calls).chromaNotSplit
   <3> DEFINE mode == Last(calls).mode
              r == [e EXCEPT !.modeType = mode]
              k == Front(calls)
   <3>1. p' = r /\ calls' = k /\ phase' = "return"
     BY <1>1, <2>0, <2>10
   <3>2. mode \in {"all", "intra", "inter"}
     BY <2>6 DEF Call
   <3> HIDE DEF mode
   <3>3. /\ r \in Partition /\ SamePlace(r, e) /\ r.chType = p.chType /\ r.treeType = p.treeType
     <4> DEFINE ch == e.chType
                tree == e.treeType
     <4>1. ch \in {"luma", "chroma"} /\ tree \in {"D", "L", "C"}
       BY <2>1 DEF Partition
     <4>2. r = Retype(e, ch, tree, mode)
       BY <2>1 DEF Partition, Retype
     <4> HIDE DEF ch, tree, r
     <4>3. r \in Partition /\ SamePlace(r, e) /\ r.chType = ch /\ r.treeType = tree
       BY <2>1, <3>2, <4>1, <4>2, Retyped
     <4> QED BY <2>2, <4>3 DEF ch, tree
   <3> HIDE DEF r, k
   <3>4. PathInv(r) /\ (Known(e, qg) => Known(r, qg)) /\ r.levels = e.levels
     BY <2>1, <3>3, PlaceKept DEF SamePlace
   <3>5. LevelCount(r, k)
     <4>1. Len(k) + 1 = Len(calls) /\ Len(k) \in Nat
       BY <2>6 DEF k
     <4> QED BY <1>1, <2>1, <2>7, <2>8, <3>3, <3>4, <4>1 DEF LevelCount
   <3>6. Trees(isDualITree(cs), r, k)
     <4>1. \A i \in DOMAIN k : i \in DOMAIN calls /\ k[i] = calls[i]
       BY <2>6 DEF k
     <4> QED BY <1>1, <3>3, <4>1, TreeParts, Zenon DEF Trees
   <3>7. Waits(isDualITree(cs), r, waiting, k)
     <4>1. \A i \in DOMAIN k : i \in DOMAIN calls /\ k[i] = calls[i]
       BY <2>6 DEF k
     <4>2. Waits(isDualITree(cs), p, waiting, calls)
       BY TreeParts
     <4>3. waiting # NoPartitioner => k # <<>>
       BY <1>1, <2>6, <4>2, Zenon DEF Waits, k
     <4> QED BY <1>1, <3>3, <4>1, <4>2, <4>3, Zenon DEF Waits
   <3>8. Predicted("return", r, waiting, qg)
     <4>1. "return" # "unit"
       OBVIOUS
     <4> QED BY <1>1, <2>4, <2>5, <3>3, <3>4, <4>1, PredictedAll
   <3>9. k \in Seq(Call)
     BY <2>6 DEF k
   <3>10. Tree(cs, "return", r, waiting, k, qg)
     BY <3>3, <3>4, <3>5, <3>6, <3>7, <3>8, <3>9, TreeParts, Zenon DEF Tree
   <3>11. Tree(cs, phase', p', waiting', calls', qg')
     BY <1>1, <3>1, <3>10
   <3> QED BY <1>1, <3>11, TreeMade
 <2> QED BY <2>9, <2>10
<1> QED BY <1>2, <1>x

LEMMA EndChromaStep == ASSUME TreeInv, EndChroma PROVE TreeInv'
<1> DEFINE mode == Last(calls).mode
           r == [p EXCEPT !.chType = "luma", !.treeType = "D", !.modeType = mode]
           k == Front(calls)
<1>1. /\ phase = "return" /\ calls # <<>> /\ Last(calls) # Both /\ p.treeType = "C"
      /\ p' = r /\ calls' = k /\ UNCHANGED <<cs, phase, waiting, qg>>
  BY DEF EndChroma, InSplit
<1>2. /\ k \in Seq(Call) /\ Len(k) + 1 = Len(calls) /\ Len(calls) \in Nat
      /\ \A i \in DOMAIN k : i \in DOMAIN calls /\ k[i] = calls[i]
      /\ Last(calls) \in Call
  BY <1>1, TreeParts, CallsPop
<1>3. mode \in {"all", "intra", "inter"}
  BY <1>2 DEF Call
<1> HIDE DEF mode
<1>4. r \in Partition /\ SamePlace(r, p) /\ r.chType = "luma" /\ r.treeType = "D"
  <2>1. r = Retype(p, "luma", "D", mode)
    BY Zenon DEF Retype
  <2> QED BY <1>3, <2>1, TreeParts, Retyped
<1> HIDE DEF r, k
<1>5. ~isDualITree(cs) /\ waiting = NoPartitioner
  BY <1>1, TreeParts DEF Trees, Waits
<1>6. Known(p, qg)
  BY <1>1, TreeParts DEF Predicted
<1>7. PathInv(r) /\ Known(r, qg) /\ r.levels = p.levels
  BY <1>4, <1>6, TreeParts, PlaceKept DEF SamePlace
<1>8. LevelCount(r, k)
  <2>1. Len(p.levels) = Len(calls)
    BY <1>1, <1>2, TreeParts DEF LevelCount
  <2> QED BY <1>2, <1>4, <1>7, <2>1 DEF LevelCount
<1>9. Trees(isDualITree(cs), r, k)
  BY <1>4, <1>5 DEF Trees
<1>10. Waits(isDualITree(cs), r, waiting, k)
  BY <1>2, <1>5, TreeParts, Zenon DEF Waits
<1>11. Predicted("return", r, waiting, qg)
  <2>1. "return" # "unit"
    OBVIOUS
  <2> QED BY <1>5, <1>7, <2>1, PredictedAll
<1>12. Tree(cs, "return", r, waiting, k, qg)
  BY <1>2, <1>4, <1>7, <1>8, <1>9, <1>10, <1>11, TreeParts, Zenon DEF Tree
<1>13. Tree(cs, phase', p', waiting', calls', qg')
  BY <1>1, <1>12
<1> QED BY <1>1, <1>13, TreeMade

LEMMA AlternateStep == ASSUME TreeInv, Alternate PROVE TreeInv'
<1>1. phase = "return" /\ calls = <<Both>> /\ UNCHANGED <<cs, qg>>
  BY DEF Alternate
<1>2. /\ waiting # NoPartitioner /\ isDualITree(cs) /\ waiting \in Partition /\ PathInv(waiting)
      /\ Len(waiting.levels) = 2 /\ waiting.chType # p.chType /\ waiting.treeType = "D"
  <2>1. 1 \in DOMAIN calls /\ calls[1] = Both /\ calls # <<>>
    BY <1>1
  <2> QED BY <2>1, TreeParts, Zenon DEF Waits
<1>3. p.treeType = "D" /\ Len(p.levels) = 2
  <2>1. p.treeType = "D"
    BY <1>2, TreeParts DEF Trees
  <2>2. Len(calls) = 1
    BY <1>1
  <2> QED BY <2>1, <2>2, TreeParts DEF LevelCount
<1>4. p.chType \in {"luma", "chroma"} /\ waiting.chType \in {"luma", "chroma"}
  BY <1>2, TreeParts DEF Partition
<1>5. Predicted("return", p, waiting, qg)
  BY <1>1, TreeParts
<1>6. p.chType = "luma" => Known(p, qg)
  BY <1>5, Zenon DEF Predicted
<1>7. p.chType # "luma" => Known(waiting, qg) /\ waiting.chType = "luma" /\ p.chType = "chroma"
  <2>1. p.chType # "luma" => waiting.chType = "luma" /\ p.chType = "chroma"
    BY <1>2, <1>4
  <2> QED BY <1>2, <1>5, <2>1, Zenon DEF Predicted
<1>8. ASSUME NEW q \in Partition, NEW w \in Partition, PathInv(q), PathInv(w), Len(q.levels) = 2,
             Len(w.levels) = 2, q.treeType = "D", w.treeType = "D", w.chType # q.chType,
             NEW ph, ph # "unit", q.chType = "luma" => Known(q, qg),
             w.chType = "luma" => Known(w, qg)
      PROVE  Tree(cs, ph, q, w, calls, qg)
  <2>1. calls # <<>> /\ Len(calls) = 1
    BY <1>1
  <2>2. LevelCount(q, calls)
    BY <1>8, <2>1 DEF LevelCount
  <2>3. w # NoPartitioner
    BY NobodyWaits
  <2>4. q.treeType # "C"
    BY <1>8
  <2>5. Trees(isDualITree(cs), q, calls)
    BY <1>2, <1>8, <2>4, TreeParts, Zenon DEF Trees
  <2>6. Waits(isDualITree(cs), q, w, calls)
    BY <1>2, <1>8, <2>1, <2>3, TreeParts, Zenon DEF Waits
  <2>7. Predicted(ph, q, w, qg)
    BY <1>8, <2>4, PredictedAll
  <2> QED BY <1>8, <2>2, <2>5, <2>6, <2>7, TreeParts, Zenon DEF Tree
<1>9. CASE p.chType = "luma"
  <2>1. p' = waiting /\ waiting' = p /\ phase' = Begin(waiting) /\ UNCHANGED calls
    BY <1>9 DEF Alternate
  <2>2. Begin(waiting) # "unit"
    BY BeginTwo
  <2>3. waiting.chType # "luma"
    BY <1>2, <1>9
  <2>4. p.chType # waiting.chType
    BY <1>2
  <2>5. Tree(cs, Begin(waiting), waiting, p, calls, qg)
    BY <1>2, <1>3, <1>6, <1>8, <2>2, <2>3, <2>4, TreeParts, Zenon
  <2>6. Tree(cs, phase', p', waiting', calls', qg')
    BY <1>1, <2>1, <2>5
  <2> QED BY <1>1, <2>6, TreeMade
<1>10. CASE p.chType # "luma" /\ hasNextPart(p) # hasNextPart(waiting)
  <2>1. phase' = "failed" /\ UNCHANGED <<p, waiting, calls>>
    BY <1>10 DEF Alternate
  <2> QED BY <1>1, <2>1, FailureStep
<1>11. CASE p.chType # "luma" /\ hasNextPart(p) = hasNextPart(waiting) /\ hasNextPart(p)
  <2> DEFINE q == nextPart(waiting)
             w == nextPart(p)
  <2>1. p' = q /\ waiting' = w /\ phase' = Begin(q) /\ UNCHANGED calls
    BY <1>11 DEF Alternate
  <2>2. NextKeeps(q, waiting) /\ NextKeeps(w, p)
    BY <1>2, <1>11, TreeParts, NextKept
  <2> HIDE DEF q, w
  <2>3. Begin(q) # "unit"
    BY BeginTwo
  <2>4. /\ q \in Partition /\ w \in Partition /\ PathInv(q) /\ PathInv(w) /\ Len(q.levels) = 2
        /\ Len(w.levels) = 2 /\ q.treeType = "D" /\ w.treeType = "D"
        /\ q.chType = waiting.chType /\ w.chType = p.chType
    BY <1>2, <1>3, <2>2 DEF NextKeeps, SameKind
  <2>5. q.chType = "luma" /\ w.chType # "luma" /\ Known(q, qg)
    BY <1>7, <1>11, <2>2, <2>4, KnownNext
  <2>6. w.chType # q.chType
    BY <2>5
  <2>7. Tree(cs, Begin(q), q, w, calls, qg)
    BY <1>8, <2>3, <2>4, <2>5, <2>6, Zenon
  <2>8. Tree(cs, phase', p', waiting', calls', qg')
    BY <1>1, <2>1, <2>7
  <2> QED BY <1>1, <2>8, TreeMade
<1>12. CASE p.chType # "luma" /\ hasNextPart(p) = hasNextPart(waiting) /\ ~hasNextPart(p)
  <2> DEFINE q == exitCurrSplit(waiting)
             w == exitCurrSplit(p)
  <2>1. p' = q /\ waiting' = w /\ phase' = "return" /\ calls' = <<>>
    BY <1>1, <1>12 DEF Alternate
  <2>2. ExitKeeps(q, waiting) /\ ExitKeeps(w, p)
    <3>1. ~hasNextPart(waiting) /\ ~hasNextPart(p)
      BY <1>12
    <3>2. Len(p.levels) # 1 /\ Len(waiting.levels) # 1
      BY <1>2, <1>3
    <3> QED BY <1>2, <3>1, <3>2, TreeParts, ExitKept
  <2> HIDE DEF q, w
  <2>3. /\ q \in Partition /\ w \in Partition /\ PathInv(q) /\ PathInv(w) /\ Len(q.levels) + 1 = 2
        /\ Len(w.levels) + 1 = 2 /\ q.treeType = "D" /\ w.treeType = "D"
        /\ q.chType = waiting.chType /\ w.chType = p.chType
    BY <1>2, <1>3, <2>2 DEF ExitKeeps, SameKind
  <2>4. Len(q.levels) = 1 /\ Len(w.levels) = 1
    <3>1. Len(q.levels) \in Nat /\ Len(w.levels) \in Nat
      BY <2>3, LevelsCounted
    <3>2. \A n \in Nat : n + 1 = 2 => n = 1
      OBVIOUS
    <3> QED BY <2>3, <3>1, <3>2, Zenon
  <2>5. q.chType = "luma" /\ w.chType # "luma" /\ Known(q, qg)
    BY <1>7, <1>12, <2>2, <2>3, KnownExit
  <2>6. <<>> \in Seq(Call) /\ Len(<<>>) = 0 /\ DOMAIN <<>> = {}
    OBVIOUS
  <2>7. LevelCount(q, <<>>)
    BY <2>3, <2>4, <2>6 DEF LevelCount
  <2>8. Trees(isDualITree(cs), q, <<>>)
    <3>1. q.treeType # "C"
      BY <2>3
    <3> QED BY <1>2, <2>3, <2>6, <3>1, Zenon DEF Trees
  <2>9. Waits(isDualITree(cs), q, w, <<>>)
    BY <1>2, <2>3, <2>4, <2>5, <2>6 DEF Waits
  <2>10. Predicted("return", q, w, qg)
    <3>1. "return" # "unit" /\ q.treeType # "C"
      BY <2>3
    <3> QED BY <2>5, <3>1, PredictedAll
  <2>11. Tree(cs, "return", q, w, <<>>, qg)
    BY <2>3, <2>6, <2>7, <2>8, <2>9, <2>10, TreeParts, Zenon DEF Tree
  <2>12. Tree(cs, phase', p', waiting', calls', qg')
    BY <1>1, <2>1, <2>11
  <2> QED BY <1>1, <2>12, TreeMade
<1> QED BY <1>9, <1>10, <1>11, <1>12

LEMMA BeginChromaStep == ASSUME TreeInv, BeginChroma PROVE TreeInv'
<1> DEFINE r == initCtu(cs, "chroma")
<1>1. /\ calls = <<>> /\ isDualITree(cs) /\ waiting = NoPartitioner /\ p' = r
      /\ phase' = "tree" /\ UNCHANGED <<cs, waiting, calls>>
  BY DEF BeginChroma
<1>2. /\ r \in Partition /\ PathInv(r) /\ r.chType = "chroma" /\ r.treeType = "D"
      /\ Len(r.levels) = 1
  BY TreeParts, CtuPath
<1> HIDE DEF r
<1>3. LevelCount(r, calls)
  BY <1>1, <1>2 DEF LevelCount
<1>4. Trees(isDualITree(cs), r, calls)
  <2>1. r.treeType # "C"
    BY <1>2
  <2> QED BY <1>1, <1>2, <2>1, TreeParts, Zenon DEF Trees
<1>5. Waits(isDualITree(cs), r, waiting, calls)
  BY <1>1, TreeParts, Zenon DEF Waits
<1>6. Predicted("tree", r, waiting, qg')
  BY <1>1, <1>2 DEF Predicted
<1>7. Tree(cs, "tree", r, waiting, calls, qg')
  BY <1>2, <1>3, <1>4, <1>5, <1>6, TreeParts, Zenon DEF Tree
<1>8. Tree(cs, phase', p', waiting', calls', qg')
  BY <1>1, <1>7
<1> QED BY <1>1, <1>8, TreeMade

LEMMA EndCtuStep == ASSUME TreeInv, EndCtu PROVE TreeInv'
<1>1. phase = "return" /\ phase' = "done" /\ UNCHANGED <<cs, p, waiting, calls, qg>>
  BY DEF EndCtu
<1>2. Predicted("return", p, waiting, qg)
  BY <1>1, TreeParts
<1>3. Predicted("done", p, waiting, qg)
  <2>1. "done" # "unit" /\ "done" # "tree" /\ "done" # "return"
    OBVIOUS
  <2> QED BY <1>2, <2>1, Zenon DEF Predicted
<1>4. Predicted(phase', p', waiting, qg')
  BY <1>1, <1>3
<1> QED BY <1>1, <1>4, StaysThere, WalkKept

LEMMA TreeInit == Init => TreeInv
<1> SUFFICES ASSUME Init PROVE TreeInv
  OBVIOUS
<1> DEFINE r == initCtu(cs, "luma")
           w == initCtu(cs, "chroma")
<1>1. /\ cs \in Configs /\ phase = "tree" /\ p = r /\ calls = <<>>
      /\ waiting = IF Interleaved(cs) THEN w ELSE NoPartitioner
      /\ qg = [start |-> FALSE, first |-> Nowhere]
  BY DEF Init
<1>2. cs.ctu \in Nat
  BY <1>1, ConfigsAssumption
<1>3. /\ r \in Partition /\ PathInv(r) /\ r.chType = "luma" /\ r.treeType = "D"
      /\ Len(r.levels) = 1 /\ Level(r).qg
  BY <1>2, CtuPath
<1>4. /\ w \in Partition /\ PathInv(w) /\ w.chType = "chroma" /\ w.treeType = "D"
      /\ Len(w.levels) = 1
  BY <1>2, CtuPath
<1>5. Interleaved(cs) => isDualITree(cs)
  BY DEF Interleaved
<1> HIDE DEF r, w
<1>6. LevelCount(r, <<>>) /\ <<>> \in Seq(Call)
  BY <1>3 DEF LevelCount
<1>7. Trees(isDualITree(cs), r, <<>>)
  BY <1>3 DEF Trees
<1>8. Waits(isDualITree(cs), r, waiting, <<>>)
  BY <1>1, <1>3, <1>4, <1>5 DEF Waits
<1>9. Predicted("tree", r, waiting, qg)
  BY <1>1, <1>3, <1>4 DEF Predicted, Begun
<1>10. Tree(cs, "tree", r, waiting, <<>>, qg)
  BY <1>2, <1>3, <1>6, <1>7, <1>8, <1>9, Zenon DEF Tree
<1> QED BY <1>1, <1>10 DEF TreeInv

LEMMA TreeStep == TreeInv /\ [Next]_vars => TreeInv'
<1> SUFFICES ASSUME TreeInv, [Next]_vars PROVE TreeInv'
  OBVIOUS
<1>1. CASE SplitBoth
  BY <1>1, SplitBothStep
<1>2. CASE Split
  BY <1>2, SplitStep
<1>3. CASE DontSplit
  BY <1>3, DontSplitStep
<1>4. CASE CodeUnit
  BY <1>4, CodeUnitStep
<1>5. CASE NextPart
  BY <1>5, NextPartStep
<1>6. CASE ExitSplit
  BY <1>6, ExitSplitStep
<1>7. CASE EndChroma
  BY <1>7, EndChromaStep
<1>8. CASE Alternate
  BY <1>8, AlternateStep
<1>9. CASE BeginChroma
  BY <1>9, BeginChromaStep
<1>10. CASE EndCtu
  BY <1>10, EndCtuStep
<1>11. CASE UNCHANGED vars
  BY <1>11 DEF vars, TreeInv
<1> QED BY <1>1, <1>2, <1>3, <1>4, <1>5, <1>6, <1>7, <1>8, <1>9, <1>10, <1>11 DEF Next, Ended

\* The depths kept beside the path are those that its levels make: however
\* blocks are divided, the middle parts of three among them, and left again.
THEOREM CountersFollow == Spec => []CountersMatchPath
<1>1. TreeInv => CountersMatchPath
  <2> SUFFICES ASSUME TreeInv PROVE CountersMatchPath
    OBVIOUS
  <2> DEFINE s == p.levels
             took == [i \in DOMAIN p.levels |-> Taken(i)]
  <2>1. CountsOf(p) = Tally(s)
    BY TreeParts, Zenon DEF PathInv
  <2>2. /\ p.qt = Cardinality(QtAt(s)) /\ p.mt = Cardinality(MultiAt(s))
        /\ p.bt = Total(BtTaken(s)) /\ p.subdiv = Total(AllTaken(s))
        /\ p.implicitBt = Cardinality(ImplicitAt(s))
    BY <2>1 DEF CountsOf, Tally
  <2>3. Multi = MultiAt(s)
    BY Zenon DEF Multi, MultiAt
  <2>4. took = AllTaken(s)
    BY Zenon DEF Taken, TakenBy, AllTaken
  <2>5. [i \in DOMAIN took |-> IF i \in Multi THEN took[i] ELSE 0] = BtTaken(s)
    <3>1. \A i \in DOMAIN s : took[i] = TakenBy(s[i])
      BY Zenon DEF Taken, TakenBy
    <3>2. DOMAIN took = DOMAIN s
      BY Zenon
    <3> HIDE DEF took
    <3> QED BY <2>3, <3>1, <3>2 DEF BtTaken
  <2>6. {i \in DOMAIN p.levels : p.levels[i].split = "qt"} = QtAt(s)
    BY Zenon DEF QtAt
  <2>7. {i \in Multi : p.levels[i - 1].implicit # "no"} = ImplicitAt(s)
    BY <2>3, Zenon DEF ImplicitAt
  <2> QED BY <2>2, <2>3, <2>4, <2>5, <2>6, <2>7, Zenon DEF CountersMatchPath
<1> QED BY <1>1, TreeInit, TreeStep, PTL DEF Spec

\* Search, writer and reader agree where the QP of a quantization group is
\* predicted: at the group's first unit, whatever trees the unit is coded in.
THEOREM GroupsAgree == Spec => []FirstOfGroup
<1>1. TreeInv => FirstOfGroup
  <2> SUFFICES ASSUME TreeInv, phase = "unit" PROVE FirstOfGroup
    BY DEF FirstOfGroup
  <2>1. p.chType = "luma" => ~qg.start /\ qg.first = p.qgPos
    BY TreeParts DEF Predicted
  <2>2. PICK g \in DOMAIN p.levels : p.qgPos = Pos(Cur(p.levels[g]))
    BY TreeParts, Zenon DEF PathInv, GroupedAt
  <2> QED BY <2>1, <2>2, Zenon DEF FirstOfGroup, Cur
<1> QED BY <1>1, TreeInit, TreeStep, PTL DEF Spec
-----------------------------------------------------------------------------
(* Areas are made of whole units, and lie inside the CTU. *)
UnitSides == {4, 8, 16, 32, 64}
Sides == UnitSides \cup {128}
Sized(c) ==
    /\ c.ctu \in {32, 64, 128} /\ c.minCu \in UnitSides /\ c.minCu <= c.ctu
    /\ c.width \in Nat \ {0} /\ c.height \in Nat \ {0}
    /\ c.width % 8 = 0 /\ c.height % 8 = 0
    /\ c.width % c.minCu = 0 /\ c.height % c.minCu = 0
OnGrid(c, a) ==
    /\ a \in Areas /\ a.w \in Sides /\ a.h \in Sides
    /\ c.minCu <= a.w /\ c.minCu <= a.h
    /\ a.x % c.minCu = 0 /\ a.y % c.minCu = 0
    /\ a.x + a.w <= c.ctu /\ a.y + a.h <= c.ctu

PerRow(c) == c.ctu \div c.minCu
UnitX(c, u) == (u % PerRow(c)) * c.minCu
UnitY(c, u) == (u \div PerRow(c)) * c.minCu
Hits(c, a, u) ==
    /\ a.x <= UnitX(c, u) /\ UnitX(c, u) < a.x + a.w
    /\ a.y <= UnitY(c, u) /\ UnitY(c, u) < a.y + a.h
Visible(c, u) == UnitX(c, u) < c.width /\ UnitY(c, u) < c.height
Shown(c, a) == {u \in Nat : Hits(c, a, u) /\ Visible(c, u)}

Rows(n) ==
    /\ \A x \in 0..(n - 1), y \in Nat :
          y * n + x \in Nat /\ (y * n + x) % n = x /\ (y * n + x) \div n = y
    /\ \A u \in Nat : u % n \in 0..(n - 1) /\ u \div n \in Nat /\ u = (u \div n) * n + (u % n)

LEMMA RowOf == \A n \in {1, 2, 4, 8, 16, 32} : Rows(n)
<1>1. Rows(1)
  BY DEF Rows
<1>2. Rows(2)
  BY DEF Rows
<1>3. Rows(4)
  BY DEF Rows
<1>4. Rows(8)
  BY DEF Rows
<1>5. Rows(16)
  BY DEF Rows
<1>6. Rows(32)
  BY DEF Rows
<1> QED BY <1>1, <1>2, <1>3, <1>4, <1>5, <1>6

LEMMA SlotOf ==
    ASSUME NEW m \in UnitSides, NEW a \in Nat, NEW b \in Nat, 0 < b, a % m = 0, NEW x \in Int
    PROVE  x \in (a \div m)..(((a + b) - 1) \div m) <=> a <= x * m /\ x * m < a + b
<1>1. CASE m = 4
  BY <1>1
<1>2. CASE m = 8
  BY <1>2
<1>3. CASE m = 16
  BY <1>3
<1>4. CASE m = 32
  BY <1>4
<1>5. CASE m = 64
  BY <1>5
<1> QED BY <1>1, <1>2, <1>3, <1>4, <1>5 DEF UnitSides

LEMMA RowsOf ==
    ASSUME NEW c, Sized(c)
    PROVE  /\ PerRow(c) \in {1, 2, 4, 8, 16, 32} /\ c.minCu \in Nat
           /\ PerRow(c) * c.minCu = c.ctu
           /\ \A u \in Nat : UnitX(c, u) \in Nat /\ UnitY(c, u) \in Nat
<1> DEFINE m == c.minCu
           t == c.ctu
           n == PerRow(c)
<1>1. m \in UnitSides /\ t \in {32, 64, 128} /\ m <= t /\ n = t \div m
  BY DEF Sized, PerRow
<1> HIDE DEF m, t, n
<1>2. n \in {1, 2, 4, 8, 16, 32} /\ n * m = t /\ m \in Nat
  BY <1>1 DEF UnitSides
<1>3. ASSUME NEW u \in Nat PROVE (u % n) * m \in Nat /\ (u \div n) * m \in Nat
  <2>1. u % n \in Nat /\ u \div n \in Nat
    BY <1>2, RowOf DEF Rows
  <2> QED BY <1>2, <2>1
<1> QED BY <1>2, <1>3, Zenon DEF UnitX, UnitY, m, n, t

\* The units of an area are those that it hits.
LEMMA UnitsHit ==
    ASSUME NEW a, Sized(cs), OnGrid(cs, a)
    PROVE  UnitsOf(a) = {u \in Nat : Hits(cs, a, u)}
<1> DEFINE m == cs.minCu
           n == PerRow(cs)
           X == (a.x \div m)..(((a.x + a.w) - 1) \div m)
           Y == (a.y \div m)..(((a.y + a.h) - 1) \div m)
<1>1. /\ m \in UnitSides /\ m \in Nat /\ n \in {1, 2, 4, 8, 16, 32} /\ n * m = cs.ctu
      /\ cs.ctu \in Nat
  BY RowsOf DEF Sized
<1>2. /\ a.x \in Nat /\ a.y \in Nat /\ a.w \in Nat /\ a.h \in Nat /\ 0 < a.w /\ 0 < a.h
      /\ a.x % m = 0 /\ a.y % m = 0 /\ a.x + a.w <= cs.ctu /\ a.y + a.h <= cs.ctu
  BY DEF OnGrid, Areas, Sides, UnitSides
<1>3. \A u : u \in UnitsOf(a) <=> \E x \in X, y \in Y : u = y * n + x
  BY DEF UnitsOf, PerRow
<1> DEFINE ctu == cs.ctu
<1> HIDE DEF n, m, X, Y, ctu
<1>4. /\ \A x \in Int : x \in X <=> a.x <= x * m /\ x * m < a.x + a.w
      /\ \A y \in Int : y \in Y <=> a.y <= y * m /\ y * m < a.y + a.h
  BY <1>1, <1>2, SlotOf DEF X, Y
<1>5. X \subseteq 0..(n - 1) /\ Y \subseteq Nat
  <2>0. m \in UnitSides /\ n \in Nat /\ ctu = n * m /\ a.x \in Nat /\ a.y \in Nat /\ a.w \in Nat /\ a.x + a.w <= ctu
    BY <1>1, <1>2 DEF ctu
  <2>1. X \subseteq Int /\ Y \subseteq Int
    BY <1>1, <1>2 DEF X, Y
  <2>2. ASSUME NEW x \in Int, a.x <= x * m, x * m < a.x + a.w PROVE x \in 0..(n - 1)
    <3>1. 0 <= x * m /\ x * m < n * m
      BY ONLY <2>0, <2>2 DEF UnitSides
    <3> QED BY ONLY <2>0, <3>1, x \in Int DEF UnitSides
  <2>3. ASSUME NEW y \in Int, a.y <= y * m PROVE y \in Nat
    BY ONLY <2>0, <2>3, y \in Int DEF UnitSides
  <2> QED BY <1>4, <2>1, <2>2, <2>3
<1>6. ASSUME NEW x \in X, NEW y \in Y PROVE y * n + x \in Nat /\ Hits(cs, a, y * n + x)
  <2>1. x \in 0..(n - 1) /\ y \in Nat /\ x \in Int /\ y \in Int
    BY <1>1, <1>5
  <2>2. y * n + x \in Nat /\ (y * n + x) % n = x /\ (y * n + x) \div n = y
    BY <1>1, <2>1, RowOf DEF Rows
  <2>3. UnitX(cs, y * n + x) = x * m /\ UnitY(cs, y * n + x) = y * m
    BY <2>2, Zenon DEF UnitX, UnitY, n, m
  <2> QED BY <1>4, <1>6, <2>1, <2>2, <2>3, Zenon DEF Hits
<1>7. ASSUME NEW u \in Nat, Hits(cs, a, u) PROVE \E x \in X, y \in Y : u = y * n + x
  <2>1. u % n \in 0..(n - 1) /\ u \div n \in Nat /\ u = (u \div n) * n + (u % n)
    BY <1>1, RowOf DEF Rows
  <2>2. u % n \in Int /\ u \div n \in Int
    BY <1>1, <2>1
  <2>3. UnitX(cs, u) = (u % n) * m /\ UnitY(cs, u) = (u \div n) * m
    BY Zenon DEF UnitX, UnitY, n, m
  <2>4. u % n \in X /\ u \div n \in Y
    BY <1>4, <1>7, <2>2, <2>3, Zenon DEF Hits
  <2> QED BY <2>1, <2>4
<1>8. \A u : u \in UnitsOf(a) <=> u \in {v \in Nat : Hits(cs, a, v)}
  BY <1>3, <1>6, <1>7
<1> QED BY <1>8, Zenon

LEMMA UnitsShown ==
    ASSUME NEW a, Sized(cs), OnGrid(cs, a)
    PROVE  /\ UnitsInPicture(a) = Shown(cs, a)
           /\ \A u \in UnitsOf(a) : u \in Nat
<1>1. UnitsOf(a) = {u \in Nat : Hits(cs, a, u)}
  BY UnitsHit
<1>2. \A u : u \in UnitsInPicture(a) <=> u \in UnitsOf(a) /\ Visible(cs, u)
  BY Zenon DEF UnitsInPicture, Visible, UnitX, UnitY, PerRow
<1>3. \A u : u \in UnitsInPicture(a) <=> u \in Shown(cs, a)
  BY <1>1, <1>2 DEF Shown
<1> QED BY <1>1, <1>3
-----------------------------------------------------------------------------
(* How the parts of a block lie in it. *)
LEMMA SideHalves ==
    /\ \A n \in Sides : /\ n \in Nat /\ 0 < n /\ n \div 2 \in Nat /\ n \div 4 \in Nat
                        /\ n >= 8 => n \div 2 \in Sides /\ n = 2 * (n \div 2)
                        /\ n >= 16 => n \div 4 \in Sides /\ n = 4 * (n \div 4) /\ n \div 2 = 2 * (n \div 4)
    /\ \A m \in UnitSides : \A n \in Sides :
          /\ m \in Nat /\ m >= 4
          /\ n >= m => n % m = 0
          /\ n > m => n >= 2 * m
          /\ n > 2 * m => n >= 4 * m
BY DEF Sides, UnitSides

LEMMA OnUnits ==
    ASSUME NEW m \in UnitSides, NEW a \in Nat, NEW b \in Nat, a % m = 0, b % m = 0
    PROVE  (a + b) % m = 0
<1>1. CASE m = 4
  BY <1>1
<1>2. CASE m = 8
  BY <1>2
<1>3. CASE m = 16
  BY <1>3
<1>4. CASE m = 32
  BY <1>4
<1>5. CASE m = 64
  BY <1>5
<1> QED BY <1>1, <1>2, <1>3, <1>4, <1>5 DEF UnitSides

\* An area, by its place and sides.
Lies(a, x, y, w, h) == a \in Areas /\ a.x = x /\ a.y = y /\ a.w = w /\ a.h = h

\* The sides that a split cuts are long enough.
Fits(c, a, split) ==
    /\ split = "qt" => a.w >= 2 * c.minCu /\ a.h >= 2 * c.minCu
    /\ split \in Bt => Divided(split, a) >= 2 * c.minCu
    /\ split \in Tt => Divided(split, a) >= 4 * c.minCu

LEMMA CutLies ==
    ASSUME NEW a \in Areas, NEW v \in Nat, NEW t \in Nat
    PROVE  /\ Lies(Across(a, <<v, t>>), a.x, a.y + v, a.w, t)
           /\ Lies(Along(a, <<v, t>>), a.x + v, a.y, t, a.h)
<1> DEFINE y == a.y + v
           x == a.x + v
           r == [a EXCEPT !.y = y, !.h = t]
           u == [a EXCEPT !.x = x, !.w = t]
<1>1. Across(a, <<v, t>>) = r /\ Along(a, <<v, t>>) = u
  <2>1. <<v, t>>[1] = v /\ <<v, t>>[2] = t
    OBVIOUS
  <2> QED BY <2>1, Zenon DEF Across, Along
<1>2. a.x \in Nat /\ a.y \in Nat /\ y \in Nat /\ x \in Nat /\ a.w \in Nat /\ a.h \in Nat
  BY DEF Areas
<1> HIDE DEF x, y
<1>3. r \in Areas /\ r.x = a.x /\ r.y = y /\ r.w = a.w /\ r.h = t
  BY <1>2 DEF Areas
<1>4. u \in Areas /\ u.x = x /\ u.y = a.y /\ u.w = t /\ u.h = a.h
  BY <1>2 DEF Areas
<1> HIDE DEF r, u
<1> QED BY <1>1, <1>3, <1>4, Zenon DEF Lies, x, y

\* In two.
HalvesLie(a, split) ==
    /\ split = "bh" => /\ Lies(Parts(a, split)[1], a.x, a.y, a.w, a.h \div 2)
                       /\ Lies(Parts(a, split)[2], a.x, a.y + (a.h \div 2), a.w, a.h \div 2)
    /\ split = "bv" => /\ Lies(Parts(a, split)[1], a.x, a.y, a.w \div 2, a.h)
                       /\ Lies(Parts(a, split)[2], a.x + (a.w \div 2), a.y, a.w \div 2, a.h)
\* In three.
ThirdsLie(a, split) ==
    /\ split = "th" =>
          /\ Lies(Parts(a, split)[1], a.x, a.y, a.w, a.h \div 4)
          /\ Lies(Parts(a, split)[2], a.x, a.y + (a.h \div 4), a.w, a.h \div 2)
          /\ Lies(Parts(a, split)[3], a.x, a.y + 3 * (a.h \div 4), a.w, a.h \div 4)
    /\ split = "tv" =>
          /\ Lies(Parts(a, split)[1], a.x, a.y, a.w \div 4, a.h)
          /\ Lies(Parts(a, split)[2], a.x + (a.w \div 4), a.y, a.w \div 2, a.h)
          /\ Lies(Parts(a, split)[3], a.x + 3 * (a.w \div 4), a.y, a.w \div 4, a.h)
\* In four.
QuartersLie(a, split) ==
    split = "qt" =>
       /\ Lies(Parts(a, split)[1], a.x, a.y, a.w \div 2, a.h \div 2)
       /\ Lies(Parts(a, split)[2], a.x + (a.w \div 2), a.y, a.w \div 2, a.h \div 2)
       /\ Lies(Parts(a, split)[3], a.x, a.y + (a.h \div 2), a.w \div 2, a.h \div 2)
       /\ Lies(Parts(a, split)[4], a.x + (a.w \div 2), a.y + (a.h \div 2), a.w \div 2, a.h \div 2)

LEMMA PartsLie ==
    ASSUME NEW a \in Areas, NEW split \in Splits \ {"no"}
    PROVE  HalvesLie(a, split) /\ ThirdsLie(a, split) /\ QuartersLie(a, split)
<1> DEFINE w == a.w
           h == a.h
<1>0. w \in Nat /\ h \in Nat /\ a.x \in Nat /\ a.y \in Nat
  BY DEF Areas
<1> DEFINE w2 == w \div 2
           h2 == h \div 2
           w4 == w \div 4
           h4 == h \div 4
           w3 == 3 * (w \div 4)
           h3 == 3 * (h \div 4)
<1>1. /\ w2 \in Nat /\ h2 \in Nat /\ w4 \in Nat /\ h4 \in Nat /\ w3 \in Nat /\ h3 \in Nat
      /\ 0 \in Nat /\ a.x + 0 = a.x /\ a.y + 0 = a.y
  BY <1>0
<1>2. /\ Cuts("bh", h) = <<<<0, h2>>, <<h2, h2>>>> /\ Cuts("bv", w) = <<<<0, w2>>, <<w2, w2>>>>
      /\ Cuts("qt", h) = <<<<0, h2>>, <<h2, h2>>>> /\ Cuts("qt", w) = <<<<0, w2>>, <<w2, w2>>>>
      /\ Cuts("th", h) = <<<<0, h4>>, <<h4, h2>>, <<h3, h4>>>>
      /\ Cuts("tv", w) = <<<<0, w4>>, <<w4, w2>>, <<w3, w4>>>>
  BY DEF Cuts, Tt
<1> HIDE DEF w2, h2, w4, h4, w3, h3
<1>3. CASE split = "bh"
  <2>1. Parts(a, split) = [i \in DOMAIN Cuts("bh", a.h) |-> Across(a, Cuts("bh", a.h)[i])]
    BY <1>3 DEF Parts
  <2>2. Parts(a, split)[1] = Across(a, <<0, h2>>) /\ Parts(a, split)[2] = Across(a, <<h2, h2>>)
    BY <1>2, <2>1
  <2> QED BY <1>0, <1>1, <1>3, <2>2, CutLies DEF HalvesLie, ThirdsLie, QuartersLie, h2
<1>4. CASE split = "bv"
  <2>1. Parts(a, split) = [i \in DOMAIN Cuts("bv", a.w) |-> Along(a, Cuts("bv", a.w)[i])]
    BY <1>4 DEF Parts
  <2>2. Parts(a, split)[1] = Along(a, <<0, w2>>) /\ Parts(a, split)[2] = Along(a, <<w2, w2>>)
    BY <1>2, <2>1
  <2> QED BY <1>0, <1>1, <1>4, <2>2, CutLies DEF HalvesLie, ThirdsLie, QuartersLie, w2
<1>5. CASE split = "th"
  <2>1. Parts(a, split) = [i \in DOMAIN Cuts("th", a.h) |-> Across(a, Cuts("th", a.h)[i])]
    BY <1>5 DEF Parts
  <2>2. /\ Parts(a, split)[1] = Across(a, <<0, h4>>) /\ Parts(a, split)[2] = Across(a, <<h4, h2>>)
        /\ Parts(a, split)[3] = Across(a, <<h3, h4>>)
    BY <1>2, <2>1
  <2> QED BY <1>0, <1>1, <1>5, <2>2, CutLies DEF HalvesLie, ThirdsLie, QuartersLie, h2, h3, h4
<1>6. CASE split = "tv"
  <2>1. Parts(a, split) = [i \in DOMAIN Cuts("tv", a.w) |-> Along(a, Cuts("tv", a.w)[i])]
    BY <1>6 DEF Parts
  <2>2. /\ Parts(a, split)[1] = Along(a, <<0, w4>>) /\ Parts(a, split)[2] = Along(a, <<w4, w2>>)
        /\ Parts(a, split)[3] = Along(a, <<w3, w4>>)
    BY <1>2, <2>1
  <2> QED BY <1>0, <1>1, <1>6, <2>2, CutLies DEF HalvesLie, ThirdsLie, QuartersLie, w2, w3, w4
<1>7. CASE split = "qt"
  <2> DEFINE e == Cuts("qt", a.h)
             f == Cuts("qt", a.w)
  <2>1. Parts(a, split) = [i \in 1..4 |-> Along(Across(a, e[1 + ((i - 1) \div 2)]),
                                                f[1 + ((i - 1) % 2)])]
    BY <1>7 DEF Parts
  <2>2. e[1] = <<0, h2>> /\ e[2] = <<h2, h2>> /\ f[1] = <<0, w2>> /\ f[2] = <<w2, w2>>
    BY <1>2
  <2> HIDE DEF e, f
  <2>3. /\ 1 + ((1 - 1) \div 2) = 1 /\ 1 + ((1 - 1) % 2) = 1
        /\ 1 + ((2 - 1) \div 2) = 1 /\ 1 + ((2 - 1) % 2) = 2
        /\ 1 + ((3 - 1) \div 2) = 2 /\ 1 + ((3 - 1) % 2) = 1
        /\ 1 + ((4 - 1) \div 2) = 2 /\ 1 + ((4 - 1) % 2) = 2
        /\ 1 \in 1..4 /\ 2 \in 1..4 /\ 3 \in 1..4 /\ 4 \in 1..4
    OBVIOUS
  <2>4. /\ Parts(a, split)[1] = Along(Across(a, e[1]), f[1])
        /\ Parts(a, split)[2] = Along(Across(a, e[1]), f[2])
        /\ Parts(a, split)[3] = Along(Across(a, e[2]), f[1])
        /\ Parts(a, split)[4] = Along(Across(a, e[2]), f[2])
    BY <2>1, <2>3
  <2> DEFINE b == Across(a, <<0, h2>>)
             d == Across(a, <<h2, h2>>)
  <2>5. Lies(b, a.x, a.y, a.w, h2) /\ Lies(d, a.x, a.y + h2, a.w, h2)
    BY <1>1, CutLies
  <2>6. /\ Parts(a, split)[1] = Along(b, <<0, w2>>) /\ Parts(a, split)[2] = Along(b, <<w2, w2>>)
        /\ Parts(a, split)[3] = Along(d, <<0, w2>>) /\ Parts(a, split)[4] = Along(d, <<w2, w2>>)
    BY <2>2, <2>4
  <2> HIDE DEF b, d
  <2>7. /\ Lies(Along(b, <<0, w2>>), b.x + 0, b.y, w2, b.h)
        /\ Lies(Along(b, <<w2, w2>>), b.x + w2, b.y, w2, b.h)
        /\ Lies(Along(d, <<0, w2>>), d.x + 0, d.y, w2, d.h)
        /\ Lies(Along(d, <<w2, w2>>), d.x + w2, d.y, w2, d.h)
    <3>1. b \in Areas /\ d \in Areas
      BY <2>5 DEF Lies
    <3> QED BY <1>1, <3>1, CutLies
  <2>8. /\ b.x + 0 = a.x /\ b.x = a.x /\ b.y = a.y /\ b.h = h2
        /\ d.x + 0 = a.x /\ d.x = a.x /\ d.y = a.y + h2 /\ d.h = h2
    BY <1>0, <2>5 DEF Lies
  <2>9. split # "bh" /\ split # "bv" /\ split # "th" /\ split # "tv"
    BY <1>7
  <2> QED BY <2>6, <2>7, <2>8, <2>9, Zenon DEF HalvesLie, ThirdsLie, QuartersLie, w2, h2
<1> QED BY <1>3, <1>4, <1>5, <1>6, <1>7 DEF Splits, Btt, Bt, Tt
-----------------------------------------------------------------------------
\* The parts cover the block, and no two of them overlap.
Tiled(c, a, parts) ==
    /\ \A u \in Nat : u \in Shown(c, a) <=> \E i \in DOMAIN parts : u \in Shown(c, parts[i])
    /\ \A u \in Nat : \A i, j \in DOMAIN parts :
          u \in Shown(c, parts[i]) /\ u \in Shown(c, parts[j]) => i = j

SplitInto(c, a, parts) ==
    /\ \A i \in DOMAIN parts : OnGrid(c, parts[i])
    /\ Tiled(c, a, parts)

\* An area of a grid that lies in another.
LEMMA LiesOnGrid ==
    ASSUME NEW c, NEW a, OnGrid(c, a), NEW b, NEW x, NEW y, NEW w, NEW h, Lies(b, x, y, w, h),
           w \in Sides, h \in Sides, c.minCu <= w, c.minCu <= h,
           x % c.minCu = 0, y % c.minCu = 0, x + w <= a.x + a.w, y + h <= a.y + a.h,
           c.ctu \in Nat, x \in Nat, y \in Nat
    PROVE  OnGrid(c, b)
<1>1. /\ a.x \in Nat /\ a.y \in Nat /\ a.w \in Nat /\ a.h \in Nat
      /\ a.x + a.w <= c.ctu /\ a.y + a.h <= c.ctu
  BY DEF OnGrid, Areas
<1>2. w \in Nat /\ h \in Nat
  BY DEF Sides, UnitSides
<1>3. x + w <= c.ctu /\ y + h <= c.ctu
  BY <1>1, <1>2
<1> QED BY <1>3, Zenon DEF OnGrid, Lies

\* Places and sides inside a block that is on the grid.
LEMMA BlockSides ==
    ASSUME NEW c, Sized(c), NEW a, OnGrid(c, a)
    PROVE  /\ a \in Areas /\ a.x \in Nat /\ a.y \in Nat /\ a.w \in Sides /\ a.h \in Sides
           /\ a.w \in Nat /\ a.h \in Nat /\ c.minCu \in UnitSides /\ c.minCu \in Nat /\ c.ctu \in Nat
           /\ a.x % c.minCu = 0 /\ a.y % c.minCu = 0 /\ c.minCu <= a.w /\ c.minCu <= a.h
BY DEF OnGrid, Areas, Sized, Sides, UnitSides

LEMMA HalfSide ==
    ASSUME NEW m \in UnitSides, NEW n \in Sides, NEW v \in Nat, v % m = 0, n >= 2 * m
    PROVE  /\ n \div 2 \in Sides /\ n \div 2 \in Nat /\ m <= n \div 2 /\ n = 2 * (n \div 2)
           /\ v + (n \div 2) \in Nat /\ (v + (n \div 2)) % m = 0
           /\ v + (n \div 2) <= v + n /\ (v + (n \div 2)) + (n \div 2) <= v + n
<1> DEFINE k == n \div 2
<1>1. k \in Sides /\ k \in Nat /\ m <= k /\ n = 2 * k /\ m \in Nat
  BY SideHalves
<1>2. k % m = 0
  BY <1>1, SideHalves
<1> HIDE DEF k
<1>3. (v + k) % m = 0
  BY <1>1, <1>2, OnUnits
<1> QED BY <1>1, <1>3 DEF k

LEMMA QuarterSide ==
    ASSUME NEW m \in UnitSides, NEW n \in Sides, NEW v \in Nat, v % m = 0, n >= 4 * m
    PROVE  /\ n \div 4 \in Sides /\ n \div 2 \in Sides /\ n \div 4 \in Nat /\ n \div 2 \in Nat
           /\ m <= n \div 4 /\ m <= n \div 2 /\ n = 4 * (n \div 4) /\ n \div 2 = 2 * (n \div 4)
           /\ v + (n \div 4) \in Nat /\ v + 3 * (n \div 4) \in Nat
           /\ (v + (n \div 4)) % m = 0 /\ (v + 3 * (n \div 4)) % m = 0
           /\ v + (n \div 4) <= v + n /\ (v + (n \div 4)) + (n \div 2) <= v + n
           /\ (v + 3 * (n \div 4)) + (n \div 4) <= v + n
<1> DEFINE k == n \div 4
           d == n \div 2
<1>1. k \in Sides /\ d \in Sides /\ k \in Nat /\ d \in Nat /\ m <= k /\ m <= d /\ n = 4 * k /\ d = 2 * k /\ m \in Nat
  BY SideHalves
<1>2. k % m = 0 /\ d % m = 0
  BY <1>1, SideHalves
<1> HIDE DEF k, d
<1>3. (v + k) % m = 0
  BY <1>1, <1>2, OnUnits
<1>4. v + k \in Nat /\ (v + k) + d = v + 3 * k
  BY <1>1
<1>5. ((v + k) + d) % m = 0
  BY <1>1, <1>2, <1>3, <1>4, OnUnits
<1> QED BY <1>1, <1>3, <1>4, <1>5 DEF k, d

LEMMA PartIndexes ==
    /\ \A split \in Bt : PartsIn(split) = 2 /\ \A i \in 1..2 : i = 1 \/ i = 2
    /\ \A split \in Tt : PartsIn(split) = 3 /\ \A i \in 1..3 : i = 1 \/ i = 2 \/ i = 3
    /\ PartsIn("qt") = 4 /\ \A i \in 1..4 : i = 1 \/ i = 2 \/ i = 3 \/ i = 4
    /\ Splits \ {"no"} = {"qt", "bh", "bv", "th", "tv"}
BY DEF PartsIn, Splits, Btt, Bt, Tt

LEMMA PartsOnGrid ==
    ASSUME NEW c, Sized(c), NEW a, OnGrid(c, a), NEW split \in Splits \ {"no"}, Fits(c, a, split)
    PROVE  \A i \in 1..PartsIn(split) : OnGrid(c, Parts(a, split)[i])
<1> DEFINE w == a.w
           h == a.h
           m == c.minCu
<1>1. /\ a \in Areas /\ a.x \in Nat /\ a.y \in Nat /\ w \in Sides /\ h \in Sides
      /\ w \in Nat /\ h \in Nat /\ m \in UnitSides /\ m \in Nat /\ c.ctu \in Nat
      /\ a.x % m = 0 /\ a.y % m = 0 /\ m <= w /\ m <= h
  BY BlockSides
<1>2. HalvesLie(a, split) /\ ThirdsLie(a, split) /\ QuartersLie(a, split)
  BY <1>1, PartsLie
<1>3. a.x + w <= a.x + a.w /\ a.y + h <= a.y + a.h
  BY <1>1
<1>4. CASE split = "bh"
  <2>1. h >= 2 * m
    BY <1>4 DEF Fits, Bt, Divided
  <2>2. /\ h \div 2 \in Sides /\ h \div 2 \in Nat /\ m <= h \div 2
        /\ a.y + (h \div 2) \in Nat /\ (a.y + (h \div 2)) % m = 0
        /\ a.y + (h \div 2) <= a.y + h /\ (a.y + (h \div 2)) + (h \div 2) <= a.y + h
    BY <1>1, <2>1, HalfSide
  <2>3. OnGrid(c, Parts(a, split)[1]) /\ OnGrid(c, Parts(a, split)[2])
    BY <1>1, <1>2, <1>3, <1>4, <2>2, LiesOnGrid DEF HalvesLie
  <2>4. split \in Bt
    BY <1>4 DEF Bt
  <2> QED BY <2>3, <2>4, PartIndexes
<1>5. CASE split = "bv"
  <2>1. w >= 2 * m
    BY <1>5 DEF Fits, Bt, Divided
  <2>2. /\ w \div 2 \in Sides /\ w \div 2 \in Nat /\ m <= w \div 2
        /\ a.x + (w \div 2) \in Nat /\ (a.x + (w \div 2)) % m = 0
        /\ a.x + (w \div 2) <= a.x + w /\ (a.x + (w \div 2)) + (w \div 2) <= a.x + w
    BY <1>1, <2>1, HalfSide
  <2>3. OnGrid(c, Parts(a, split)[1]) /\ OnGrid(c, Parts(a, split)[2])
    BY <1>1, <1>2, <1>3, <1>5, <2>2, LiesOnGrid DEF HalvesLie
  <2>4. split \in Bt
    BY <1>5 DEF Bt
  <2> QED BY <2>3, <2>4, PartIndexes
<1>6. CASE split = "th"
  <2>1. h >= 4 * m
    BY <1>6 DEF Fits, Tt, Divided
  <2>2. /\ h \div 4 \in Sides /\ h \div 2 \in Sides /\ h \div 4 \in Nat /\ h \div 2 \in Nat
        /\ m <= h \div 4 /\ m <= h \div 2
        /\ a.y + (h \div 4) \in Nat /\ a.y + 3 * (h \div 4) \in Nat
        /\ (a.y + (h \div 4)) % m = 0 /\ (a.y + 3 * (h \div 4)) % m = 0
        /\ a.y + (h \div 4) <= a.y + h /\ (a.y + (h \div 4)) + (h \div 2) <= a.y + h
        /\ (a.y + 3 * (h \div 4)) + (h \div 4) <= a.y + h
    BY <1>1, <2>1, QuarterSide
  <2>3. /\ OnGrid(c, Parts(a, split)[1]) /\ OnGrid(c, Parts(a, split)[2])
        /\ OnGrid(c, Parts(a, split)[3])
    BY <1>1, <1>2, <1>3, <1>6, <2>2, LiesOnGrid DEF ThirdsLie
  <2>4. split \in Tt
    BY <1>6 DEF Tt
  <2> QED BY <2>3, <2>4, PartIndexes
<1>7. CASE split = "tv"
  <2>1. w >= 4 * m
    BY <1>7 DEF Fits, Tt, Divided
  <2>2. /\ w \div 4 \in Sides /\ w \div 2 \in Sides /\ w \div 4 \in Nat /\ w \div 2 \in Nat
        /\ m <= w \div 4 /\ m <= w \div 2
        /\ a.x + (w \div 4) \in Nat /\ a.x + 3 * (w \div 4) \in Nat
        /\ (a.x + (w \div 4)) % m = 0 /\ (a.x + 3 * (w \div 4)) % m = 0
        /\ a.x + (w \div 4) <= a.x + w /\ (a.x + (w \div 4)) + (w \div 2) <= a.x + w
        /\ (a.x + 3 * (w \div 4)) + (w \div 4) <= a.x + w
    BY <1>1, <2>1, QuarterSide
  <2>3. /\ OnGrid(c, Parts(a, split)[1]) /\ OnGrid(c, Parts(a, split)[2])
        /\ OnGrid(c, Parts(a, split)[3])
    BY <1>1, <1>2, <1>3, <1>7, <2>2, LiesOnGrid DEF ThirdsLie
  <2>4. split \in Tt
    BY <1>7 DEF Tt
  <2> QED BY <2>3, <2>4, PartIndexes
<1>8. CASE split = "qt"
  <2>1. w >= 2 * m /\ h >= 2 * m
    BY <1>8 DEF Fits
  <2>2. /\ w \div 2 \in Sides /\ w \div 2 \in Nat /\ m <= w \div 2
        /\ a.x + (w \div 2) \in Nat /\ (a.x + (w \div 2)) % m = 0
        /\ a.x + (w \div 2) <= a.x + w /\ (a.x + (w \div 2)) + (w \div 2) <= a.x + w
    BY <1>1, <2>1, HalfSide
  <2>3. /\ h \div 2 \in Sides /\ h \div 2 \in Nat /\ m <= h \div 2
        /\ a.y + (h \div 2) \in Nat /\ (a.y + (h \div 2)) % m = 0
        /\ a.y + (h \div 2) <= a.y + h /\ (a.y + (h \div 2)) + (h \div 2) <= a.y + h
    BY <1>1, <2>1, HalfSide
  <2>4. /\ Lies(Parts(a, split)[1], a.x, a.y, w \div 2, h \div 2)
        /\ Lies(Parts(a, split)[2], a.x + (w \div 2), a.y, w \div 2, h \div 2)
        /\ Lies(Parts(a, split)[3], a.x, a.y + (h \div 2), w \div 2, h \div 2)
        /\ Lies(Parts(a, split)[4], a.x + (w \div 2), a.y + (h \div 2), w \div 2, h \div 2)
    BY <1>2, <1>8 DEF QuartersLie
  <2>5. /\ OnGrid(c, Parts(a, split)[1]) /\ OnGrid(c, Parts(a, split)[2])
        /\ OnGrid(c, Parts(a, split)[3]) /\ OnGrid(c, Parts(a, split)[4])
    BY <1>1, <2>2, <2>3, <2>4, LiesOnGrid
  <2> QED BY <1>8, <2>5, PartIndexes
<1> QED BY <1>4, <1>5, <1>6, <1>7, <1>8, PartIndexes
-----------------------------------------------------------------------------
LEMMA HitsLies ==
    ASSUME NEW c, NEW u, NEW b, NEW x, NEW y, NEW w, NEW h, Lies(b, x, y, w, h)
    PROVE  Hits(c, b, u) <=> /\ x <= UnitX(c, u) /\ UnitX(c, u) < x + w
                             /\ y <= UnitY(c, u) /\ UnitY(c, u) < y + h
BY Zenon DEF Lies, Hits

\* In one direction.
LEMMA LineCut ==
    /\ \A v \in Nat, k \in Nat, X \in Nat :
          /\ v <= X /\ X < v + 2 * k <=> (v <= X /\ X < v + k) \/ (v + k <= X /\ X < (v + k) + k)
          /\ ~((v <= X /\ X < v + k) /\ (v + k <= X /\ X < (v + k) + k))
    /\ \A v \in Nat, k \in Nat, X \in Nat :
          /\ v <= X /\ X < v + 4 * k <=> \/ v <= X /\ X < v + k
                                         \/ v + k <= X /\ X < (v + k) + 2 * k
                                         \/ v + 3 * k <= X /\ X < (v + 3 * k) + k
          /\ ~((v <= X /\ X < v + k) /\ (v + k <= X /\ X < (v + k) + 2 * k))
          /\ ~((v <= X /\ X < v + k) /\ (v + 3 * k <= X /\ X < (v + 3 * k) + k))
          /\ ~((v + k <= X /\ X < (v + k) + 2 * k) /\ (v + 3 * k <= X /\ X < (v + 3 * k) + k))
OBVIOUS

HitsTile(c, a, parts, n) ==
    \A u \in Nat :
       /\ Hits(c, a, u) <=> \E i \in 1..n : Hits(c, parts[i], u)
       /\ \A i, j \in 1..n : Hits(c, parts[i], u) /\ Hits(c, parts[j], u) => i = j

LEMMA TwoTile ==
    ASSUME NEW c, NEW a, NEW parts, 
           \A u \in Nat : /\ Hits(c, a, u) <=> Hits(c, parts[1], u) \/ Hits(c, parts[2], u)
                          /\ ~(Hits(c, parts[1], u) /\ Hits(c, parts[2], u))
    PROVE  HitsTile(c, a, parts, 2)
<1>1. \A i \in 1..2 : i = 1 \/ i = 2
  OBVIOUS
<1>2. 1 \in 1..2 /\ 2 \in 1..2
  OBVIOUS
<1> QED BY <1>1, <1>2, Zenon DEF HitsTile

LEMMA ThreeTile ==
    ASSUME NEW c, NEW a, NEW parts, 
           \A u \in Nat : /\ Hits(c, a, u) <=> \/ Hits(c, parts[1], u) \/ Hits(c, parts[2], u)
                                               \/ Hits(c, parts[3], u)
                          /\ ~(Hits(c, parts[1], u) /\ Hits(c, parts[2], u))
                          /\ ~(Hits(c, parts[1], u) /\ Hits(c, parts[3], u))
                          /\ ~(Hits(c, parts[2], u) /\ Hits(c, parts[3], u))
    PROVE  HitsTile(c, a, parts, 3)
<1>1. \A i \in 1..3 : i = 1 \/ i = 2 \/ i = 3
  OBVIOUS
<1>2. 1 \in 1..3 /\ 2 \in 1..3 /\ 3 \in 1..3
  OBVIOUS
<1> QED BY <1>1, <1>2, Zenon DEF HitsTile

LEMMA FourTile ==
    ASSUME NEW c, NEW a, NEW parts, 
           \A u \in Nat : /\ Hits(c, a, u) <=> \/ Hits(c, parts[1], u) \/ Hits(c, parts[2], u)
                                               \/ Hits(c, parts[3], u) \/ Hits(c, parts[4], u)
                          /\ ~(Hits(c, parts[1], u) /\ Hits(c, parts[2], u))
                          /\ ~(Hits(c, parts[1], u) /\ Hits(c, parts[3], u))
                          /\ ~(Hits(c, parts[1], u) /\ Hits(c, parts[4], u))
                          /\ ~(Hits(c, parts[2], u) /\ Hits(c, parts[3], u))
                          /\ ~(Hits(c, parts[2], u) /\ Hits(c, parts[4], u))
                          /\ ~(Hits(c, parts[3], u) /\ Hits(c, parts[4], u))
    PROVE  HitsTile(c, a, parts, 4)
<1>1. \A i \in 1..4 : i = 1 \/ i = 2 \/ i = 3 \/ i = 4
  OBVIOUS
<1>2. 1 \in 1..4 /\ 2 \in 1..4 /\ 3 \in 1..4 /\ 4 \in 1..4
  OBVIOUS
<1> QED BY <1>1, <1>2, Zenon DEF HitsTile

LEMMA PartsTile ==
    ASSUME NEW c, Sized(c), NEW a, OnGrid(c, a), NEW split \in Splits \ {"no"}, Fits(c, a, split)
    PROVE  HitsTile(c, a, Parts(a, split), PartsIn(split))
<1> DEFINE w == a.w
           h == a.h
           m == c.minCu
           ps == Parts(a, split)
<1>1. /\ a \in Areas /\ a.x \in Nat /\ a.y \in Nat /\ w \in Sides /\ h \in Sides
      /\ w \in Nat /\ h \in Nat /\ m \in UnitSides /\ m \in Nat /\ c.ctu \in Nat
      /\ a.x % m = 0 /\ a.y % m = 0 /\ m <= w /\ m <= h
  BY BlockSides
<1>2. HalvesLie(a, split) /\ ThirdsLie(a, split) /\ QuartersLie(a, split)
  BY <1>1, PartsLie
<1>3. \A u \in Nat : UnitX(c, u) \in Nat /\ UnitY(c, u) \in Nat
  BY RowsOf
<1>4. \A u : Hits(c, a, u) <=> /\ a.x <= UnitX(c, u) /\ UnitX(c, u) < a.x + w
                               /\ a.y <= UnitY(c, u) /\ UnitY(c, u) < a.y + h
  BY Zenon DEF Hits
<1> HIDE DEF ps
<1>5. CASE split = "bh"
  <2> DEFINE k == h \div 2
  <2>1. h >= 2 * m
    BY <1>5 DEF Fits, Bt, Divided
  <2>2. k \in Nat /\ h = 2 * k
    BY <1>1, <2>1, HalfSide
  <2>3. Lies(ps[1], a.x, a.y, w, k) /\ Lies(ps[2], a.x, a.y + k, w, k)
    BY <1>2, <1>5 DEF HalvesLie, ps
  <2> HIDE DEF k, w, h
  <2>4. ASSUME NEW u \in Nat
        PROVE  /\ Hits(c, a, u) <=> Hits(c, ps[1], u) \/ Hits(c, ps[2], u)
               /\ ~(Hits(c, ps[1], u) /\ Hits(c, ps[2], u))
    <3> DEFINE X == UnitX(c, u)
               Y == UnitY(c, u)
    <3>1. /\ Hits(c, ps[1], u) <=> a.x <= X /\ X < a.x + w /\ a.y <= Y /\ Y < a.y + k
          /\ Hits(c, ps[2], u) <=> a.x <= X /\ X < a.x + w /\ a.y + k <= Y /\ Y < (a.y + k) + k
      <4>1. Hits(c, ps[1], u) <=> a.x <= X /\ X < a.x + w /\ a.y <= Y /\ Y < a.y + k
        BY <2>3, HitsLies
      <4>2. Hits(c, ps[2], u) <=> a.x <= X /\ X < a.x + w /\ a.y + k <= Y /\ Y < (a.y + k) + k
        BY <2>3, HitsLies
      <4> QED BY <4>1, <4>2
    <3>2. /\ a.y <= Y /\ Y < a.y + h <=> (a.y <= Y /\ Y < a.y + k) \/ (a.y + k <= Y /\ Y < (a.y + k) + k)
          /\ ~((a.y <= Y /\ Y < a.y + k) /\ (a.y + k <= Y /\ Y < (a.y + k) + k))
      BY <1>1, <1>3, <2>2, LineCut
    <3> HIDE DEF X, Y
    <3> QED BY <1>4, <3>1, <3>2, Zenon DEF X, Y
  <2>5. PartsIn(split) = 2
    BY <1>5, PartIndexes DEF Bt
  <2>6. HitsTile(c, a, ps, 2)
    BY <2>4, TwoTile
  <2> QED BY <2>5, <2>6 DEF ps
<1>6. CASE split = "bv"
  <2> DEFINE k == w \div 2
  <2>1. w >= 2 * m
    BY <1>6 DEF Fits, Bt, Divided
  <2>2. k \in Nat /\ w = 2 * k
    BY <1>1, <2>1, HalfSide
  <2>3. Lies(ps[1], a.x, a.y, k, h) /\ Lies(ps[2], a.x + k, a.y, k, h)
    BY <1>2, <1>6 DEF HalvesLie, ps
  <2> HIDE DEF k, w, h
  <2>4. ASSUME NEW u \in Nat
        PROVE  /\ Hits(c, a, u) <=> Hits(c, ps[1], u) \/ Hits(c, ps[2], u)
               /\ ~(Hits(c, ps[1], u) /\ Hits(c, ps[2], u))
    <3> DEFINE X == UnitX(c, u)
               Y == UnitY(c, u)
    <3>1. /\ Hits(c, ps[1], u) <=> a.x <= X /\ X < a.x + k /\ a.y <= Y /\ Y < a.y + h
          /\ Hits(c, ps[2], u) <=> a.x + k <= X /\ X < (a.x + k) + k /\ a.y <= Y /\ Y < a.y + h
      <4>1. Hits(c, ps[1], u) <=> a.x <= X /\ X < a.x + k /\ a.y <= Y /\ Y < a.y + h
        BY <2>3, HitsLies
      <4>2. Hits(c, ps[2], u) <=> a.x + k <= X /\ X < (a.x + k) + k /\ a.y <= Y /\ Y < a.y + h
        BY <2>3, HitsLies
      <4> QED BY <4>1, <4>2
    <3>2. /\ a.x <= X /\ X < a.x + w <=> (a.x <= X /\ X < a.x + k) \/ (a.x + k <= X /\ X < (a.x + k) + k)
          /\ ~((a.x <= X /\ X < a.x + k) /\ (a.x + k <= X /\ X < (a.x + k) + k))
      BY <1>1, <1>3, <2>2, LineCut
    <3> HIDE DEF X, Y
    <3> QED BY <1>4, <3>1, <3>2, Zenon DEF X, Y
  <2>5. PartsIn(split) = 2
    BY <1>6, PartIndexes DEF Bt
  <2>6. HitsTile(c, a, ps, 2)
    BY <2>4, TwoTile
  <2> QED BY <2>5, <2>6 DEF ps
<1>7. CASE split = "th"
  <2> DEFINE k == h \div 4
             d == h \div 2
  <2>1. h >= 4 * m
    BY <1>7 DEF Fits, Tt, Divided
  <2>2. k \in Nat /\ h = 4 * k /\ d = 2 * k
    BY <1>1, <2>1, QuarterSide
  <2>3. /\ Lies(ps[1], a.x, a.y, w, k) /\ Lies(ps[2], a.x, a.y + k, w, 2 * k)
        /\ Lies(ps[3], a.x, a.y + 3 * k, w, k)
    BY <1>2, <1>7, <2>2 DEF ThirdsLie, ps
  <2> HIDE DEF k, w, h, d
  <2>4. ASSUME NEW u \in Nat
        PROVE  /\ Hits(c, a, u) <=> Hits(c, ps[1], u) \/ Hits(c, ps[2], u) \/ Hits(c, ps[3], u)
               /\ ~(Hits(c, ps[1], u) /\ Hits(c, ps[2], u))
               /\ ~(Hits(c, ps[1], u) /\ Hits(c, ps[3], u))
               /\ ~(Hits(c, ps[2], u) /\ Hits(c, ps[3], u))
    <3> DEFINE X == UnitX(c, u)
               Y == UnitY(c, u)
    <3>1. /\ Hits(c, ps[1], u) <=> a.x <= X /\ X < a.x + w /\ a.y <= Y /\ Y < a.y + k
          /\ Hits(c, ps[2], u) <=> a.x <= X /\ X < a.x + w /\ a.y + k <= Y /\ Y < (a.y + k) + 2 * k
          /\ Hits(c, ps[3], u) <=> a.x <= X /\ X < a.x + w /\ a.y + 3 * k <= Y /\ Y < (a.y + 3 * k) + k
      <4>1. Hits(c, ps[1], u) <=> a.x <= X /\ X < a.x + w /\ a.y <= Y /\ Y < a.y + k
        BY <2>3, HitsLies
      <4>2. Hits(c, ps[2], u) <=> a.x <= X /\ X < a.x + w /\ a.y + k <= Y /\ Y < (a.y + k) + 2 * k
        BY <2>3, HitsLies
      <4>3. Hits(c, ps[3], u) <=> a.x <= X /\ X < a.x + w /\ a.y + 3 * k <= Y /\ Y < (a.y + 3 * k) + k
        BY <2>3, HitsLies
      <4> QED BY <4>1, <4>2, <4>3
    <3>2. /\ a.y <= Y /\ Y < a.y + h <=> \/ a.y <= Y /\ Y < a.y + k
                                         \/ a.y + k <= Y /\ Y < (a.y + k) + 2 * k
                                         \/ a.y + 3 * k <= Y /\ Y < (a.y + 3 * k) + k
          /\ ~((a.y <= Y /\ Y < a.y + k) /\ (a.y + k <= Y /\ Y < (a.y + k) + 2 * k))
          /\ ~((a.y <= Y /\ Y < a.y + k) /\ (a.y + 3 * k <= Y /\ Y < (a.y + 3 * k) + k))
          /\ ~((a.y + k <= Y /\ Y < (a.y + k) + 2 * k) /\ (a.y + 3 * k <= Y /\ Y < (a.y + 3 * k) + k))
      BY <1>1, <1>3, <2>2, LineCut
    <3> HIDE DEF X, Y
    <3> QED BY <1>4, <3>1, <3>2, Zenon DEF X, Y
  <2>5. PartsIn(split) = 3
    BY <1>7, PartIndexes DEF Tt
  <2>6. HitsTile(c, a, ps, 3)
    BY <2>4, ThreeTile
  <2> QED BY <2>5, <2>6 DEF ps
<1>8. CASE split = "tv"
  <2> DEFINE k == w \div 4
             d == w \div 2
  <2>1. w >= 4 * m
    BY <1>8 DEF Fits, Tt, Divided
  <2>2. k \in Nat /\ w = 4 * k /\ d = 2 * k
    BY <1>1, <2>1, QuarterSide
  <2>3. /\ Lies(ps[1], a.x, a.y, k, h) /\ Lies(ps[2], a.x + k, a.y, 2 * k, h)
        /\ Lies(ps[3], a.x + 3 * k, a.y, k, h)
    BY <1>2, <1>8, <2>2 DEF ThirdsLie, ps
  <2> HIDE DEF k, w, h, d
  <2>4. ASSUME NEW u \in Nat
        PROVE  /\ Hits(c, a, u) <=> Hits(c, ps[1], u) \/ Hits(c, ps[2], u) \/ Hits(c, ps[3], u)
               /\ ~(Hits(c, ps[1], u) /\ Hits(c, ps[2], u))
               /\ ~(Hits(c, ps[1], u) /\ Hits(c, ps[3], u))
               /\ ~(Hits(c, ps[2], u) /\ Hits(c, ps[3], u))
    <3> DEFINE X == UnitX(c, u)
               Y == UnitY(c, u)
    <3>1. /\ Hits(c, ps[1], u) <=> a.x <= X /\ X < a.x + k /\ a.y <= Y /\ Y < a.y + h
          /\ Hits(c, ps[2], u) <=> a.x + k <= X /\ X < (a.x + k) + 2 * k /\ a.y <= Y /\ Y < a.y + h
          /\ Hits(c, ps[3], u) <=> a.x + 3 * k <= X /\ X < (a.x + 3 * k) + k /\ a.y <= Y /\ Y < a.y + h
      <4>1. Hits(c, ps[1], u) <=> a.x <= X /\ X < a.x + k /\ a.y <= Y /\ Y < a.y + h
        BY <2>3, HitsLies
      <4>2. Hits(c, ps[2], u) <=> a.x + k <= X /\ X < (a.x + k) + 2 * k /\ a.y <= Y /\ Y < a.y + h
        BY <2>3, HitsLies
      <4>3. Hits(c, ps[3], u) <=> a.x + 3 * k <= X /\ X < (a.x + 3 * k) + k /\ a.y <= Y /\ Y < a.y + h
        BY <2>3, HitsLies
      <4> QED BY <4>1, <4>2, <4>3
    <3>2. /\ a.x <= X /\ X < a.x + w <=> \/ a.x <= X /\ X < a.x + k
                                         \/ a.x + k <= X /\ X < (a.x + k) + 2 * k
                                         \/ a.x + 3 * k <= X /\ X < (a.x + 3 * k) + k
          /\ ~((a.x <= X /\ X < a.x + k) /\ (a.x + k <= X /\ X < (a.x + k) + 2 * k))
          /\ ~((a.x <= X /\ X < a.x + k) /\ (a.x + 3 * k <= X /\ X < (a.x + 3 * k) + k))
          /\ ~((a.x + k <= X /\ X < (a.x + k) + 2 * k) /\ (a.x + 3 * k <= X /\ X < (a.x + 3 * k) + k))
      BY <1>1, <1>3, <2>2, LineCut
    <3> HIDE DEF X, Y
    <3> QED BY <1>4, <3>1, <3>2, Zenon DEF X, Y
  <2>5. PartsIn(split) = 3
    BY <1>8, PartIndexes DEF Tt
  <2>6. HitsTile(c, a, ps, 3)
    BY <2>4, ThreeTile
  <2> QED BY <2>5, <2>6 DEF ps
<1>9. CASE split = "qt"
  <2> DEFINE k == w \div 2
             d == h \div 2
  <2>1. w >= 2 * m /\ h >= 2 * m
    BY <1>9 DEF Fits
  <2>2. k \in Nat /\ w = 2 * k /\ d \in Nat /\ h = 2 * d
    BY <1>1, <2>1, HalfSide
  <2>3. /\ Lies(ps[1], a.x, a.y, k, d) /\ Lies(ps[2], a.x + k, a.y, k, d)
        /\ Lies(ps[3], a.x, a.y + d, k, d) /\ Lies(ps[4], a.x + k, a.y + d, k, d)
    BY <1>2, <1>9 DEF QuartersLie, ps
  <2> HIDE DEF k, w, h, d
  <2>4. ASSUME NEW u \in Nat
        PROVE  /\ Hits(c, a, u) <=> \/ Hits(c, ps[1], u) \/ Hits(c, ps[2], u)
                                    \/ Hits(c, ps[3], u) \/ Hits(c, ps[4], u)
               /\ ~(Hits(c, ps[1], u) /\ Hits(c, ps[2], u))
               /\ ~(Hits(c, ps[1], u) /\ Hits(c, ps[3], u))
               /\ ~(Hits(c, ps[1], u) /\ Hits(c, ps[4], u))
               /\ ~(Hits(c, ps[2], u) /\ Hits(c, ps[3], u))
               /\ ~(Hits(c, ps[2], u) /\ Hits(c, ps[4], u))
               /\ ~(Hits(c, ps[3], u) /\ Hits(c, ps[4], u))
    <3> DEFINE X == UnitX(c, u)
               Y == UnitY(c, u)
               left == a.x <= X /\ X < a.x + k
               right == a.x + k <= X /\ X < (a.x + k) + k
               upper == a.y <= Y /\ Y < a.y + d
               lower == a.y + d <= Y /\ Y < (a.y + d) + d
    <3>1. /\ Hits(c, ps[1], u) <=> left /\ upper
          /\ Hits(c, ps[2], u) <=> right /\ upper
          /\ Hits(c, ps[3], u) <=> left /\ lower
          /\ Hits(c, ps[4], u) <=> right /\ lower
      <4>1. Hits(c, ps[1], u) <=> left /\ upper
        BY <2>3, HitsLies
      <4>2. Hits(c, ps[2], u) <=> right /\ upper
        BY <2>3, HitsLies
      <4>3. Hits(c, ps[3], u) <=> left /\ lower
        BY <2>3, HitsLies
      <4>4. Hits(c, ps[4], u) <=> right /\ lower
        BY <2>3, HitsLies
      <4> QED BY <4>1, <4>2, <4>3, <4>4
    <3>2. /\ a.x <= X /\ X < a.x + w <=> left \/ right
          /\ ~(left /\ right)
      BY <1>1, <1>3, <2>2, LineCut
    <3>3. /\ a.y <= Y /\ Y < a.y + h <=> upper \/ lower
          /\ ~(upper /\ lower)
      BY <1>1, <1>3, <2>2, LineCut
    <3>4. Hits(c, a, u) <=> (left \/ right) /\ (upper \/ lower)
      BY <1>4, <3>2, <3>3
    <3> HIDE DEF left, right, upper, lower
    <3> QED BY <3>1, <3>2, <3>3, <3>4
  <2>5. PartsIn(split) = 4
    BY <1>9, PartIndexes
  <2>6. HitsTile(c, a, ps, 4)
    BY <2>4, FourTile
  <2> QED BY <2>5, <2>6 DEF ps
<1> QED BY <1>5, <1>6, <1>7, <1>8, <1>9, PartIndexes DEF ps

LEMMA PartsSplit ==
    ASSUME NEW c, Sized(c), NEW a, OnGrid(c, a), NEW split \in Splits \ {"no"}, Fits(c, a, split)
    PROVE  SplitInto(c, a, Parts(a, split))
<1> DEFINE ps == Parts(a, split)
           n == PartsIn(split)
<1>1. a \in Areas
  BY BlockSides
<1>2. DOMAIN ps = 1..n
  <2>1. ps \in Seq(Areas) /\ Len(ps) = n
    BY <1>1, PartsSound
  <2> QED BY <2>1
<1>3. HitsTile(c, a, ps, n)
  BY PartsTile
<1>4. \A i \in 1..n : OnGrid(c, ps[i])
  BY PartsOnGrid
<1> HIDE DEF ps, n
<1>5. \A b, u : u \in Shown(c, b) <=> u \in Nat /\ Hits(c, b, u) /\ Visible(c, u)
  BY DEF Shown
<1>6. Tiled(c, a, ps)
  BY <1>2, <1>3, <1>5, Zenon DEF Tiled, HitsTile
<1> QED BY <1>2, <1>4, <1>6, Zenon DEF SplitInto, ps
-----------------------------------------------------------------------------
(* What is true of every level of a path, from those before it. *)
CtuOf(c) == [x |-> 0, y |-> 0, w |-> c.ctu, h |-> c.ctu]

\* A block that the picture's boundary crosses.
Cut(c, a) == InPicture(c, a) /\ ~(HasBottomLeft(c, a) /\ HasTopRight(c, a))
Dyadic(a) == a.x % a.w = 0 /\ a.y % a.h = 0

\* Units in the parts before the current ones.
Earlier(c, l, u) == \E j \in 1..l.idx : u \in Shown(c, l.parts[j])
Behind(c, s, u) == \E i \in DOMAIN s : Earlier(c, s[i], u)

Aligned64(a) == a.w % 64 = 0 /\ a.h % 64 = 0 /\ a.x % 64 = 0 /\ a.y % 64 = 0
Within64(a) == \E x, y \in {0, 64} : /\ x <= a.x /\ a.x + a.w <= x + 64
                                     /\ y <= a.y /\ a.y + a.h <= y + 64

\* The parts lie in the block before, and none was walked.
Laid(c, s, l) ==
    /\ \A j \in DOMAIN l.parts : OnGrid(c, l.parts[j])
    /\ s = <<>> => l.parts = <<CtuOf(c)>>
    /\ s # <<>> => Tiled(c, Cur(Last(s)), l.parts)
Fresh(c, s, l) ==
    \A u \in Nat : u \in Shown(c, Cur(l)) =>
       /\ ~Behind(c, s, u) /\ ~Earlier(c, l, u)
       /\ \A i \in DOMAIN s : u \in Shown(c, Cur(s[i]))

\* Blocks are cut by the boundary only where all before were, and were split
\* because of that.
CutSound(c, lim, s, split, b) ==
    /\ 8 <= b.w /\ 8 <= b.h /\ Dyadic(b)
    /\ Tally(s).mt = Tally(s).implicitBt
    /\ s # <<>> => Cut(c, Cur(Last(s))) /\ Last(s).implicit # "no"
    /\ split \in Btt => /\ b.w <= 64 /\ b.h <= 64 /\ 0 < lim.maxMtt
                        /\ b.w <= lim.maxBt /\ b.h <= lim.maxBt
Edges(c, lim, s, l) ==
    \A j \in DOMAIN l.parts : Cut(c, l.parts[j]) => CutSound(c, lim, s, l.split, l.parts[j])

Depths(c, s, l) ==
    /\ Tally(s).qt \in Nat /\ Tally(s).mt \in Nat /\ Tally(s).mt <= Tally(s).bt
    /\ l.split \notin Btt => /\ Tally(s).mt = 0 /\ Tally(s).bt = 0
                            /\ \A j \in DOMAIN l.parts : l.parts[j].w = l.parts[j].h
    /\ s # <<>> => Last(s).implicit # "unknown" /\ InPicture(c, Cur(Last(s)))
    /\ s # <<>> /\ isDualITree(c) =>
          \A j \in DOMAIN l.parts : l.parts[j].w <= 64 /\ l.parts[j].h <= 64

Whole64(c, s, l) ==
    /\ \A j \in DOMAIN l.parts : Within64(l.parts[j]) \/ Aligned64(l.parts[j])
    /\ s # <<>> => Within64(Cur(Last(s))) \/ \A j \in DOMAIN l.parts : Aligned64(l.parts[j])

LevelGeo(c, lim, s, l) ==
    Laid(c, s, l) /\ Fresh(c, s, l) /\ Edges(c, lim, s, l) /\ Depths(c, s, l) /\ Whole64(c, s, l)
Geo(c, lim, s) == \A i \in DOMAIN s : LevelGeo(c, lim, SubSeq(s, 1, i - 1), s[i])

-----------------------------------------------------------------------------
(* What was coded, along the walk. *)
Covered(c, units, s, ended) ==
    /\ units \in SUBSET Nat
    /\ \A u \in Nat : u \in units <=> Behind(c, s, u) \/ (ended /\ u \in Shown(c, Cur(Last(s))))

Walked(ph) == ph \notin {"tree", "unit"}
Begins(c, ph, q) ==
    /\ ph \in {"tree", "unit", "return", "done"}
    /\ ph \in {"tree", "unit"} => InPicture(c, Cur(Level(q)))
    /\ ph = "tree" /\ q.treeType # "C" => Level(q).implicit = "unknown"
    /\ ph = "unit" \/ q.treeType = "C" => ~Cut(c, Cur(Level(q)))

\* The calls under which chroma is not split.
Lone(c, q, k) ==
    /\ \A i \in DOMAIN k : k[i].chromaNotSplit =>
          /\ c.format # "400" /\ i \in DOMAIN q.levels /\ ~Cut(c, Cur(q.levels[i]))
          /\ \A j \in DOMAIN k : i < j => k[j].mode = "intra" /\ ~k[j].chromaNotSplit
    /\ q.treeType = "D" => \A i \in DOMAIN k : ~k[i].chromaNotSplit
    /\ q.treeType = "L" => q.modeType = "intra" /\ \E i \in DOMAIN k : k[i].chromaNotSplit
    /\ q.treeType = "C" => k # <<>> /\ Last(k).chromaNotSplit

\* Of a partitioner that walks alone, and of two that alternate.
CoversAlone(c, ph, q, k, luma, chroma) ==
    /\ isDualITree(c) /\ q.chType = "luma" =>
          Covered(c, luma, q.levels, Walked(ph)) /\ chroma = {}
    /\ isDualITree(c) /\ q.chType = "chroma" =>
          Covered(c, chroma, q.levels, Walked(ph)) /\ luma = Shown(c, CtuOf(c))
    /\ ~isDualITree(c) => Covered(c, luma, q.levels, Walked(ph) \/ q.treeType = "C")
    /\ ~isDualITree(c) /\ c.format = "400" => chroma = {}
    /\ ~isDualITree(c) /\ c.format # "400" /\ q.treeType # "L" =>
          Covered(c, chroma, q.levels, Walked(ph))
    /\ ~isDualITree(c) /\ c.format # "400" /\ q.treeType = "L" =>
          \E i \in DOMAIN k : /\ k[i].chromaNotSplit
                              /\ Covered(c, chroma, SubSeq(q.levels, 1, i), FALSE)
CoversPair(c, ph, q, w, k, cod) ==
    /\ Geo(c, Limits(c, w.chType), w.levels)
    /\ Covered(c, cod[q.chType], q.levels, Walked(ph))
    /\ Covered(c, cod[w.chType], w.levels, w.chType = "luma" \/ (k = <<>> /\ Walked(ph)))
    /\ k # <<>> => q.levels[2].parts = w.levels[2].parts /\ q.levels[2].idx = w.levels[2].idx
    /\ k = <<>> => ph # "unit"
    /\ w.chType = "chroma" /\ (k = <<>> => ph = "tree") => Level(w).implicit = "unknown"

Cover(c, ph, q, w, k, cod) ==
    /\ Geo(c, Limits(c, q.chType), q.levels)
    /\ Begins(c, ph, q) /\ Lone(c, q, k)
    /\ w # NoPartitioner <=> isDualITree(c) /\ 64 < c.ctu
    /\ w = NoPartitioner => CoversAlone(c, ph, q, k, cod["luma"], cod["chroma"])
    /\ w # NoPartitioner => CoversPair(c, ph, q, w, k, cod)
    /\ ph = "done" => /\ cod["luma"] = Shown(c, CtuOf(c))
                      /\ c.format # "400" => cod["chroma"] = Shown(c, CtuOf(c))
CoverInv == Cover(cs, phase, p, waiting, calls, coded)
-----------------------------------------------------------------------------
\* A path and the paths it begins with.
LEMMA PrefixOf ==
    ASSUME NEW S, NEW s \in Seq(S), NEW l \in S
    PROVE  /\ SubSeq(Append(s, l), 1, Len(s)) = s
           /\ \A n \in 0..Len(s) : SubSeq(Append(s, l), 1, n) = SubSeq(s, 1, n)
           /\ SubSeq(s, 1, 0) = <<>>
<1> DEFINE a == Append(s, l)
           k == Len(s)
<1>1. /\ a \in Seq(S) /\ Len(a) = k + 1 /\ k \in Nat /\ \A i \in 1..k : a[i] = s[i] /\ s[i] \in S
  BY Appended
<1> HIDE DEF a
<1>2. ASSUME NEW n \in 0..k PROVE SubSeq(a, 1, n) = SubSeq(s, 1, n)
  <2>1. n \in Int /\ \A i \in 1..n : i \in 1..k
    BY <1>1
  <2>2. /\ SubSeq(a, 1, n) \in Seq(S) /\ Len(SubSeq(a, 1, n)) = (IF 1 <= n THEN n - 1 + 1 ELSE 0)
        /\ \A i \in 1..(n - 1 + 1) : SubSeq(a, 1, n)[i] = a[1 + i - 1]
    <3>1. \A i \in 1..n : a[i] \in S
      BY <1>1, <2>1
    <3> QED BY <2>1, <3>1, SubSeqProperties
  <2>3. /\ SubSeq(s, 1, n) \in Seq(S) /\ Len(SubSeq(s, 1, n)) = (IF 1 <= n THEN n - 1 + 1 ELSE 0)
        /\ \A i \in 1..(n - 1 + 1) : SubSeq(s, 1, n)[i] = s[1 + i - 1]
    <3>1. \A i \in 1..n : s[i] \in S
      BY <1>1, <2>1
    <3> QED BY <2>1, <3>1, SubSeqProperties
  <2> DEFINE b == SubSeq(a, 1, n)
             d == SubSeq(s, 1, n)
  <2>4. (n - 1 + 1) = n /\ \A i \in 1..n : 1 + i - 1 = i
    BY <2>1
  <2>5. Len(b) = n /\ Len(d) = n
    <3>1. n >= 0
      BY <1>1
    <3> QED BY <2>1, <2>2, <2>3, <3>1
  <2> HIDE DEF b, d
  <2>6. \A i \in 1..n : b[i] = d[i]
    <3>1. \A i \in 1..n : b[i] = a[i]
      BY <2>2, <2>4 DEF b
    <3>2. \A i \in 1..n : d[i] = s[i]
      BY <2>3, <2>4 DEF d
    <3> QED BY <1>1, <2>1, <3>1, <3>2
  <2>7. b = d
    <3>1. b \in Seq(S) /\ d \in Seq(S)
      BY <2>2, <2>3 DEF b, d
    <3> QED BY <2>5, <2>6, <3>1, SeqEqual
  <2> QED BY <2>7 DEF b, d
<1>3. SubSeq(s, 1, k) = s
  BY SubSeqFull
<1>4. SubSeq(a, 1, k) = s
  <2>1. k \in 0..k
    BY <1>1
  <2> QED BY <1>2, <1>3, <2>1
<1>5. SubSeq(s, 1, 0) = <<>>
  BY SubSeqEmpty
<1> QED BY <1>2, <1>4, <1>5 DEF a

LEMMA GeoAppend ==
    ASSUME NEW c, NEW lim, NEW s \in Seq(PathLevel), NEW l \in PathLevel
    PROVE  Geo(c, lim, Append(s, l)) <=> Geo(c, lim, s) /\ LevelGeo(c, lim, s, l)
<1> DEFINE a == Append(s, l)
           k == Len(s)
<1>1. /\ k \in Nat /\ DOMAIN s = 1..k /\ DOMAIN a = 1..(k + 1)
      /\ a[k + 1] = l /\ \A i \in 1..k : a[i] = s[i]
  BY Appended
<1>2. /\ SubSeq(a, 1, k) = s
      /\ \A n \in 0..k : SubSeq(a, 1, n) = SubSeq(s, 1, n)
  BY PrefixOf
<1> HIDE DEF a, k
<1>3. (k + 1) - 1 = k /\ \A i \in 1..k : i - 1 \in 0..k /\ i \in 1..(k + 1)
  BY <1>1
<1>4. \A i \in 1..(k + 1) : i \in 1..k \/ i = k + 1
  BY <1>1
<1>5. k + 1 \in 1..(k + 1)
  BY <1>1
<1> QED BY <1>1, <1>2, <1>3, <1>4, <1>5, Zenon DEF Geo, a

LEMMA BehindAppend ==
    ASSUME NEW c, NEW s \in Seq(PathLevel), NEW l \in PathLevel, NEW u
    PROVE  Behind(c, Append(s, l), u) <=> Behind(c, s, u) \/ Earlier(c, l, u)
<1> DEFINE a == Append(s, l)
           k == Len(s)
<1>1. /\ k \in Nat /\ DOMAIN s = 1..k /\ DOMAIN a = 1..(k + 1)
      /\ a[k + 1] = l /\ \A i \in 1..k : a[i] = s[i]
  BY Appended
<1> HIDE DEF a, k
<1>2. \A i \in 1..(k + 1) : i \in 1..k \/ i = k + 1
  BY <1>1
<1>3. k + 1 \in 1..(k + 1) /\ \A i \in 1..k : i \in 1..(k + 1)
  BY <1>1
<1> QED BY <1>1, <1>2, <1>3, Zenon DEF Behind, a

\* What a level is asked changes nothing of where it lies.
LEMMA GeoAsked ==
    ASSUME NEW c, NEW lim, NEW s, NEW l, NEW m, m.split = l.split, m.parts = l.parts, m.idx = l.idx
    PROVE  /\ LevelGeo(c, lim, s, m) <=> LevelGeo(c, lim, s, l)
           /\ \A u : Earlier(c, m, u) <=> Earlier(c, l, u)
           /\ Cur(m) = Cur(l)
<1>1. Cur(m) = Cur(l)
  BY Zenon DEF Cur
<1>2. \A u : Earlier(c, m, u) <=> Earlier(c, l, u)
  BY Zenon DEF Earlier
<1>3. Laid(c, s, m) <=> Laid(c, s, l)
  BY Zenon DEF Laid
<1>4. Fresh(c, s, m) <=> Fresh(c, s, l)
  BY <1>1, <1>2, Zenon DEF Fresh
<1>5. Edges(c, lim, s, m) <=> Edges(c, lim, s, l)
  BY Zenon DEF Edges
<1>6. Depths(c, s, m) <=> Depths(c, s, l)
  BY Zenon DEF Depths
<1>7. Whole64(c, s, m) <=> Whole64(c, s, l)
  BY Zenon DEF Whole64
<1> QED BY <1>1, <1>2, <1>3, <1>4, <1>5, <1>6, <1>7, Zenon DEF LevelGeo
-----------------------------------------------------------------------------
(* Where the picture ends, of a configuration that the reader accepts. *)
LimitsReady(c, lim) ==
    /\ lim.minQt \in Nat /\ lim.maxBt \in Nat /\ lim.maxTt \in Nat /\ lim.maxMtt \in Nat
    /\ c.minCu <= lim.minQt
Ready(c) ==
    /\ Sized(c) /\ c.format \in Formats /\ c.intra \in BOOLEAN /\ c.dual \in BOOLEAN
    /\ c.dual => c.format # "400"
    /\ LimitsReady(c, Limits(c, "luma")) /\ LimitsReady(c, Limits(c, "chroma"))

LEMMA EightOrUnit ==
    ASSUME NEW m \in UnitSides, NEW t \in Nat, t % Larger(8, m) = 0
    PROVE  t % 8 = 0 /\ t % m = 0
<1>1. CASE m = 4
  BY <1>1 DEF Larger
<1>2. CASE m = 8
  BY <1>2 DEF Larger
<1>3. CASE m = 16
  BY <1>3 DEF Larger
<1>4. CASE m = 32
  BY <1>4 DEF Larger
<1>5. CASE m = 64
  BY <1>5 DEF Larger
<1> QED BY <1>1, <1>2, <1>3, <1>4, <1>5 DEF UnitSides

LEMMA ConfigReady ==
    ASSUME NEW c \in Configs, Accepted(c)
    PROVE  Ready(c)
<1>1. /\ c.ctu \in Nat /\ c.width \in Nat \ {0} /\ c.height \in Nat \ {0} /\ c.format \in Formats
      /\ c.intra \in BOOLEAN /\ c.dual \in BOOLEAN
      /\ c.limits \in [{"luma", "inter", "chroma"} -> SplitLimits]
  BY ConfigsAssumption
<1>2. /\ c.ctu \in {32, 64, 128} /\ c.minCu \in {4, 8, 16, 32, 64}
      /\ c.width % Larger(8, c.minCu) = 0 /\ c.height % Larger(8, c.minCu) = 0
      /\ c.dual => c.format # "400"
      /\ \A t \in DOMAIN c.limits : AcceptedLimits(c, c.limits[t])
  BY DEF Accepted
<1>3. \A t \in {"luma", "inter", "chroma"} :
         LimitsReady(c, c.limits[t]) /\ c.limits[t].minQt <= c.ctu
  <2> SUFFICES ASSUME NEW t \in {"luma", "inter", "chroma"}
               PROVE  LimitsReady(c, c.limits[t]) /\ c.limits[t].minQt <= c.ctu
    OBVIOUS
  <2> DEFINE lim == c.limits[t]
  <2>1. lim \in SplitLimits /\ AcceptedLimits(c, lim)
    BY <1>1, <1>2
  <2> HIDE DEF lim
  <2>2. /\ lim.minQt \in Nat /\ lim.maxBt \in Nat /\ lim.maxTt \in Nat /\ lim.maxMtt \in Nat
    BY <2>1 DEF SplitLimits
  <2>3. c.minCu <= lim.minQt /\ lim.minQt <= c.ctu
    BY <2>1 DEF AcceptedLimits
  <2> QED BY <2>2, <2>3 DEF LimitsReady, lim
<1>4. LimitsReady(c, Limits(c, "luma")) /\ LimitsReady(c, Limits(c, "chroma"))
  BY <1>3 DEF Limits
<1>5. c.minCu <= c.ctu
  <2>1. /\ c.minCu <= c.limits["luma"].minQt /\ c.limits["luma"].minQt <= c.ctu
        /\ c.limits["luma"].minQt \in Nat
    BY <1>3 DEF LimitsReady
  <2> QED BY <1>1, <1>2, <2>1
<1>6. c.minCu \in UnitSides
  BY <1>2 DEF UnitSides
<1>7. c.width % 8 = 0 /\ c.width % c.minCu = 0 /\ c.height % 8 = 0 /\ c.height % c.minCu = 0
  BY <1>1, <1>2, <1>6, EightOrUnit
<1> QED BY <1>1, <1>2, <1>4, <1>5, <1>6, <1>7 DEF Ready, Sized

\* A block that is crossed is longer than the units that fit into the picture.
LEMMA GridStep ==
    ASSUME NEW n \in Sides, NEW v \in Nat, NEW t \in Nat, v % n = 0, t % n = 0, v < t
    PROVE  v + n <= t
<1>1. CASE n = 4
  BY <1>1
<1>2. CASE n = 8
  BY <1>2
<1>3. CASE n = 16
  BY <1>3
<1>4. CASE n = 32
  BY <1>4
<1>5. CASE n = 64
  BY <1>5
<1>6. CASE n = 128
  BY <1>6
<1> QED BY <1>1, <1>2, <1>3, <1>4, <1>5, <1>6 DEF Sides, UnitSides

LEMMA SmallerUnit ==
    ASSUME NEW m \in UnitSides, NEW n \in Sides, n <= m, NEW t \in Nat, t % m = 0
    PROVE  t % n = 0
<1>1. CASE m = 4
  BY <1>1 DEF Sides, UnitSides
<1>2. CASE m = 8
  BY <1>2 DEF Sides, UnitSides
<1>3. CASE m = 16
  BY <1>3 DEF Sides, UnitSides
<1>4. CASE m = 32
  BY <1>4 DEF Sides, UnitSides
<1>5. CASE m = 64
  BY <1>5 DEF Sides, UnitSides
<1> QED BY <1>1, <1>2, <1>3, <1>4, <1>5 DEF UnitSides

LEMMA CrossedSide ==
    ASSUME NEW m \in UnitSides, NEW n \in Sides, NEW v \in Nat, NEW t \in Nat, v % n = 0,
           t % 8 = 0, t % m = 0, v < t, t < v + n
    PROVE  16 <= n /\ 2 * m <= n
<1>1. t % n # 0
  <2>1. n \in Nat
    BY SideHalves
  <2> QED BY <2>1, GridStep
<1>2. ~(n <= 8) /\ ~(n <= m)
  <2>1. 8 \in UnitSides
    BY DEF UnitSides
  <2> QED BY <1>1, <2>1, SmallerUnit
<1> QED BY <1>2 DEF Sides, UnitSides

LEMMA CutSides ==
    ASSUME NEW c, Sized(c), NEW a, OnGrid(c, a), InPicture(c, a), Dyadic(a)
    PROVE  /\ ~HasBottomLeft(c, a) => 16 <= a.h /\ 2 * c.minCu <= a.h
           /\ ~HasTopRight(c, a) => 16 <= a.w /\ 2 * c.minCu <= a.w
<1>1. /\ a.x \in Nat /\ a.y \in Nat /\ a.w \in Sides /\ a.h \in Sides /\ c.minCu \in UnitSides
      /\ a.w \in Nat /\ a.h \in Nat
  BY BlockSides
<1>2. /\ c.width \in Nat /\ c.height \in Nat /\ c.width % 8 = 0 /\ c.width % c.minCu = 0
      /\ c.height % 8 = 0 /\ c.height % c.minCu = 0
  BY DEF Sized
<1>3. a.x % a.w = 0 /\ a.y % a.h = 0 /\ a.x < c.width /\ a.y < c.height
  BY DEF Dyadic, InPicture
<1>4. ASSUME ~HasBottomLeft(c, a) PROVE 16 <= a.h /\ 2 * c.minCu <= a.h
  <2>1. c.height < a.y + a.h
    BY <1>1, <1>2, <1>4 DEF HasBottomLeft
  <2> QED BY <1>1, <1>2, <1>3, <2>1, CrossedSide
<1>5. ASSUME ~HasTopRight(c, a) PROVE 16 <= a.w /\ 2 * c.minCu <= a.w
  <2>1. c.width < a.x + a.w
    BY <1>1, <1>2, <1>5 DEF HasTopRight
  <2> QED BY <1>1, <1>2, <1>3, <2>1, CrossedSide
<1> QED BY <1>4, <1>5
-----------------------------------------------------------------------------
\* Where a partitioner stands.
Stands(c, q) ==
    Ready(c) /\ q \in Partition /\ PathInv(q) /\ Geo(c, Limits(c, q.chType), q.levels)

LEMMA LevelOf ==
    ASSUME NEW c, NEW q, Stands(c, q)
    PROVE  /\ PathOf(q, Front(q.levels), Level(q)) /\ PathEnd(q, Front(q.levels), Level(q))
           /\ LevelGeo(c, Limits(c, q.chType), Front(q.levels), Level(q))
           /\ Geo(c, Limits(c, q.chType), Front(q.levels))
           /\ currArea(q) = Cur(Level(q))
           /\ Level(q).idx + 1 \in DOMAIN Level(q).parts
           /\ OnGrid(c, currArea(q))
<1> DEFINE s == Front(q.levels)
           l == Level(q)
           lim == Limits(c, q.chType)
<1>1. PathOf(q, s, l) /\ PathEnd(q, s, l)
  BY PathEnds DEF Stands
<1>2. currArea(q) = Cur(l)
  BY Zenon DEF currArea, Cur
<1>3. s \in Seq(PathLevel) /\ l \in PathLevel /\ q.levels = Append(s, l)
  BY <1>1 DEF PathOf
<1>4. Geo(c, lim, q.levels)
  BY DEF Stands
<1> HIDE DEF s, l, lim
<1>5. LevelGeo(c, lim, s, l) /\ Geo(c, lim, s)
  BY <1>3, <1>4, GeoAppend
<1>6. l.idx + 1 \in DOMAIN l.parts
  <2>1. l.parts \in Seq(Areas) /\ l.idx \in Nat /\ l.idx < Len(l.parts)
    BY <1>1, <1>3 DEF PathLevel, PathEnd, LevelSound
  <2> QED BY <2>1
<1>7. OnGrid(c, Cur(l))
  BY <1>5, <1>6, Zenon DEF LevelGeo, Laid, Cur
<1> QED BY <1>1, <1>2, <1>5, <1>6, <1>7 DEF s, l, lim

LEMMA PlusFields ==
    ASSUME NEW q, NEW t \in Tallies, NEW l, NEW f, CountsOf(q) = Plus(t, l, f)
    PROVE  /\ q.mt = t.mt + (IF l.split \in Btt THEN 1 ELSE 0)
           /\ q.bt = t.bt + (IF l.split \in Btt THEN TakenBy(l) ELSE 0)
           /\ q.implicitBt = t.implicitBt + (IF l.split \in Btt /\ f THEN 1 ELSE 0)
           /\ q.qt = t.qt + (IF l.split = "qt" THEN 1 ELSE 0)
           /\ l.split \in Btt => TakenBy(l) \in 1..2
<1>1. TakenBy(l) = 0 \/ TakenBy(l) = 1 \/ TakenBy(l) = 2
  BY DEF TakenBy
<1>2. l.split \in Btt => TakenBy(l) \in 1..2
  BY DEF TakenBy, Btt, Bt, Tt
<1> QED BY <1>2 DEF CountsOf, Plus

LEMMA DepthsOf ==
    ASSUME NEW c, NEW q, Stands(c, q)
    PROVE  /\ Level(q).split \notin Btt => /\ q.mt = 0 /\ q.bt = 0
                                           /\ currArea(q).w = currArea(q).h
           /\ Level(q).split \in Btt => 0 < q.mt
           /\ q.mt \in Nat /\ q.bt \in Nat /\ q.mt <= q.bt /\ q.qt \in Nat
           /\ Level(q).split = "qt" => 0 < q.qt
           /\ Level(q).split \in Btt => TakenBy(Level(q)) <= q.bt
           /\ Cut(c, currArea(q)) =>
                 /\ CutSound(c, Limits(c, q.chType), Front(q.levels), Level(q).split, currArea(q))
                 /\ q.mt = q.implicitBt
<1> DEFINE s == Front(q.levels)
           l == Level(q)
           lim == Limits(c, q.chType)
           t == Tally(s)
           a == currArea(q)
<1>1. /\ PathOf(q, s, l) /\ PathEnd(q, s, l) /\ LevelGeo(c, lim, s, l) /\ a = Cur(l)
      /\ l.idx + 1 \in DOMAIN l.parts
  BY LevelOf
<1>2. t \in Tallies /\ CountsOf(q) = Plus(t, l, Forced(s)) /\ (l.split = "ctu" <=> s = <<>>)
  BY <1>1 DEF PathEnd
<1>3. Depths(c, s, l) /\ Edges(c, lim, s, l)
  BY <1>1 DEF LevelGeo
<1>4. a = l.parts[l.idx + 1]
  BY <1>1 DEF Cur
<1> HIDE DEF s, l, lim, a
<1>5. /\ t.qt \in Nat /\ t.mt \in Nat /\ t.mt <= t.bt /\ t.bt \in Int /\ t.implicitBt \in Int
      /\ l.split \notin Btt => /\ t.mt = 0 /\ t.bt = 0 /\ a.w = a.h
  BY <1>1, <1>2, <1>3, <1>4 DEF Depths, Tallies
<1>6. Cut(c, a) => CutSound(c, lim, s, l.split, a)
  BY <1>1, <1>3, <1>4, Zenon DEF Edges
<1>7. Cut(c, a) => t.mt = t.implicitBt /\ (l.split \in Btt => Forced(s))
  <2>1. l.split \in Btt => s # <<>>
    BY <1>2, NotMulti
  <2> QED BY <1>6, <2>1 DEF CutSound, Forced
<1> HIDE DEF t
<1>8. /\ q.mt = t.mt + (IF l.split \in Btt THEN 1 ELSE 0)
      /\ q.bt = t.bt + (IF l.split \in Btt THEN TakenBy(l) ELSE 0)
      /\ q.implicitBt = t.implicitBt + (IF l.split \in Btt /\ Forced(s) THEN 1 ELSE 0)
      /\ q.qt = t.qt + (IF l.split = "qt" THEN 1 ELSE 0)
      /\ l.split \in Btt => TakenBy(l) \in 1..2
  BY <1>2, PlusFields
<1>9. CASE l.split \in Btt
  <2>1. q.mt = t.mt + 1 /\ q.bt = t.bt + TakenBy(l) /\ TakenBy(l) \in 1..2 /\ l.split # "qt" /\ q.qt = t.qt
    BY <1>5, <1>8, <1>9, SplitKinds
  <2>2. Cut(c, a) => q.implicitBt = t.implicitBt + 1 /\ t.mt = t.implicitBt
    BY <1>7, <1>8, <1>9
  <2>3. /\ 0 < q.mt /\ q.mt \in Nat /\ q.bt \in Nat /\ q.mt <= q.bt /\ q.qt \in Nat
        /\ TakenBy(l) <= q.bt
    BY <1>5, <2>1
  <2>4. Cut(c, a) => q.mt = q.implicitBt
    BY <1>5, <2>1, <2>2
  <2> QED BY <1>6, <1>9, <2>1, <2>3, <2>4 DEF s, l, lim, a
<1>10. CASE l.split \notin Btt
  <2>1. q.mt = t.mt /\ q.bt = t.bt /\ q.implicitBt = t.implicitBt /\ q.mt = 0 /\ q.bt = 0
    BY <1>5, <1>8, <1>10
  <2>2. q.qt \in Nat /\ (l.split = "qt" => 0 < q.qt)
    BY <1>5, <1>8
  <2> QED BY <1>5, <1>6, <1>7, <1>10, <2>1, <2>2 DEF s, l, lim, a
<1> QED BY <1>9, <1>10
-----------------------------------------------------------------------------
\* A block that may be divided.
Divides(c, q) ==
    Stands(c, q) /\ InPicture(c, currArea(q)) /\ Level(q).implicit = "unknown" /\ q.treeType # "C"

HalvesForced(c, q) ==
    LET a == currArea(q)
        lim == Limits(c, q.chType)
    IN  Cut(c, a) /\ a.w <= lim.maxBt /\ a.h <= lim.maxBt /\ 0 < lim.maxMtt
QuartersForced(c, q) ==
    LET a == currArea(q) IN
    /\ q.mt = 0 /\ q.bt = 0 /\ a.w = a.h /\ 2 * c.minCu <= a.w
    /\ 16 <= a.w /\ Level(q).split \notin Btt

LEMMA AreaOf ==
    ASSUME NEW c, NEW q, Stands(c, q)
    PROVE  LET a == currArea(q)
               lim == Limits(c, q.chType)
           IN  /\ Sized(c) /\ OnGrid(c, a) /\ a \in Areas
               /\ a.w \in Sides /\ a.h \in Sides /\ a.w \in Nat /\ a.h \in Nat
               /\ c.minCu \in UnitSides /\ c.minCu \in Nat /\ c.minCu <= a.w /\ c.minCu <= a.h
               /\ LimitsReady(c, lim)
               /\ q.mt \in Nat /\ q.bt \in Nat /\ q.implicitBt \in Int
<1>1. Sized(c) /\ LimitsReady(c, Limits(c, "luma")) /\ LimitsReady(c, Limits(c, "chroma"))
  BY DEF Stands, Ready
<1>2. OnGrid(c, currArea(q))
  BY LevelOf
<1>3. q.chType \in {"luma", "chroma"} /\ q.implicitBt \in Int
  BY DEF Stands, Partition
<1>4. q.mt \in Nat /\ q.bt \in Nat
  BY DepthsOf
<1>5. LimitsReady(c, Limits(c, q.chType))
  BY <1>1, <1>3
<1> DEFINE a == currArea(q)
<1> HIDE DEF a
<1>6. /\ a \in Areas /\ a.w \in Sides /\ a.h \in Sides /\ a.w \in Nat /\ a.h \in Nat
      /\ c.minCu \in UnitSides /\ c.minCu \in Nat /\ c.minCu <= a.w /\ c.minCu <= a.h
  BY <1>1, <1>2, BlockSides DEF a
<1> QED BY <1>1, <1>2, <1>3, <1>4, <1>5, <1>6 DEF a

LEMMA CutAt ==
    ASSUME NEW c, NEW q, Stands(c, q), InPicture(c, currArea(q))
    PROVE  LET a == currArea(q) IN
           /\ ~HasBottomLeft(c, a) \/ ~HasTopRight(c, a) => Cut(c, a)
           /\ ~HasBottomLeft(c, a) => 16 <= a.h /\ 2 * c.minCu <= a.h
           /\ ~HasTopRight(c, a) => 16 <= a.w /\ 2 * c.minCu <= a.w
<1> DEFINE a == currArea(q)
<1>1. Sized(c) /\ OnGrid(c, a)
  BY AreaOf
<1>2. ~HasBottomLeft(c, a) \/ ~HasTopRight(c, a) => Cut(c, a)
  BY DEF Cut
<1>3. Cut(c, a) => Dyadic(a)
  BY DepthsOf DEF CutSound
<1>4. Cut(c, a) => /\ ~HasBottomLeft(c, a) => 16 <= a.h /\ 2 * c.minCu <= a.h
                   /\ ~HasTopRight(c, a) => 16 <= a.w /\ 2 * c.minCu <= a.w
  BY <1>1, <1>3, CutSides
<1> QED BY <1>2, <1>4

LEMMA ForcedFacts ==
    ASSUME NEW c, NEW q, Divides(c, q)
    PROVE  LET a == currArea(q)
               f == ForcedSplit(c, q)
           IN  /\ f \in {"no", "qt", "bh", "bv"}
               /\ f = "no" => HasBottomLeft(c, a) /\ HasTopRight(c, a)
               /\ f = "bh" => HalvesForced(c, q) /\ 16 <= a.h /\ 2 * c.minCu <= a.h /\ a.w <= 64
               /\ f = "bv" => HalvesForced(c, q) /\ 16 <= a.w /\ 2 * c.minCu <= a.w /\ a.h <= 64
               /\ f = "qt" => QuartersForced(c, q)
               /\ isDualITree(c) /\ (64 < a.w \/ 64 < a.h) => f = "qt"
<1> DEFINE a == currArea(q)
           lim == Limits(c, q.chType)
           bl == HasBottomLeft(c, a)
           tr == HasTopRight(c, a)
           large == isDualITree(c) /\ Larger(a.w, a.h) > 64
           bt == Larger(a.w, a.h) <= lim.maxBt /\ Shallow(c, q)
           qt == a.w > lim.minQt /\ a.h > lim.minQt /\ q.bt = 0
           f == ForcedSplit(c, q)
           l == Level(q)
<1>0. Stands(c, q) /\ InPicture(c, a)
  BY DEF Divides
<1>1. f = IF large THEN "qt"
          ELSE IF ~bl /\ ~tr /\ qt THEN "qt"
          ELSE IF ~bl /\ bt /\ a.w <= 64 THEN "bh"
          ELSE IF ~tr /\ bt /\ a.h <= 64 THEN "bv"
          ELSE IF ~bl \/ ~tr THEN "qt"
          ELSE "no"
  BY Zenon DEF ForcedSplit, MaxTb
<1>2. /\ a.w \in Sides /\ a.h \in Sides /\ a.w \in Nat /\ a.h \in Nat
      /\ c.minCu \in UnitSides /\ c.minCu \in Nat /\ c.minCu <= a.w /\ c.minCu <= a.h
      /\ LimitsReady(c, lim) /\ q.mt \in Nat /\ q.bt \in Nat /\ q.implicitBt \in Int
  BY <1>0, AreaOf
<1>3. /\ ~bl \/ ~tr => Cut(c, a)
      /\ ~bl => 16 <= a.h /\ 2 * c.minCu <= a.h
      /\ ~tr => 16 <= a.w /\ 2 * c.minCu <= a.w
  BY <1>0, CutAt
<1>4. /\ l.split \notin Btt => q.mt = 0 /\ q.bt = 0 /\ a.w = a.h
      /\ l.split \in Btt => 0 < q.mt
      /\ q.mt <= q.bt
      /\ Cut(c, a) => CutSound(c, lim, Front(q.levels), l.split, a) /\ q.mt = q.implicitBt
  BY <1>0, DepthsOf
<1>5. large => l.split \notin Btt
  <2>1. PathEnd(q, Front(q.levels), l) /\ LevelGeo(c, lim, Front(q.levels), l) /\ l.idx + 1 \in DOMAIN l.parts
    BY <1>0, LevelOf
  <2>2. a = l.parts[l.idx + 1]
    BY Zenon DEF currArea
  <2>3. Front(q.levels) # <<>> /\ isDualITree(c) => a.w <= 64 /\ a.h <= 64
    BY <2>1, <2>2, Zenon DEF LevelGeo, Depths
  <2>4. Larger(a.w, a.h) > 64 => ~(a.w <= 64 /\ a.h <= 64)
    BY <1>2 DEF Larger
  <2>5. large => l.split = "ctu"
    BY <2>1, <2>3, <2>4, Zenon DEF PathEnd
  <2> QED BY <2>5, NotMulti
<1>6. /\ Larger(a.w, a.h) <= lim.maxBt <=> a.w <= lim.maxBt /\ a.h <= lim.maxBt
      /\ Larger(a.w, a.h) > 64 <=> 64 < a.w \/ 64 < a.h
  BY <1>2 DEF Larger, LimitsReady
<1>7. Cut(c, a) => (Shallow(c, q) <=> 0 < lim.maxMtt)
  <2>1. Shallow(c, q) <=> q.mt < lim.maxMtt + q.implicitBt
    BY Zenon DEF Shallow
  <2>2. lim.maxMtt \in Nat
    BY <1>2 DEF LimitsReady
  <2> QED BY <1>2, <1>4, <2>1, <2>2
<1>8. Cut(c, a) /\ l.split \in Btt => a.w <= 64 /\ a.h <= 64 /\ bt
  <2>1. Cut(c, a) /\ l.split \in Btt => /\ a.w <= 64 /\ a.h <= 64 /\ 0 < lim.maxMtt
                                        /\ a.w <= lim.maxBt /\ a.h <= lim.maxBt
    BY <1>4 DEF CutSound
  <2> QED BY <1>6, <1>7, <2>1, Zenon
<1>9. bt /\ Cut(c, a) => HalvesForced(c, q)
  BY <1>6, <1>7, Zenon DEF HalvesForced
<1>10. large => QuartersForced(c, q)
  <2>1. large => a.w = a.h /\ q.mt = 0 /\ q.bt = 0 /\ (64 < a.w \/ 64 < a.h) /\ l.split \notin Btt
    BY <1>4, <1>5, <1>6
  <2>2. large => a.w = 128
    BY <1>2, <2>1 DEF Sides, UnitSides
  <2>3. large => 2 * c.minCu <= a.w /\ 16 <= a.w
    BY <1>2, <2>2 DEF UnitSides
  <2> HIDE DEF large, a
  <2> QED BY <2>1, <2>3, Zenon DEF QuartersForced, l, a
<1>11. ~bl /\ ~tr /\ qt => QuartersForced(c, q)
  <2>1. q.bt = 0 => q.mt = 0 /\ l.split \notin Btt
    BY <1>2, <1>4
  <2> QED BY <1>3, <1>4, <2>1, Zenon DEF QuartersForced
<1>12. l.split \notin Btt /\ (~bl \/ ~tr) => QuartersForced(c, q)
  BY <1>3, <1>4 DEF QuartersForced
<1>13. l.split \in Btt /\ ~bl => bt /\ a.w <= 64
  BY <1>3, <1>8
<1>14. l.split \in Btt /\ ~tr => bt /\ a.h <= 64
  BY <1>3, <1>8
<1> HIDE DEF bt, qt, bl, tr, large, f, l, a, lim
<1>15. /\ f \in {"no", "qt", "bh", "bv"}
       /\ f = "no" => bl /\ tr
       /\ f = "bh" => ~bl /\ bt /\ a.w <= 64
       /\ f = "bv" => ~tr /\ bt /\ a.h <= 64
       /\ f = "qt" => \/ large \/ (~bl /\ ~tr /\ qt)
                      \/ (~bl \/ ~tr) /\ ~(~bl /\ bt /\ a.w <= 64) /\ ~(~tr /\ bt /\ a.h <= 64)
       /\ large => f = "qt"
  BY <1>1
<1>16. f = "qt" => QuartersForced(c, q)
  BY <1>10, <1>11, <1>12, <1>13, <1>14, <1>15
<1>17. isDualITree(c) /\ (64 < a.w \/ 64 < a.h) => large
  BY <1>6 DEF large
<1> QED BY <1>3, <1>9, <1>15, <1>16, <1>17 DEF bl, tr, f, a
-----------------------------------------------------------------------------
\* What a split that may be chosen does to the block.
SplitSound(c, q, split) ==
    LET a == currArea(q) IN
    /\ MaySplit(c, q, split) /\ Fits(c, a, split)
    /\ split = "qt" => q.mt = 0 /\ q.bt = 0 /\ a.w = a.h
    /\ split \in Bt => ~(64 < Kept(split, a) /\ Divided(split, a) <= 64)
    /\ split \in Tt => a.w <= 64 /\ a.h <= 64
    /\ isDualITree(c) => split = "qt" \/ (a.w <= 64 /\ a.h <= 64)
    /\ Cut(c, a) => /\ getImplicitSplit(c, q) # "no" /\ split \notin Tt
                    /\ split \in Bt => /\ HalvesForced(c, q) /\ Kept(split, a) <= 64
                                       /\ 16 <= Divided(split, a)
                    /\ split = "qt" => 16 <= a.w

LEMMA SidesOf ==
    ASSUME NEW a, a.w \in Sides, a.h \in Sides, NEW split
    PROVE  Divided(split, a) \in Sides /\ Kept(split, a) \in Sides
BY DEF Divided, Kept

LEMMA SplitIsOne == \A split \in Splits \ {"no"} :
    \/ split = "qt" /\ split \notin Bt /\ split \notin Tt
    \/ split \in Bt /\ split # "qt" /\ split \notin Tt
    \/ split \in Tt /\ split # "qt" /\ split \notin Bt
BY DEF Splits, Btt, Bt, Tt

\* In four, because that is allowed or forced.
LEMMA QtChosen ==
    ASSUME NEW c, NEW q, Divides(c, q), QtAllowed(c, q) \/ QuartersForced(c, q)
    PROVE  LET a == currArea(q) IN
           /\ q.mt = 0 /\ q.bt = 0 /\ a.w = a.h /\ 2 * c.minCu <= a.w
           /\ Cut(c, a) => 16 <= a.w
<1> DEFINE a == currArea(q)
<1>0. Stands(c, q) /\ InPicture(c, a)
  BY DEF Divides
<1>1. CASE QtAllowed(c, q)
  <2>1. Level(q).split \notin Btt /\ a.w > Limits(c, q.chType).minQt
    BY <1>1, SplitKinds DEF QtAllowed
  <2>2. q.mt = 0 /\ q.bt = 0 /\ a.w = a.h
    BY <1>0, <2>1, DepthsOf
  <2>3. /\ a.w \in Sides /\ a.w \in Nat /\ a.h \in Nat /\ c.minCu \in UnitSides /\ c.minCu \in Nat
        /\ LimitsReady(c, Limits(c, q.chType))
    BY <1>0, AreaOf
  <2>4. c.minCu < a.w
    BY <2>1, <2>3 DEF LimitsReady
  <2>5. 2 * c.minCu <= a.w
    BY <2>3, <2>4, SideHalves
  <2>6. Cut(c, a) => 16 <= a.w
    BY <1>0, <2>2, CutAt DEF Cut
  <2> QED BY <2>2, <2>5, <2>6
<1>2. CASE QuartersForced(c, q)
  BY <1>2 DEF QuartersForced
<1> QED BY <1>1, <1>2

LEMMA FourFit ==
    ASSUME NEW c, NEW q, Divides(c, q), "qt" \in canSplit(c, q), QtAllowed(c, q) \/ QuartersForced(c, q),
           Cut(c, currArea(q)) => getImplicitSplit(c, q) # "no"
    PROVE  SplitSound(c, q, "qt")
<1> DEFINE a == currArea(q)
<1>1. /\ q.mt = 0 /\ q.bt = 0 /\ a.w = a.h /\ 2 * c.minCu <= a.w
      /\ Cut(c, a) => 16 <= a.w
  BY QtChosen
<1>2. Fits(c, a, "qt")
  BY <1>1, SplitKinds DEF Fits, Btt, Bt, Tt
<1>3. Sized(c) /\ OnGrid(c, a)
  BY AreaOf DEF Divides
<1>4. "qt" \in Splits \ {"no"} /\ "qt" \notin Bt /\ "qt" \notin Tt
  BY DEF Splits, Btt, Bt, Tt
<1>5. \A i \in DOMAIN Parts(a, "qt") : OnGrid(c, Parts(a, "qt")[i])
  BY <1>2, <1>3, <1>4, PartsSplit DEF SplitInto
<1>6. \A i \in DOMAIN Parts(a, "qt") : Parts(a, "qt")[i].w >= MinTb /\ Parts(a, "qt")[i].h >= MinTb
  BY <1>5 DEF OnGrid, MinTb, Sides, UnitSides
<1>7. MaySplit(c, q, "qt")
  BY <1>1, <1>6, Zenon DEF MaySplit
<1> QED BY <1>1, <1>2, <1>4, <1>7, Zenon DEF SplitSound

\* In two or three.
LEMMA OthersFit ==
    ASSUME NEW c, NEW q, Divides(c, q), NEW split \in canSplit(c, q), split \in Btt,
           Fits(c, currArea(q), split)
    PROVE  MaySplit(c, q, split)
<1> DEFINE a == currArea(q)
<1>1. Sized(c) /\ OnGrid(c, a)
  BY AreaOf DEF Divides
<1>2. split \in Splits \ {"no"} /\ split # "qt"
  BY SplitKinds DEF Splits
<1>3. \A i \in DOMAIN Parts(a, split) : OnGrid(c, Parts(a, split)[i])
  BY <1>1, <1>2, PartsSplit DEF SplitInto
<1>4. \A i \in DOMAIN Parts(a, split) : Parts(a, split)[i].w >= MinTb /\ Parts(a, split)[i].h >= MinTb
  BY <1>3 DEF OnGrid, MinTb, Sides, UnitSides
<1> QED BY <1>2, <1>4, Zenon DEF MaySplit

\* A split in two that the boundary forces.
LEMMA ForcedFit ==
    ASSUME NEW c, NEW q, Divides(c, q), NEW split \in canSplit(c, q), split \in Bt,
           ForcedSplit(c, q) = split, getImplicitSplit(c, q) = split
    PROVE  SplitSound(c, q, split)
<1> DEFINE a == currArea(q)
           f == ForcedSplit(c, q)
<1>1. /\ f = "bh" => HalvesForced(c, q) /\ 16 <= a.h /\ 2 * c.minCu <= a.h /\ a.w <= 64
      /\ f = "bv" => HalvesForced(c, q) /\ 16 <= a.w /\ 2 * c.minCu <= a.w /\ a.h <= 64
      /\ isDualITree(c) /\ (64 < a.w \/ 64 < a.h) => f = "qt"
  BY ForcedFacts
<1>2. a.w \in Nat /\ a.h \in Nat
  BY AreaOf DEF Divides
<1>3. split \notin Tt /\ split # "qt" /\ split # "no" /\ split \in Btt /\ (split = "bh" \/ split = "bv")
  BY DEF Bt, Tt, Btt
<1> HIDE DEF a, f
<1>4. HalvesForced(c, q) /\ 16 <= Divided(split, a) /\ 2 * c.minCu <= Divided(split, a) /\ Kept(split, a) <= 64
  <2>1. CASE split = "bh"
    BY <1>1, <2>1 DEF Divided, Kept, f
  <2>2. CASE split = "bv"
    BY <1>1, <2>2 DEF Divided, Kept, f
  <2> QED BY <1>3, <2>1, <2>2
<1>5. Fits(c, a, split)
  BY <1>3, <1>4 DEF Fits
<1>6. MaySplit(c, q, split)
  BY <1>3, <1>5, OthersFit DEF a
<1>7. ~(64 < Kept(split, a) /\ Divided(split, a) <= 64)
  <2>1. Kept(split, a) \in Nat
    BY <1>2 DEF Kept
  <2> QED BY <1>4, <2>1
<1>8. isDualITree(c) => a.w <= 64 /\ a.h <= 64
  BY <1>1, <1>2, <1>3 DEF f
<1> QED BY <1>3, <1>4, <1>5, <1>6, <1>7, <1>8, Zenon DEF SplitSound, a

LEMMA ChosenSound ==
    ASSUME NEW c, NEW q, Divides(c, q), NEW split \in canSplit(c, q), split # "no"
    PROVE  SplitSound(c, q, split)
<1> DEFINE a == currArea(q)
           f == ForcedSplit(c, q)
           lim == Limits(c, q.chType)
<1>1. getImplicitSplit(c, q) = f /\ q.treeType # "C"
  BY DEF getImplicitSplit, Divides
<1>2. /\ f \in {"no", "qt", "bh", "bv"}
      /\ f = "no" => HasBottomLeft(c, a) /\ HasTopRight(c, a)
      /\ f = "bv" => 16 <= a.w
      /\ f = "qt" => QuartersForced(c, q)
      /\ isDualITree(c) /\ (64 < a.w \/ 64 < a.h) => f = "qt"
  BY ForcedFacts
<1>3. /\ a.w \in Sides /\ a.h \in Sides /\ a.w \in Nat /\ a.h \in Nat
      /\ c.minCu \in UnitSides /\ c.minCu \in Nat
  BY AreaOf DEF Divides
<1>4. Cut(c, a) => f # "no"
  BY <1>2 DEF Cut
<1>5. CASE f # "no"
  <2>1. split \in ImplicitChoice(c, q, f)
    BY <1>1, <1>5, Zenon DEF canSplit
  <2>2. CASE split = "qt"
    <3>1. QtAllowed(c, q) \/ f \notin Bt \/ (f = "bv" /\ ChromaWidth(c, a) = 4)
      BY <1>2, <2>1, <2>2 DEF ImplicitChoice, Bt
    <3>2. f = "bv" => ChromaWidth(c, a) # 4
      BY <1>2, <1>3 DEF ChromaWidth, ScaleX
    <3>3. f \notin Bt => f = "qt"
      BY <1>2, <1>5 DEF Bt
    <3>4. QtAllowed(c, q) \/ QuartersForced(c, q)
      BY <1>2, <3>1, <3>2, <3>3
    <3> QED BY <1>1, <1>4, <2>2, <3>4, FourFit
  <2>3. CASE split # "qt"
    <3>1. split = f /\ split \in Bt
      BY <2>1, <2>3 DEF ImplicitChoice, Bt
    <3> QED BY <1>1, <3>1, ForcedFit
  <2> QED BY <2>2, <2>3
<1>6. CASE f = "no"
  <2>1. \/ split = "qt" /\ QtAllowed(c, q)
        \/ split \in Bt /\ BtAllowed(c, q, split)
        \/ split \in Tt /\ TtAllowed(c, q, split)
    BY <1>1, <1>6 DEF canSplit
  <2>2. ~Cut(c, a)
    BY <1>4, <1>6
  <2>3. isDualITree(c) => a.w <= 64 /\ a.h <= 64
    BY <1>2, <1>3, <1>6
  <2>4. CASE split = "qt" /\ QtAllowed(c, q)
    BY <2>2, <2>4, FourFit
  <2>5. Divided(split, a) \in Sides /\ Kept(split, a) \in Sides
    BY <1>3, SidesOf
  <2>6. CASE split \in Bt /\ BtAllowed(c, q, split)
    <3>1. Divided(split, a) > c.minCu /\ ~(Kept(split, a) > 64 /\ Divided(split, a) <= 64)
      BY <2>6 DEF BtAllowed, DividesAlong64, MaxTb
    <3>2. Divided(split, a) >= 2 * c.minCu
      BY <1>3, <2>5, <3>1, SideHalves
    <3>3. split \notin Tt /\ split # "qt" /\ split \in Btt
      BY <2>6 DEF Bt, Tt, Btt
    <3>4. Fits(c, a, split)
      BY <3>2, <3>3 DEF Fits
    <3>5. MaySplit(c, q, split)
      BY <3>3, <3>4, OthersFit
    <3>6. ~(64 < Kept(split, a) /\ Divided(split, a) <= 64)
      <4>1. Kept(split, a) \in Nat
        BY <2>5, SideHalves
      <4> QED BY <3>1, <4>1
    <3> QED BY <2>2, <2>3, <3>3, <3>4, <3>5, <3>6, Zenon DEF SplitSound
  <2>7. CASE split \in Tt /\ TtAllowed(c, q, split)
    <3>1. Divided(split, a) > 2 * c.minCu /\ Larger(a.w, a.h) <= 64
      BY <2>7 DEF TtAllowed, MaxTb
    <3>2. Divided(split, a) >= 4 * c.minCu
      BY <1>3, <2>5, <3>1, SideHalves
    <3>3. split \notin Bt /\ split # "qt" /\ split \in Btt
      BY <2>7 DEF Bt, Tt, Btt
    <3>4. Fits(c, a, split)
      BY <3>2, <3>3 DEF Fits
    <3>5. MaySplit(c, q, split)
      BY <3>3, <3>4, OthersFit
    <3>6. a.w <= 64 /\ a.h <= 64
      BY <1>3, <3>1 DEF Larger
    <3> QED BY <2>2, <2>3, <3>3, <3>4, <3>5, <3>6, Zenon DEF SplitSound
  <2> QED BY <2>1, <2>4, <2>6, <2>7
<1> QED BY <1>5, <1>6
-----------------------------------------------------------------------------
(* The places of the parts, in each direction. *)
WholeOf(v, n, x, w) == x = v /\ w = n
HalfOf(v, n, x, w) == w = n \div 2 /\ (x = v \/ x = v + (n \div 2))
ThirdOf(v, n, x, w) ==
    \/ w = n \div 4 /\ (x = v \/ x = v + 3 * (n \div 4))
    \/ w = n \div 2 /\ x = v + (n \div 4)
PartShape(a, split, b) ==
    /\ split \in {"bh", "th"} => WholeOf(a.x, a.w, b.x, b.w)
    /\ split \in {"bv", "tv"} => WholeOf(a.y, a.h, b.y, b.h)
    /\ split \in {"bv", "qt"} => HalfOf(a.x, a.w, b.x, b.w)
    /\ split \in {"bh", "qt"} => HalfOf(a.y, a.h, b.y, b.h)
    /\ split = "tv" => ThirdOf(a.x, a.w, b.x, b.w)
    /\ split = "th" => ThirdOf(a.y, a.h, b.y, b.h)

LEMMA PartsShape ==
    ASSUME NEW a \in Areas, NEW split \in Splits \ {"no"}, NEW i \in 1..PartsIn(split)
    PROVE  PartShape(a, split, Parts(a, split)[i])
<1> DEFINE b == Parts(a, split)[i]
<1>1. HalvesLie(a, split) /\ ThirdsLie(a, split) /\ QuartersLie(a, split)
  BY PartsLie
<1>2. CASE split = "bh"
  <2>1. i = 1 \/ i = 2
    BY <1>2, PartIndexes DEF Bt
  <2>2. b.x = a.x /\ b.w = a.w /\ b.h = a.h \div 2 /\ (b.y = a.y \/ b.y = a.y + (a.h \div 2))
    BY <1>1, <1>2, <2>1 DEF HalvesLie, Lies
  <2> QED BY <1>2, <2>2, Zenon DEF PartShape, WholeOf, HalfOf
<1>3. CASE split = "bv"
  <2>1. i = 1 \/ i = 2
    BY <1>3, PartIndexes DEF Bt
  <2>2. b.y = a.y /\ b.h = a.h /\ b.w = a.w \div 2 /\ (b.x = a.x \/ b.x = a.x + (a.w \div 2))
    BY <1>1, <1>3, <2>1 DEF HalvesLie, Lies
  <2> QED BY <1>3, <2>2, Zenon DEF PartShape, WholeOf, HalfOf
<1>4. CASE split = "th"
  <2>1. i = 1 \/ i = 2 \/ i = 3
    BY <1>4, PartIndexes DEF Tt
  <2>2. b.x = a.x /\ b.w = a.w /\ ThirdOf(a.y, a.h, b.y, b.h)
    BY <1>1, <1>4, <2>1 DEF ThirdsLie, Lies, ThirdOf
  <2> QED BY <1>4, <2>2, Zenon DEF PartShape, WholeOf
<1>5. CASE split = "tv"
  <2>1. i = 1 \/ i = 2 \/ i = 3
    BY <1>5, PartIndexes DEF Tt
  <2>2. b.y = a.y /\ b.h = a.h /\ ThirdOf(a.x, a.w, b.x, b.w)
    BY <1>1, <1>5, <2>1 DEF ThirdsLie, Lies, ThirdOf
  <2> QED BY <1>5, <2>2, Zenon DEF PartShape, WholeOf
<1>6. CASE split = "qt"
  <2>1. i = 1 \/ i = 2 \/ i = 3 \/ i = 4
    BY <1>6, PartIndexes
  <2>2. /\ b.w = a.w \div 2 /\ (b.x = a.x \/ b.x = a.x + (a.w \div 2))
        /\ b.h = a.h \div 2 /\ (b.y = a.y \/ b.y = a.y + (a.h \div 2))
    BY <1>1, <1>6, <2>1 DEF QuartersLie, Lies
  <2> QED BY <1>6, <2>2, Zenon DEF PartShape, HalfOf
<1> QED BY <1>2, <1>3, <1>4, <1>5, <1>6, PartIndexes

LEMMA PartFacts ==
    ASSUME NEW n \in Sides, NEW v \in Nat, NEW x \in Nat, NEW w \in Nat
    PROVE  /\ WholeOf(v, n, x, w) => v <= x /\ x + w <= v + n
           /\ HalfOf(v, n, x, w) /\ 8 <= n => v <= x /\ x + w <= v + n /\ w <= n
           /\ HalfOf(v, n, x, w) /\ 16 <= n => 8 <= w
           /\ HalfOf(v, n, x, w) /\ n <= 128 => w <= 64
           /\ HalfOf(v, n, x, w) /\ 8 <= n /\ v % n = 0 => x % w = 0
           /\ HalfOf(v, n, x, w) /\ n = 128 /\ v % 64 = 0 => w % 64 = 0 /\ x % 64 = 0
           /\ ThirdOf(v, n, x, w) /\ 16 <= n => v <= x /\ x + w <= v + n /\ w <= n
<1>1. \/ n = 4 \/ n = 8 \/ n = 16 \/ n = 32 \/ n = 64 \/ n = 128
  BY DEF Sides, UnitSides
<1>2. WholeOf(v, n, x, w) => v <= x /\ x + w <= v + n
  BY <1>1 DEF WholeOf
<1>3. HalfOf(v, n, x, w) /\ 8 <= n => v <= x /\ x + w <= v + n /\ w <= n
  BY <1>1 DEF HalfOf
<1>4. HalfOf(v, n, x, w) /\ 16 <= n => 8 <= w
  BY <1>1 DEF HalfOf
<1>5. HalfOf(v, n, x, w) /\ n <= 128 => w <= 64
  BY <1>1 DEF HalfOf
<1>6. ASSUME HalfOf(v, n, x, w), 8 <= n, v % n = 0 PROVE x % w = 0
  <2>1. w = n \div 2 /\ (x = v \/ x = v + w)
    BY <1>6 DEF HalfOf
  <2>2. CASE n = 8
    BY <1>6, <2>1, <2>2
  <2>3. CASE n = 16
    BY <1>6, <2>1, <2>3
  <2>4. CASE n = 32
    BY <1>6, <2>1, <2>4
  <2>5. CASE n = 64
    BY <1>6, <2>1, <2>5
  <2>6. CASE n = 128
    BY <1>6, <2>1, <2>6
  <2> QED BY <1>1, <1>6, <2>2, <2>3, <2>4, <2>5, <2>6
<1>7. HalfOf(v, n, x, w) /\ n = 128 /\ v % 64 = 0 => w % 64 = 0 /\ x % 64 = 0
  BY DEF HalfOf
<1>8. ThirdOf(v, n, x, w) /\ 16 <= n => v <= x /\ x + w <= v + n /\ w <= n
  BY <1>1 DEF ThirdOf
<1> QED BY <1>2, <1>3, <1>4, <1>5, <1>6, <1>7, <1>8

\* Sides that a split can cut.
LEMMA FitSides ==
    ASSUME NEW c, Sized(c), NEW a, OnGrid(c, a), NEW split, Fits(c, a, split)
    PROVE  /\ split \in {"bv", "qt"} => 8 <= a.w
           /\ split \in {"bh", "qt"} => 8 <= a.h
           /\ split = "tv" => 16 <= a.w
           /\ split = "th" => 16 <= a.h
<1>1. c.minCu \in UnitSides /\ a.w \in Nat /\ a.h \in Nat
  BY BlockSides
<1>2. c.minCu \in Nat /\ 4 <= c.minCu
  BY <1>1 DEF UnitSides
<1>3. /\ split \in {"bv", "qt"} => 2 * c.minCu <= a.w
      /\ split \in {"bh", "qt"} => 2 * c.minCu <= a.h
      /\ split = "tv" => 4 * c.minCu <= a.w
      /\ split = "th" => 4 * c.minCu <= a.h
  BY <1>1, <1>2 DEF Fits, Bt, Tt, Divided
<1> QED BY <1>1, <1>2, <1>3

LEMMA PartInside ==
    ASSUME NEW c, Sized(c), NEW a, OnGrid(c, a), NEW split \in Splits \ {"no"}, Fits(c, a, split),
           NEW b, OnGrid(c, b), PartShape(a, split, b)
    PROVE  /\ a.x <= b.x /\ b.x + b.w <= a.x + a.w /\ a.y <= b.y /\ b.y + b.h <= a.y + a.h
           /\ b.w <= a.w /\ b.h <= a.h
<1>1. /\ a.x \in Nat /\ a.y \in Nat /\ a.w \in Sides /\ a.h \in Sides /\ a.w \in Nat /\ a.h \in Nat
      /\ b.x \in Nat /\ b.y \in Nat /\ b.w \in Nat /\ b.h \in Nat
  BY BlockSides
<1>2. /\ split \in {"bv", "qt"} => 8 <= a.w
      /\ split \in {"bh", "qt"} => 8 <= a.h
      /\ split = "tv" => 16 <= a.w
      /\ split = "th" => 16 <= a.h
  BY FitSides
<1>3. a.x <= b.x /\ b.x + b.w <= a.x + a.w /\ b.w <= a.w
  <2>1. /\ split \in {"bh", "th"} => WholeOf(a.x, a.w, b.x, b.w)
        /\ split \in {"bv", "qt"} => HalfOf(a.x, a.w, b.x, b.w)
        /\ split = "tv" => ThirdOf(a.x, a.w, b.x, b.w)
    BY DEF PartShape
  <2>2. split \in {"bh", "th"} \/ split \in {"bv", "qt"} \/ split = "tv"
    BY PartIndexes
  <2>3. WholeOf(a.x, a.w, b.x, b.w) => b.w <= a.w
    BY <1>1 DEF WholeOf
  <2> QED BY <1>1, <1>2, <2>1, <2>2, <2>3, PartFacts
<1>4. a.y <= b.y /\ b.y + b.h <= a.y + a.h /\ b.h <= a.h
  <2>1. /\ split \in {"bv", "tv"} => WholeOf(a.y, a.h, b.y, b.h)
        /\ split \in {"bh", "qt"} => HalfOf(a.y, a.h, b.y, b.h)
        /\ split = "th" => ThirdOf(a.y, a.h, b.y, b.h)
    BY DEF PartShape
  <2>2. split \in {"bv", "tv"} \/ split \in {"bh", "qt"} \/ split = "th"
    BY PartIndexes
  <2>3. WholeOf(a.y, a.h, b.y, b.h) => b.h <= a.h
    BY <1>1 DEF WholeOf
  <2> QED BY <1>1, <1>2, <2>1, <2>2, <2>3, PartFacts
<1> QED BY <1>3, <1>4

LEMMA CutInside ==
    ASSUME NEW c, Sized(c), NEW a, OnGrid(c, a), NEW b, OnGrid(c, b), Cut(c, b),
           a.x <= b.x, b.x + b.w <= a.x + a.w, a.y <= b.y, b.y + b.h <= a.y + a.h
    PROVE  Cut(c, a)
<1>1. /\ a.x \in Nat /\ a.y \in Nat /\ a.w \in Nat /\ a.h \in Nat
      /\ b.x \in Nat /\ b.y \in Nat /\ b.w \in Nat /\ b.h \in Nat
      /\ c.width \in Nat /\ c.height \in Nat
  BY BlockSides DEF Sized
<1> QED BY <1>1 DEF Cut, InPicture, HasBottomLeft, HasTopRight
-----------------------------------------------------------------------------
LEMMA HalfFacts ==
    ASSUME NEW n \in Sides, NEW v \in Nat, NEW x \in Nat, NEW w \in Nat, HalfOf(v, n, x, w), 16 <= n
    PROVE  /\ 8 <= w /\ w <= 64
           /\ v % n = 0 => x % w = 0
           /\ n = 128 /\ v % 64 = 0 => w % 64 = 0 /\ x % 64 = 0
<1>1. 8 <= w
  BY PartFacts
<1>2. n \in Nat /\ n <= 128
  BY DEF Sides, UnitSides
<1>3. w <= 64
  BY <1>2, PartFacts
<1>4. v % n = 0 => x % w = 0
  BY <1>2, PartFacts
<1>5. n = 128 /\ v % 64 = 0 => w % 64 = 0 /\ x % 64 = 0
  BY PartFacts
<1> QED BY <1>1, <1>3, <1>4, <1>5

LEMMA ChildCut ==
    ASSUME NEW c, NEW q, Divides(c, q), NEW split \in Splits \ {"no"}, SplitSound(c, q, split),
           NEW b, OnGrid(c, b), PartShape(currArea(q), split, b), Cut(c, b)
    PROVE  /\ Cut(c, currArea(q)) /\ getImplicitSplit(c, q) # "no" /\ q.mt = q.implicitBt
           /\ 8 <= b.w /\ 8 <= b.h /\ Dyadic(b)
           /\ split \in Btt => LET lim == Limits(c, q.chType) IN
                 /\ b.w <= 64 /\ b.h <= 64 /\ 0 < lim.maxMtt
                 /\ b.w <= lim.maxBt /\ b.h <= lim.maxBt
<1> DEFINE a == currArea(q)
           lim == Limits(c, q.chType)
<1>1. /\ Sized(c) /\ OnGrid(c, a) /\ a.w \in Sides /\ a.h \in Sides /\ a.w \in Nat /\ a.h \in Nat
      /\ LimitsReady(c, lim)
  BY AreaOf DEF Divides
<1>2. Fits(c, a, split)
  BY DEF SplitSound
<1>3. /\ a.x <= b.x /\ b.x + b.w <= a.x + a.w /\ a.y <= b.y /\ b.y + b.h <= a.y + a.h
      /\ b.w <= a.w /\ b.h <= a.h
  BY <1>1, <1>2, PartInside
<1>4. Cut(c, a)
  BY <1>1, <1>3, CutInside
<1>5. 8 <= a.w /\ 8 <= a.h /\ Dyadic(a) /\ q.mt = q.implicitBt
  BY <1>4, DepthsOf DEF CutSound, Divides
<1>6. /\ getImplicitSplit(c, q) # "no" /\ split \notin Tt
      /\ split \in Bt => /\ HalvesForced(c, q) /\ Kept(split, a) <= 64 /\ 16 <= Divided(split, a)
      /\ split = "qt" => 16 <= a.w /\ a.w = a.h
  BY <1>4 DEF SplitSound
<1>7. HalvesForced(c, q) => a.w <= lim.maxBt /\ a.h <= lim.maxBt /\ 0 < lim.maxMtt
  BY DEF HalvesForced
<1> HIDE DEF a, lim
<1>8. /\ a.x \in Nat /\ a.y \in Nat /\ b.x \in Nat /\ b.y \in Nat /\ b.w \in Nat /\ b.h \in Nat
      /\ a.w <= 128 /\ a.h <= 128
  BY <1>1, BlockSides DEF Sides, UnitSides
<1>9. a.x % a.w = 0 /\ a.y % a.h = 0
  BY <1>5 DEF Dyadic
<1>10. lim.maxBt \in Nat
  BY <1>1 DEF LimitsReady
<1>11. split \in {"bh", "bv", "qt"}
  BY <1>6, PartIndexes DEF Tt
<1>12. CASE split = "bh"
  <2>1. WholeOf(a.x, a.w, b.x, b.w) /\ HalfOf(a.y, a.h, b.y, b.h)
    BY <1>12 DEF PartShape, a
  <2>2. HalvesForced(c, q) /\ a.w <= 64 /\ 16 <= a.h
    BY <1>6, <1>12 DEF Bt, Kept, Divided
  <2>3. b.x = a.x /\ b.w = a.w
    BY <2>1 DEF WholeOf
  <2>4. 8 <= b.h /\ b.h <= 64 /\ b.y % b.h = 0
    BY <1>1, <1>8, <1>9, <2>1, <2>2, HalfFacts
  <2>5. 8 <= b.w /\ b.w <= 64 /\ b.x % b.w = 0
    BY <1>5, <1>9, <2>2, <2>3
  <2>6. b.w <= lim.maxBt /\ b.h <= lim.maxBt /\ 0 < lim.maxMtt
    BY <1>1, <1>3, <1>7, <1>8, <1>10, <2>2
  <2> QED BY <1>4, <1>5, <1>6, <2>4, <2>5, <2>6 DEF Dyadic, a, lim
<1>13. CASE split = "bv"
  <2>1. WholeOf(a.y, a.h, b.y, b.h) /\ HalfOf(a.x, a.w, b.x, b.w)
    BY <1>13 DEF PartShape, a
  <2>2. HalvesForced(c, q) /\ a.h <= 64 /\ 16 <= a.w
    BY <1>6, <1>13 DEF Bt, Kept, Divided
  <2>3. b.y = a.y /\ b.h = a.h
    BY <2>1 DEF WholeOf
  <2>4. 8 <= b.w /\ b.w <= 64 /\ b.x % b.w = 0
    BY <1>1, <1>8, <1>9, <2>1, <2>2, HalfFacts
  <2>5. 8 <= b.h /\ b.h <= 64 /\ b.y % b.h = 0
    BY <1>5, <1>9, <2>2, <2>3
  <2>6. b.w <= lim.maxBt /\ b.h <= lim.maxBt /\ 0 < lim.maxMtt
    BY <1>1, <1>3, <1>7, <1>8, <1>10, <2>2
  <2> QED BY <1>4, <1>5, <1>6, <2>4, <2>5, <2>6 DEF Dyadic, a, lim
<1>14. CASE split = "qt"
  <2>1. HalfOf(a.x, a.w, b.x, b.w) /\ HalfOf(a.y, a.h, b.y, b.h)
    BY <1>14 DEF PartShape, a
  <2>2. 16 <= a.w /\ 16 <= a.h
    BY <1>1, <1>6, <1>14
  <2>3. 8 <= b.w /\ b.x % b.w = 0
    BY <1>1, <1>8, <1>9, <2>1, <2>2, HalfFacts
  <2>4. 8 <= b.h /\ b.y % b.h = 0
    BY <1>1, <1>8, <1>9, <2>1, <2>2, HalfFacts
  <2>5. split \notin Btt
    BY <1>14, SplitKinds
  <2> QED BY <1>4, <1>5, <1>6, <2>3, <2>4, <2>5 DEF Dyadic, a, lim
<1> QED BY <1>11, <1>12, <1>13, <1>14

LEMMA Within64Part ==
    ASSUME NEW a, NEW b, a \in Areas, b \in Areas, Within64(a),
           a.x <= b.x, b.x + b.w <= a.x + a.w, a.y <= b.y, b.y + b.h <= a.y + a.h
    PROVE  Within64(b)
<1>1. PICK x \in {0, 64}, y \in {0, 64} : x <= a.x /\ a.x + a.w <= x + 64 /\ y <= a.y /\ a.y + a.h <= y + 64
  BY DEF Within64
<1>2. x <= b.x /\ b.x + b.w <= x + 64 /\ y <= b.y /\ b.y + b.h <= y + 64
  BY <1>1 DEF Areas
<1> QED BY <1>2 DEF Within64

LEMMA Block64 ==
    ASSUME NEW c, Sized(c), NEW a, OnGrid(c, a), Aligned64(a), a.w <= 64, a.h <= 64
    PROVE  Within64(a)
<1>1. /\ a.x \in Nat /\ a.y \in Nat /\ a.w \in Sides /\ a.h \in Sides /\ c.ctu \in Nat
      /\ a.x + a.w <= c.ctu /\ a.y + a.h <= c.ctu /\ c.ctu <= 128
      /\ a.w % 64 = 0 /\ a.h % 64 = 0 /\ a.x % 64 = 0 /\ a.y % 64 = 0
  <2>1. c.ctu \in {32, 64, 128}
    BY DEF Sized
  <2> QED BY <2>1, BlockSides DEF OnGrid, Aligned64
<1>2. a.w = 64 /\ a.h = 64
  BY <1>1 DEF Sides, UnitSides
<1>3. \A x \in Nat, k \in Nat : k <= 128 /\ x + 64 <= k /\ x % 64 = 0 => x = 0 \/ x = 64
  OBVIOUS
<1>4. (a.x = 0 \/ a.x = 64) /\ (a.y = 0 \/ a.y = 64)
  <2>1. a.x = 0 \/ a.x = 64
    BY ONLY <1>1, <1>2, <1>3
  <2>2. a.y = 0 \/ a.y = 64
    BY ONLY <1>1, <1>2, <1>3
  <2> QED BY <2>1, <2>2
<1>5. a.x \in {0, 64} /\ a.y \in {0, 64} /\ a.x <= a.x /\ a.x + a.w <= a.x + 64 /\ a.y <= a.y /\ a.y + a.h <= a.y + 64
  <2>1. a.x <= a.x /\ a.y <= a.y /\ a.x + a.w <= a.x + 64 /\ a.y + a.h <= a.y + 64
    BY ONLY <1>1, <1>2
  <2> QED BY <1>4, <2>1
<1> QED BY <1>5, Zenon DEF Within64

\* A block of more than 64 is divided along the lines between blocks of 64.
LEMMA ChildWhole64 ==
    ASSUME NEW c, NEW q, Divides(c, q), NEW split \in Splits \ {"no"}, SplitSound(c, q, split),
           NEW b, OnGrid(c, b), PartShape(currArea(q), split, b),
           Within64(currArea(q)) \/ Aligned64(currArea(q))
    PROVE  /\ Within64(b) \/ Aligned64(b)
           /\ Within64(currArea(q)) \/ Aligned64(b)
<1> DEFINE a == currArea(q)
<1>1. /\ Sized(c) /\ OnGrid(c, a) /\ a.w \in Sides /\ a.h \in Sides /\ a.w \in Nat /\ a.h \in Nat
      /\ a \in Areas
  BY AreaOf DEF Divides
<1>2. /\ Fits(c, a, split)
      /\ split = "qt" => a.w = a.h
      /\ split \in Bt => ~(64 < Kept(split, a) /\ Divided(split, a) <= 64)
      /\ split \in Tt => a.w <= 64 /\ a.h <= 64
  BY DEF SplitSound
<1>3. /\ a.x <= b.x /\ b.x + b.w <= a.x + a.w /\ a.y <= b.y /\ b.y + b.h <= a.y + a.h
  BY <1>1, <1>2, PartInside
<1>4. b \in Areas /\ b.x \in Nat /\ b.y \in Nat /\ b.w \in Nat /\ b.h \in Nat /\ a.x \in Nat /\ a.y \in Nat
  BY <1>1, BlockSides
<1>5. PartShape(a, split, b)
  OBVIOUS
<1> HIDE DEF a
<1>6. CASE Within64(a)
  BY <1>1, <1>3, <1>4, <1>6, Within64Part DEF a
<1>7. CASE Aligned64(a) /\ ~Within64(a)
  <2>1. a.w % 64 = 0 /\ a.h % 64 = 0 /\ a.x % 64 = 0 /\ a.y % 64 = 0
    BY <1>7 DEF Aligned64
  <2>2. (a.w = 64 \/ a.w = 128) /\ (a.h = 64 \/ a.h = 128)
    BY <1>1, <2>1 DEF Sides, UnitSides
  <2>3. a.w = 128 \/ a.h = 128
    BY <1>1, <1>7, <2>2, Block64
  <2>4. split \notin Tt
    BY <1>2, <2>3
  <2>5. CASE split = "qt"
    <3>1. a.w = 128 /\ a.h = 128
      BY <1>2, <2>3, <2>5
    <3>2. HalfOf(a.x, a.w, b.x, b.w) /\ HalfOf(a.y, a.h, b.y, b.h)
      BY <1>5, <2>5 DEF PartShape
    <3>3. b.w % 64 = 0 /\ b.x % 64 = 0
      BY <1>1, <1>4, <2>1, <3>1, <3>2, HalfFacts
    <3>4. b.h % 64 = 0 /\ b.y % 64 = 0
      BY <1>1, <1>4, <2>1, <3>1, <3>2, HalfFacts
    <3> QED BY <3>3, <3>4 DEF Aligned64
  <2>6. CASE split = "bh"
    <3>1. a.h = 128
      BY <1>2, <2>2, <2>3, <2>6 DEF Bt, Kept, Divided
    <3>2. WholeOf(a.x, a.w, b.x, b.w) /\ HalfOf(a.y, a.h, b.y, b.h)
      BY <1>5, <2>6 DEF PartShape
    <3>3. b.w % 64 = 0 /\ b.x % 64 = 0
      BY <2>1, <3>2 DEF WholeOf
    <3>4. b.h % 64 = 0 /\ b.y % 64 = 0
      BY <1>1, <1>4, <2>1, <3>1, <3>2, HalfFacts
    <3> QED BY <3>3, <3>4 DEF Aligned64
  <2>7. CASE split = "bv"
    <3>1. a.w = 128
      BY <1>2, <2>2, <2>3, <2>7 DEF Bt, Kept, Divided
    <3>2. WholeOf(a.y, a.h, b.y, b.h) /\ HalfOf(a.x, a.w, b.x, b.w)
      BY <1>5, <2>7 DEF PartShape
    <3>3. b.h % 64 = 0 /\ b.y % 64 = 0
      BY <2>1, <3>2 DEF WholeOf
    <3>4. b.w % 64 = 0 /\ b.x % 64 = 0
      BY <1>1, <1>4, <2>1, <3>1, <3>2, HalfFacts
    <3> QED BY <3>3, <3>4 DEF Aligned64
  <2>8. split = "qt" \/ split = "bh" \/ split = "bv"
    BY <2>4, PartIndexes DEF Tt
  <2> QED BY <2>5, <2>6, <2>7, <2>8
<1> QED BY <1>6, <1>7 DEF a
-----------------------------------------------------------------------------
\* The path down to a block that was asked how it is divided.
AskedPath(c, q) == Append(Front(q.levels), Asked(c, q))
LEMMA PathAsked ==
    ASSUME NEW c, NEW q, Stands(c, q)
    PROVE  /\ Front(q.levels) \in Seq(PathLevel) /\ Level(q) \in PathLevel
           /\ Asked(c, q) \in PathLevel /\ AskedPath(c, q) \in Seq(PathLevel)
           /\ AskedPath(c, q) # <<>> /\ Last(AskedPath(c, q)) = Asked(c, q)
           /\ Tally(AskedPath(c, q)) = CountsOf(q)
           /\ Cur(Asked(c, q)) = currArea(q)
           /\ Asked(c, q).implicit = getImplicitSplit(c, q) /\ Asked(c, q).implicit # "unknown"
           /\ \A u : Earlier(c, Asked(c, q), u) <=> Earlier(c, Level(q), u)
           /\ LevelGeo(c, Limits(c, q.chType), Front(q.levels), Asked(c, q))
           /\ Geo(c, Limits(c, q.chType), AskedPath(c, q))
<1> DEFINE F == Front(q.levels)
           A == Asked(c, q)
           lim == Limits(c, q.chType)
<1>1. PathOf(q, F, Level(q)) /\ PathEnd(q, F, Level(q)) /\ LevelGeo(c, lim, F, Level(q))
      /\ Geo(c, lim, F) /\ currArea(q) = Cur(Level(q))
  BY LevelOf
<1>2. F \in Seq(PathLevel) /\ Level(q) \in PathLevel
  BY <1>1 DEF PathOf
<1>3. /\ getImplicitSplit(c, q) \in Splits /\ A \in PathLevel
      /\ A.split = Level(q).split /\ A.parts = Level(q).parts
      /\ A.idx = Level(q).idx /\ A.qg = Level(q).qg
      /\ A.implicit = getImplicitSplit(c, q)
  BY <1>2, AskedSound
<1>4. \A t, forced : Plus(t, A, forced) = Plus(t, Level(q), forced)
  BY AskedEnd DEF Stands
<1>5. /\ Append(F, A) \in Seq(PathLevel) /\ Append(F, A) # <<>> /\ Last(Append(F, A)) = A
  BY <1>2, <1>3, Appended
<1>6. Tally(Append(F, A)) = CountsOf(q)
  <2>1. 1 \notin MultiAt(F) /\ CountsOf(q) = Plus(Tally(F), Level(q), Forced(F))
        /\ (Level(q).split = "ctu" <=> F = <<>>)
    BY <1>1 DEF PathEnd
  <2>2. A.split \in Btt => F # <<>>
    BY <1>3, <2>1, NotMulti
  <2>3. TalliedWith(F, A)
    BY <1>2, <1>3, <2>1, <2>2, TallyAppend
  <2> QED BY <1>4, <2>1, <2>3 DEF TalliedWith
<1>7. A.implicit # "unknown"
  BY <1>3 DEF Splits, Btt, Bt, Tt
<1>8. /\ LevelGeo(c, lim, F, A)
      /\ \A u : Earlier(c, A, u) <=> Earlier(c, Level(q), u)
      /\ Cur(A) = Cur(Level(q))
  BY <1>1, <1>3, GeoAsked
<1>9. Geo(c, lim, Append(F, A))
  BY <1>1, <1>2, <1>3, <1>8, GeoAppend
<1> QED BY <1>1, <1>2, <1>3, <1>5, <1>6, <1>7, <1>8, <1>9 DEF AskedPath

LEMMA ChildParts ==
    ASSUME NEW c, NEW q, Divides(c, q), NEW split \in Splits \ {"no"}, SplitSound(c, q, split)
    PROVE  LET l == Child(c, q, split) IN
           /\ l.split = split /\ l.idx = 0 /\ l.parts = Parts(currArea(q), split)
           /\ DOMAIN l.parts = 1..PartsIn(split) /\ 1 \in DOMAIN l.parts
           /\ SplitInto(c, currArea(q), l.parts)
           /\ \A j \in DOMAIN l.parts : /\ OnGrid(c, l.parts[j])
                                        /\ PartShape(currArea(q), split, l.parts[j])
           /\ Cur(l) = l.parts[1]
           /\ l \in PathLevel
<1> DEFINE l == Child(c, q, split)
           a == currArea(q)
<1>1. Sized(c) /\ OnGrid(c, a) /\ a \in Areas
  BY AreaOf DEF Divides
<1>2. l.split = split /\ l.idx = 0 /\ l.parts = Parts(a, split)
  BY DEF Child, PartLevel
<1>3. Parts(a, split) \in Seq(Areas) /\ Len(Parts(a, split)) = PartsIn(split)
      /\ PartsIn(split) \in Nat /\ 0 < PartsIn(split)
  BY <1>1, PartsSound
<1>4. DOMAIN Parts(a, split) = 1..PartsIn(split) /\ 1 \in 1..PartsIn(split)
  BY <1>3
<1>5. SplitInto(c, a, Parts(a, split))
  BY <1>1, PartsSplit DEF SplitSound
<1>6. \A j \in 1..PartsIn(split) : OnGrid(c, Parts(a, split)[j]) /\ PartShape(a, split, Parts(a, split)[j])
  BY <1>1, <1>4, <1>5, PartsShape DEF SplitInto
<1>7. Cur(l) = Parts(a, split)[1]
  BY <1>2 DEF Cur
<1>8. l \in PathLevel
  <2>1. Level(q) \in PathLevel /\ LevelSound(Level(q))
    BY LevelOf DEF Divides, PathOf, PathEnd
  <2> QED BY <2>1, ChildSound
<1> QED BY <1>2, <1>4, <1>5, <1>6, <1>7, <1>8

LEMMA ChildLaid ==
    ASSUME NEW c, NEW q, Divides(c, q), NEW split \in Splits \ {"no"}, SplitSound(c, q, split)
    PROVE  Laid(c, AskedPath(c, q), Child(c, q, split)) /\ Fresh(c, AskedPath(c, q), Child(c, q, split))
<1> DEFINE F == Front(q.levels)
           A == Asked(c, q)
           l == Child(c, q, split)
           a == currArea(q)
<1>0. Stands(c, q)
  BY DEF Divides
<1>1. /\ F \in Seq(PathLevel) /\ A \in PathLevel
      /\ AskedPath(c, q) # <<>> /\ Last(AskedPath(c, q)) = A /\ Cur(A) = a
      /\ LevelGeo(c, Limits(c, q.chType), F, A)
  BY <1>0, PathAsked
<1>2. /\ l.idx = 0 /\ 1 \in DOMAIN l.parts /\ SplitInto(c, a, l.parts) /\ Cur(l) = l.parts[1]
  BY ChildParts
<1>3. Laid(c, AskedPath(c, q), l)
  BY <1>1, <1>2 DEF SplitInto, Laid
<1>4. ASSUME NEW u \in Nat, u \in Shown(c, Cur(l))
      PROVE  /\ ~Behind(c, AskedPath(c, q), u) /\ ~Earlier(c, l, u)
             /\ \A i \in DOMAIN AskedPath(c, q) : u \in Shown(c, Cur(AskedPath(c, q)[i]))
  <2>1. u \in Shown(c, a)
    BY <1>2, <1>4 DEF SplitInto, Tiled
  <2>2. /\ ~Behind(c, F, u) /\ ~Earlier(c, A, u)
        /\ \A i \in DOMAIN F : u \in Shown(c, Cur(F[i]))
    BY <1>1, <2>1 DEF LevelGeo, Fresh
  <2>3. ~Behind(c, Append(F, A), u)
    BY <1>1, <2>2, BehindAppend
  <2>4. ~Earlier(c, l, u)
    BY <1>2 DEF Earlier
  <2>5. /\ DOMAIN F = 1..Len(F) /\ DOMAIN Append(F, A) = 1..(Len(F) + 1) /\ Len(F) \in Nat
        /\ Append(F, A)[Len(F) + 1] = A /\ \A i \in 1..Len(F) : Append(F, A)[i] = F[i]
    BY <1>1, Appended
  <2>6. ASSUME NEW i \in DOMAIN Append(F, A)
        PROVE  u \in Shown(c, Cur(Append(F, A)[i]))
    <3>1. i \in 1..Len(F) \/ i = Len(F) + 1
      BY <2>5
    <3> QED BY <1>1, <2>1, <2>2, <2>5, <3>1
  <2> QED BY <2>3, <2>4, <2>6 DEF AskedPath
<1> QED BY <1>3, <1>4 DEF Fresh

LEMMA ChildEdges ==
    ASSUME NEW c, NEW q, Divides(c, q), NEW split \in Splits \ {"no"}, SplitSound(c, q, split)
    PROVE  Edges(c, Limits(c, q.chType), AskedPath(c, q), Child(c, q, split))
<1> DEFINE l == Child(c, q, split)
           s == AskedPath(c, q)
<1>0. Stands(c, q)
  BY DEF Divides
<1>1. /\ s # <<>> /\ Last(s) = Asked(c, q) /\ Tally(s) = CountsOf(q)
      /\ Cur(Asked(c, q)) = currArea(q) /\ Asked(c, q).implicit = getImplicitSplit(c, q)
  BY <1>0, PathAsked
<1>2. l.split = split /\ \A j \in DOMAIN l.parts : OnGrid(c, l.parts[j]) /\ PartShape(currArea(q), split, l.parts[j])
  BY ChildParts
<1>3. Tally(s).mt = q.mt /\ Tally(s).implicitBt = q.implicitBt
  BY <1>1 DEF CountsOf
<1> HIDE DEF l, s
<1>4. ASSUME NEW j \in DOMAIN l.parts, Cut(c, l.parts[j])
      PROVE  CutSound(c, Limits(c, q.chType), s, l.split, l.parts[j])
  <2>1. OnGrid(c, l.parts[j]) /\ PartShape(currArea(q), split, l.parts[j])
    BY <1>2
  <2>2. /\ Cut(c, currArea(q)) /\ getImplicitSplit(c, q) # "no" /\ q.mt = q.implicitBt
        /\ 8 <= l.parts[j].w /\ 8 <= l.parts[j].h /\ Dyadic(l.parts[j])
        /\ split \in Btt => LET lim == Limits(c, q.chType) IN
              /\ l.parts[j].w <= 64 /\ l.parts[j].h <= 64 /\ 0 < lim.maxMtt
              /\ l.parts[j].w <= lim.maxBt /\ l.parts[j].h <= lim.maxBt
    BY <1>4, <2>1, ChildCut
  <2> QED BY <1>1, <1>2, <1>3, <2>2 DEF CutSound
<1> QED BY <1>4 DEF Edges, l, s

LEMMA ChildDepths ==
    ASSUME NEW c, NEW q, Divides(c, q), NEW split \in Splits \ {"no"}, SplitSound(c, q, split)
    PROVE  Depths(c, AskedPath(c, q), Child(c, q, split))
<1> DEFINE l == Child(c, q, split)
           s == AskedPath(c, q)
           a == currArea(q)
<1>0. Stands(c, q) /\ InPicture(c, a)
  BY DEF Divides
<1>1. /\ s # <<>> /\ Last(s) = Asked(c, q) /\ Tally(s) = CountsOf(q)
      /\ Cur(Asked(c, q)) = a /\ Asked(c, q).implicit # "unknown"
  BY <1>0, PathAsked
<1>2. l.split = split /\ \A j \in DOMAIN l.parts : OnGrid(c, l.parts[j]) /\ PartShape(a, split, l.parts[j])
  BY ChildParts
<1>3. Tally(s).mt = q.mt /\ Tally(s).qt = q.qt /\ Tally(s).bt = q.bt
  BY <1>1 DEF CountsOf
<1>4. q.mt \in Nat /\ q.bt \in Nat /\ q.mt <= q.bt /\ q.qt \in Nat
  BY <1>0, DepthsOf
<1>5. Sized(c) /\ OnGrid(c, a) /\ a.w \in Sides /\ a.h \in Sides /\ a.w \in Nat /\ a.h \in Nat
  BY <1>0, AreaOf
<1>6. /\ split = "qt" => q.mt = 0 /\ q.bt = 0 /\ a.w = a.h
      /\ isDualITree(c) => split = "qt" \/ (a.w <= 64 /\ a.h <= 64)
  BY DEF SplitSound
<1>7. split \notin Btt => split = "qt"
  BY SplitKinds
<1>8. a.w <= 128 /\ a.h <= 128 /\ a.x \in Nat /\ a.y \in Nat
  BY <1>5, BlockSides DEF Sides, UnitSides
<1>9. Fits(c, a, split)
  BY DEF SplitSound
<1> HIDE DEF l, s, a
<1>10. ASSUME NEW j \in DOMAIN l.parts
       PROVE  /\ split = "qt" => l.parts[j].w = l.parts[j].h
              /\ isDualITree(c) => l.parts[j].w <= 64 /\ l.parts[j].h <= 64
  <2> DEFINE b == l.parts[j]
  <2>1. OnGrid(c, b) /\ PartShape(a, split, b)
    BY <1>2
  <2> HIDE DEF b
  <2>2. b.x \in Nat /\ b.y \in Nat /\ b.w \in Nat /\ b.h \in Nat
    BY <1>5, <2>1, BlockSides
  <2>3. b.w <= a.w /\ b.h <= a.h
    BY <1>5, <1>9, <2>1, PartInside
  <2>4. CASE split = "qt"
    <3>1. HalfOf(a.x, a.w, b.x, b.w) /\ HalfOf(a.y, a.h, b.y, b.h)
      BY <2>1, <2>4 DEF PartShape
    <3>2. b.w <= 64
      BY <1>5, <1>8, <2>2, <3>1, PartFacts
    <3>3. a.w = a.h
      BY <1>6, <2>4
    <3>4. b.w = b.h
      BY <3>1, <3>3 DEF HalfOf
    <3> QED BY <3>2, <3>4 DEF b
  <2>5. CASE split # "qt"
    <3>1. isDualITree(c) => a.w <= 64 /\ a.h <= 64
      BY <1>6, <2>5
    <3>2. isDualITree(c) => b.w <= 64 /\ b.h <= 64
      BY <1>5, <2>2, <2>3, <3>1
    <3> QED BY <3>2, <2>5 DEF b
  <2> QED BY <2>4, <2>5
<1>11. Tally(s).qt \in Nat /\ Tally(s).mt \in Nat /\ Tally(s).mt <= Tally(s).bt
  BY <1>3, <1>4
<1>12. l.split \notin Btt => /\ Tally(s).mt = 0 /\ Tally(s).bt = 0
                             /\ \A j \in DOMAIN l.parts : l.parts[j].w = l.parts[j].h
  BY <1>2, <1>3, <1>6, <1>7, <1>10
<1>13. Last(s).implicit # "unknown" /\ InPicture(c, Cur(Last(s)))
  BY <1>0, <1>1
<1> QED BY <1>10, <1>11, <1>12, <1>13 DEF Depths, l, s

LEMMA ChildWhole ==
    ASSUME NEW c, NEW q, Divides(c, q), NEW split \in Splits \ {"no"}, SplitSound(c, q, split)
    PROVE  Whole64(c, AskedPath(c, q), Child(c, q, split))
<1> DEFINE l == Child(c, q, split)
           s == AskedPath(c, q)
           a == currArea(q)
<1>0. Stands(c, q)
  BY DEF Divides
<1>1. Last(s) = Asked(c, q) /\ Cur(Asked(c, q)) = a
  BY <1>0, PathAsked
<1>2. \A j \in DOMAIN l.parts : OnGrid(c, l.parts[j]) /\ PartShape(a, split, l.parts[j])
  BY ChildParts
<1>3. Within64(a) \/ Aligned64(a)
  <2>1. /\ LevelGeo(c, Limits(c, q.chType), Front(q.levels), Level(q))
        /\ a = Cur(Level(q)) /\ Level(q).idx + 1 \in DOMAIN Level(q).parts
    BY <1>0, LevelOf
  <2> QED BY <2>1 DEF LevelGeo, Whole64, Cur
<1>4. ASSUME NEW j \in DOMAIN l.parts
      PROVE  /\ Within64(l.parts[j]) \/ Aligned64(l.parts[j])
             /\ Within64(a) \/ Aligned64(l.parts[j])
  BY <1>2, <1>3, ChildWhole64
<1> HIDE DEF l, s, a
<1> QED BY <1>1, <1>4 DEF Whole64, l, s, a

\* The path to the first part of a block that is divided.
LEMMA DividedGeo ==
    ASSUME NEW c, NEW q, Divides(c, q), NEW split \in Splits \ {"no"}, SplitSound(c, q, split)
    PROVE  LET lim == Limits(c, q.chType) IN
           /\ LevelGeo(c, lim, AskedPath(c, q), Child(c, q, split))
           /\ Geo(c, lim, Append(AskedPath(c, q), Child(c, q, split)))
<1> DEFINE lim == Limits(c, q.chType)
<1>1. LevelGeo(c, lim, AskedPath(c, q), Child(c, q, split))
  BY ChildLaid, ChildEdges, ChildDepths, ChildWhole DEF LevelGeo
<1>2. AskedPath(c, q) \in Seq(PathLevel) /\ Geo(c, lim, AskedPath(c, q))
  BY PathAsked DEF Divides
<1>3. Child(c, q, split) \in PathLevel
  BY ChildParts
<1> QED BY <1>1, <1>2, <1>3, GeoAppend
-----------------------------------------------------------------------------
(* Units that were walked, step by step. *)
LEMMA LastGeo ==
    ASSUME NEW c, NEW lim, NEW s \in Seq(PathLevel), s # <<>>, Geo(c, lim, s)
    PROVE  /\ Front(s) \in Seq(PathLevel) /\ Last(s) \in PathLevel /\ s = Append(Front(s), Last(s))
           /\ Geo(c, lim, Front(s)) /\ LevelGeo(c, lim, Front(s), Last(s))
<1>1. Front(s) \in Seq(PathLevel) /\ Last(s) \in PathLevel /\ s = Append(Front(s), Last(s))
  BY LastOf
<1>2. Geo(c, lim, Append(Front(s), Last(s)))
  BY <1>1
<1> QED BY <1>1, <1>2, GeoAppend

LEMMA FurtherGeo ==
    ASSUME NEW c, NEW q, Stands(c, q), hasNextPart(q)
    PROVE  LET lim == Limits(c, q.chType)
               m == Further(Level(q))
           IN  /\ LevelGeo(c, lim, Front(q.levels), m)
               /\ Geo(c, lim, Append(Front(q.levels), m))
<1> DEFINE lim == Limits(c, q.chType)
           F == Front(q.levels)
           l == Level(q)
           m == Further(l)
<1>1. /\ F \in Seq(PathLevel) /\ l \in PathLevel /\ LevelSound(l) /\ (l.split = "ctu" <=> F = <<>>)
      /\ LevelGeo(c, lim, F, l) /\ Geo(c, lim, F)
  BY LevelOf DEF PathOf, PathEnd
<1>2. l.idx + 1 < Len(l.parts)
  BY DEF hasNextPart
<1>3. m \in PathLevel /\ m.split = l.split /\ m.idx = l.idx + 1 /\ m.parts = l.parts
  BY <1>1, <1>2, FurtherSound
<1>4. F # <<>>
  <2>1. l.split = "ctu" => Len(l.parts) = 1
    BY <1>1, SplitKinds DEF LevelSound
  <2>2. l.idx \in Nat
    BY <1>1 DEF PathLevel
  <2>3. F = <<>> => l.split = "ctu"
    BY <1>1
  <2>4. Len(l.parts) # 1
    <3> DEFINE i == l.idx
               n == Len(l.parts)
    <3>1. i \in Nat /\ i + 1 < n
      BY <1>2, <2>2
    <3> HIDE DEF i, n
    <3>2. n # 1
      BY <3>1
    <3> QED BY <3>2 DEF n
  <2> QED BY <2>1, <2>3, <2>4
<1>5. /\ Front(F) \in Seq(PathLevel) /\ Last(F) \in PathLevel /\ F = Append(Front(F), Last(F))
      /\ LevelGeo(c, lim, Front(F), Last(F))
  BY <1>1, <1>4, LastGeo
<1>6. /\ l.idx \in Nat /\ DOMAIN l.parts = 1..Len(l.parts) /\ Len(l.parts) \in Nat
  BY <1>1 DEF PathLevel
<1>7. Laid(c, F, m) /\ Edges(c, lim, F, m) /\ Depths(c, F, m) /\ Whole64(c, F, m)
  BY <1>1, <1>3 DEF LevelGeo, Laid, Edges, Depths, Whole64
<1> HIDE DEF l, m, F, lim
<1>8. ASSUME NEW u \in Nat, u \in Shown(c, Cur(m))
      PROVE  /\ ~Behind(c, F, u) /\ ~Earlier(c, m, u)
             /\ \A i \in DOMAIN F : u \in Shown(c, Cur(F[i]))
  <2>1. Cur(m) = l.parts[l.idx + 2] /\ l.idx + 2 \in DOMAIN l.parts
    <3>1. l.idx + 2 \in 1..Len(l.parts) /\ (l.idx + 1) + 1 = l.idx + 2
      BY <1>2, <1>6
    <3> QED BY <1>3, <1>6, <3>1 DEF Cur
  <2>2. Tiled(c, Cur(Last(F)), l.parts)
    BY <1>1, <1>4 DEF LevelGeo, Laid
  <2>3. u \in Shown(c, Cur(Last(F)))
    BY <1>8, <2>1, <2>2 DEF Tiled
  <2>4. /\ ~Behind(c, Front(F), u) /\ ~Earlier(c, Last(F), u)
        /\ \A i \in DOMAIN Front(F) : u \in Shown(c, Cur(Front(F)[i]))
    BY <1>5, <2>3 DEF LevelGeo, Fresh
  <2>5. ~Behind(c, F, u)
    <3>1. Behind(c, Append(Front(F), Last(F)), u) <=> Behind(c, Front(F), u) \/ Earlier(c, Last(F), u)
      BY <1>5, BehindAppend
    <3>2. ~Behind(c, Append(Front(F), Last(F)), u)
      BY <2>4, <3>1
    <3> QED BY <1>5, <3>2
  <2>6. ~Earlier(c, m, u)
    <3>1. ASSUME NEW j \in 1..m.idx, u \in Shown(c, m.parts[j])
          PROVE  FALSE
      <4>1. j \in DOMAIN l.parts /\ j # l.idx + 2
        BY <1>2, <1>3, <1>6
      <4> QED BY <1>3, <1>8, <2>1, <2>2, <3>1, <4>1 DEF Tiled
    <3> QED BY <3>1 DEF Earlier
  <2>7. ASSUME NEW i \in DOMAIN F
        PROVE  u \in Shown(c, Cur(F[i]))
    <3>1. /\ DOMAIN F = 1..(Len(Front(F)) + 1) /\ Len(Front(F)) \in Nat
          /\ DOMAIN Front(F) = 1..Len(Front(F))
          /\ F[Len(Front(F)) + 1] = Last(F)
          /\ \A n \in 1..Len(Front(F)) : F[n] = Front(F)[n]
      BY <1>5, Appended
    <3>2. i \in 1..Len(Front(F)) \/ i = Len(Front(F)) + 1
      BY <3>1
    <3> QED BY <2>3, <2>4, <3>1, <3>2
  <2> QED BY <2>5, <2>6, <2>7
<1>9. LevelGeo(c, lim, F, m)
  BY <1>7, <1>8 DEF LevelGeo, Fresh
<1> QED BY <1>1, <1>3, <1>9, GeoAppend DEF l, m, F, lim

\* What was walked, of a path and its last level.
CoveredBy(c, units, s, l, ended) ==
    /\ units \in SUBSET Nat
    /\ \A u \in Nat : u \in units <=> \/ Behind(c, s, u) \/ Earlier(c, l, u)
                                      \/ ended /\ u \in Shown(c, Cur(l))
LEMMA CoveredOf ==
    ASSUME NEW c, NEW units, NEW s \in Seq(PathLevel), NEW l \in PathLevel, NEW ended \in BOOLEAN
    PROVE  Covered(c, units, Append(s, l), ended) <=> CoveredBy(c, units, s, l, ended)
<1>1. Last(Append(s, l)) = l
  BY Appended
<1>2. \A u : Behind(c, Append(s, l), u) <=> Behind(c, s, u) \/ Earlier(c, l, u)
  BY BehindAppend
<1> QED BY <1>1, <1>2, Zenon DEF Covered, CoveredBy

\* Asking a block changes nothing, and nothing lies before the first part.
LEMMA CoveredAsked ==
    ASSUME NEW c, NEW q, Stands(c, q), NEW units, NEW ended \in BOOLEAN,
           Covered(c, units, q.levels, ended)
    PROVE  Covered(c, units, AskedPath(c, q), ended)
<1> DEFINE F == Front(q.levels)
<1>1. /\ F \in Seq(PathLevel) /\ Level(q) \in PathLevel /\ Asked(c, q) \in PathLevel
      /\ Cur(Asked(c, q)) = Cur(Level(q)) /\ q.levels = Append(F, Level(q))
      /\ \A u : Earlier(c, Asked(c, q), u) <=> Earlier(c, Level(q), u)
  BY PathAsked, LevelOf DEF PathOf
<1>2. CoveredBy(c, units, F, Level(q), ended)
  <2>1. Covered(c, units, Append(F, Level(q)), ended)
    BY <1>1
  <2> QED BY <1>1, <2>1, CoveredOf
<1>3. CoveredBy(c, units, F, Asked(c, q), ended)
  BY <1>1, <1>2, Zenon DEF CoveredBy
<1> QED BY <1>1, <1>3, CoveredOf DEF AskedPath

LEMMA CoveredFirst ==
    ASSUME NEW c, NEW units, NEW s \in Seq(PathLevel), NEW l \in PathLevel, l.idx = 0,
           Covered(c, units, s, FALSE)
    PROVE  Covered(c, units, Append(s, l), FALSE)
<1>1. \A u : ~Earlier(c, l, u)
  BY DEF Earlier
<1>2. units \in SUBSET Nat /\ \A u \in Nat : u \in units <=> Behind(c, s, u)
  BY DEF Covered
<1>3. CoveredBy(c, units, s, l, FALSE)
  BY <1>1, <1>2 DEF CoveredBy
<1> QED BY <1>3, CoveredOf

LEMMA CoveredNext ==
    ASSUME NEW c, NEW q, Stands(c, q), hasNextPart(q), NEW units, Covered(c, units, q.levels, TRUE)
    PROVE  Covered(c, units, Append(Front(q.levels), Further(Level(q))), FALSE)
<1> DEFINE F == Front(q.levels)
           l == Level(q)
           m == Further(l)
<1>1. F \in Seq(PathLevel) /\ l \in PathLevel /\ LevelSound(l) /\ q.levels = Append(F, l)
  BY LevelOf DEF PathOf, PathEnd
<1>2. m \in PathLevel /\ m.idx = l.idx + 1 /\ m.parts = l.parts
  BY <1>1, FurtherSound DEF hasNextPart
<1>3. l.idx \in Nat
  BY <1>1 DEF PathLevel
<1>4. \A u : Earlier(c, m, u) <=> Earlier(c, l, u) \/ u \in Shown(c, Cur(l))
  <2>1. 1..(l.idx + 1) = (1..l.idx) \cup {l.idx + 1}
    BY <1>3
  <2> QED BY <1>2, <2>1 DEF Earlier, Cur
<1>5. /\ units \in SUBSET Nat
      /\ \A u \in Nat : u \in units <=> Behind(c, F, u) \/ Earlier(c, l, u) \/ u \in Shown(c, Cur(l))
  <2>1. Covered(c, units, Append(F, l), TRUE)
    BY <1>1
  <2>2. CoveredBy(c, units, F, l, TRUE)
    BY <1>1, <2>1, CoveredOf
  <2> QED BY <2>2 DEF CoveredBy
<1> HIDE DEF l, m, F
<1>6. CoveredBy(c, units, F, m, FALSE)
  BY <1>4, <1>5 DEF CoveredBy
<1> QED BY <1>1, <1>2, <1>6, CoveredOf DEF l, m, F

LEMMA CoveredExit ==
    ASSUME NEW c, NEW q, Stands(c, q), ~hasNextPart(q), Level(q).split # "ctu",
           NEW units, Covered(c, units, q.levels, TRUE)
    PROVE  Covered(c, units, Front(q.levels), TRUE) /\ Front(q.levels) # <<>>
<1> DEFINE F == Front(q.levels)
           l == Level(q)
<1>1. /\ F \in Seq(PathLevel) /\ l \in PathLevel /\ LevelSound(l) /\ q.levels = Append(F, l)
      /\ (l.split = "ctu" <=> F = <<>>)
      /\ LevelGeo(c, Limits(c, q.chType), F, l)
  BY LevelOf DEF PathOf, PathEnd
<1>2. F # <<>>
  BY <1>1
<1>3. Tiled(c, Cur(Last(F)), l.parts)
  BY <1>1, <1>2 DEF LevelGeo, Laid
<1>4. l.idx \in Nat /\ DOMAIN l.parts = 1..Len(l.parts) /\ Len(l.parts) \in Nat
  BY <1>1 DEF PathLevel
<1>5. l.idx + 1 = Len(l.parts)
  BY <1>1, <1>4 DEF hasNextPart, LevelSound
<1>6. DOMAIN l.parts = (1..l.idx) \cup {l.idx + 1}
  BY <1>4, <1>5
<1>7. \A u \in Nat : Earlier(c, l, u) \/ u \in Shown(c, Cur(l)) <=> u \in Shown(c, Cur(Last(F)))
  BY <1>3, <1>6 DEF Tiled, Earlier, Cur
<1>8. /\ units \in SUBSET Nat
      /\ \A u \in Nat : u \in units <=> Behind(c, F, u) \/ Earlier(c, l, u) \/ u \in Shown(c, Cur(l))
  <2>1. Covered(c, units, Append(F, l), TRUE)
    BY <1>1
  <2>2. CoveredBy(c, units, F, l, TRUE)
    BY <1>1, <2>1, CoveredOf
  <2> QED BY <2>2 DEF CoveredBy
<1> HIDE DEF l, F
<1>9. units \in SUBSET Nat /\ \A u \in Nat : u \in units <=> Behind(c, F, u) \/ u \in Shown(c, Cur(Last(F)))
  BY <1>7, <1>8
<1> QED BY <1>2, <1>9 DEF Covered, F

\* A unit is coded: all of its area is in the picture.
LEMMA CoveredUnit ==
    ASSUME NEW c, NEW units, NEW s, Covered(c, units, s, FALSE)
    PROVE  Covered(c, units \cup Shown(c, Cur(Last(s))), s, TRUE)
<1>1. Shown(c, Cur(Last(s))) \in SUBSET Nat
  BY DEF Shown
<1> QED BY <1>1 DEF Covered
LEMMA CoveredNothing ==
    ASSUME NEW c, NEW units, NEW s, Covered(c, units, s, FALSE), Shown(c, Cur(Last(s))) = {}
    PROVE  Covered(c, units, s, TRUE)
BY DEF Covered
LEMMA OutsideShows ==
    ASSUME NEW c, Sized(c), NEW a, OnGrid(c, a), ~InPicture(c, a)
    PROVE  Shown(c, a) = {}
<1>1. a.x \in Nat /\ a.y \in Nat /\ c.width \in Nat /\ c.height \in Nat
  BY BlockSides DEF Sized
<1>2. \A u \in Nat : UnitX(c, u) \in Nat /\ UnitY(c, u) \in Nat
  BY RowsOf
<1>3. ASSUME NEW u \in Nat, Hits(c, a, u), Visible(c, u)
      PROVE  FALSE
  BY <1>1, <1>2, <1>3 DEF Hits, Visible, InPicture
<1> QED BY <1>3 DEF Shown
LEMMA InsideShows ==
    ASSUME NEW a, Sized(cs), OnGrid(cs, a), HasBottomLeft(cs, a), HasTopRight(cs, a)
    PROVE  UnitsOf(a) = Shown(cs, a)
<1>1. a.x \in Nat /\ a.y \in Nat /\ a.w \in Nat /\ a.h \in Nat /\ cs.width \in Nat /\ cs.height \in Nat
  BY BlockSides DEF Sized
<1>2. \A u \in Nat : UnitX(cs, u) \in Nat /\ UnitY(cs, u) \in Nat
  BY RowsOf
<1>3. ASSUME NEW u \in Nat, Hits(cs, a, u)
      PROVE  Visible(cs, u)
  BY <1>1, <1>2, <1>3 DEF Hits, Visible, HasBottomLeft, HasTopRight
<1>4. UnitsOf(a) = {u \in Nat : Hits(cs, a, u)}
  BY UnitsHit
<1> QED BY <1>3, <1>4 DEF Shown
\* The walk of a block that lies outside ends where it begins.
LEMMA CoveredBegin ==
    ASSUME NEW q, Stands(cs, q), NEW units, Covered(cs, units, q.levels, FALSE)
    PROVE  Covered(cs, units, q.levels, Walked(Begin(q)))
<1>1. Last(q.levels) = Level(q) /\ currArea(q) = Cur(Level(q)) /\ OnGrid(cs, currArea(q)) /\ Sized(cs)
  BY LevelOf DEF Level, Stands, Ready
<1>2. CASE InPicture(cs, currArea(q))
  <2>1. Walked(Begin(q)) = FALSE
    BY <1>2 DEF Walked, Begin
  <2> QED BY <2>1
<1>3. CASE ~InPicture(cs, currArea(q))
  <2>1. Walked(Begin(q)) = TRUE
    BY <1>3 DEF Walked, Begin
  <2>2. Shown(cs, Cur(Last(q.levels))) = {}
    BY <1>1, <1>3, OutsideShows
  <2>3. Covered(cs, units, q.levels, TRUE)
    BY <2>2, CoveredNothing
  <2> QED BY <2>1, <2>3
<1> QED BY <1>2, <1>3
-----------------------------------------------------------------------------
\* The path begins with the CTU.
LEMMA CtuOnGrid ==
    ASSUME NEW c, Sized(c)
    PROVE  /\ OnGrid(c, CtuOf(c)) /\ InPicture(c, CtuOf(c)) /\ Dyadic(CtuOf(c))
           /\ CtuOf(c).w = c.ctu /\ CtuOf(c).h = c.ctu /\ CtuOf(c).x = 0 /\ CtuOf(c).y = 0
           /\ CtuOf(c) \in Areas /\ 8 <= c.ctu
           /\ Within64(CtuOf(c)) \/ Aligned64(CtuOf(c))
<1> DEFINE a == CtuOf(c)
<1>1. c.ctu \in {32, 64, 128} /\ c.minCu \in UnitSides /\ c.minCu <= c.ctu
  BY DEF Sized
<1>2. a.w = c.ctu /\ a.h = c.ctu /\ a.x = 0 /\ a.y = 0 /\ a \in Areas
  BY <1>1 DEF CtuOf, Areas
<1>3. c.ctu \in Sides /\ c.ctu \in Nat /\ 0 + c.ctu <= c.ctu /\ 8 <= c.ctu
  BY <1>1 DEF Sides, UnitSides
<1>4. 0 % c.minCu = 0 /\ 0 % c.ctu = 0
  BY <1>1 DEF UnitSides
<1>5. InPicture(c, a)
  BY <1>2 DEF InPicture, Sized
<1>6. Within64(a) \/ Aligned64(a)
  <2>1. CASE c.ctu = 128
    BY <1>2, <2>1 DEF Aligned64
  <2>2. CASE c.ctu # 128
    <3>1. c.ctu <= 64 /\ c.ctu \in Nat
      BY <1>1, <2>2
    <3>2. 0 \in {0, 64} /\ 0 <= a.x /\ a.x + a.w <= 0 + 64 /\ 0 <= a.y /\ a.y + a.h <= 0 + 64
      BY <1>2, <3>1
    <3> QED BY <3>2 DEF Within64
  <2> QED BY <2>1, <2>2
<1> HIDE DEF a
<1>7. OnGrid(c, a)
  BY <1>1, <1>2, <1>3, <1>4 DEF OnGrid
<1>8. Dyadic(a)
  BY <1>2, <1>4 DEF Dyadic
<1> QED BY <1>2, <1>3, <1>5, <1>6, <1>7, <1>8 DEF a

LEMMA CtuStands ==
    ASSUME NEW c, Ready(c), NEW ch \in {"luma", "chroma"}
    PROVE  /\ Stands(c, initCtu(c, ch)) /\ currArea(initCtu(c, ch)) = CtuOf(c)
           /\ Level(initCtu(c, ch)).implicit = "unknown" /\ initCtu(c, ch).treeType = "D"
           /\ initCtu(c, ch).chType = ch /\ Len(initCtu(c, ch).levels) = 1
           /\ Covered(c, {}, initCtu(c, ch).levels, FALSE)
<1> DEFINE q == initCtu(c, ch)
           l == PartLevel("ctu", <<CtuOf(c)>>, TRUE)
           lim == Limits(c, ch)
<1>0. Sized(c)
  BY DEF Ready
<1>1. /\ OnGrid(c, CtuOf(c)) /\ Dyadic(CtuOf(c)) /\ CtuOf(c).w = c.ctu /\ CtuOf(c).h = c.ctu
      /\ 8 <= c.ctu /\ (Within64(CtuOf(c)) \/ Aligned64(CtuOf(c)))
  BY <1>0, CtuOnGrid
<1>2. /\ q.levels = <<l>> /\ q.chType = ch /\ q.treeType = "D" /\ q.mt = 0 /\ q.bt = 0 /\ q.qt = 0
      /\ q.implicitBt = 0
  BY DEF initCtu, CtuOf
<1>3. q \in Partition /\ PathInv(q)
  <2>1. c.ctu \in Nat
    BY <1>0 DEF Sized
  <2> QED BY <2>1, CtuPath
<1>4. l.split = "ctu" /\ l.idx = 0 /\ l.parts = <<CtuOf(c)>> /\ l.implicit = "unknown"
  BY DEF PartLevel
<1> HIDE DEF q, l
<1>5. PathOf(q, Front(q.levels), Level(q)) /\ PathEnd(q, Front(q.levels), Level(q))
  BY <1>3, PathEnds
<1>6. Level(q) = l /\ Len(q.levels) = 1
  BY <1>2 DEF Level, Last
<1>7. Front(q.levels) = <<>>
  BY <1>4, <1>5, <1>6 DEF PathEnd
<1>8. q.levels = Append(<<>>, l) /\ l \in PathLevel /\ <<>> \in Seq(PathLevel)
  BY <1>5, <1>6, <1>7 DEF PathOf
<1>9. Tally(<<>>).mt = 0 /\ Tally(<<>>).bt = 0 /\ Tally(<<>>).qt = 0 /\ Tally(<<>>).implicitBt = 0
  <2>1. Tally(<<>>) \in Tallies /\ CountsOf(q) = Plus(Tally(<<>>), l, Forced(<<>>))
    BY <1>5, <1>6, <1>7 DEF PathEnd
  <2>2. l.split \notin Btt /\ l.split # "qt"
    BY <1>4 DEF Btt, Bt, Tt
  <2>3. /\ q.mt = Tally(<<>>).mt + 0 /\ q.bt = Tally(<<>>).bt + 0
        /\ q.implicitBt = Tally(<<>>).implicitBt + 0 /\ q.qt = Tally(<<>>).qt + 0
    BY <2>1, <2>2, PlusFields
  <2>4. /\ Tally(<<>>).mt \in Int /\ Tally(<<>>).bt \in Int
        /\ Tally(<<>>).implicitBt \in Int /\ Tally(<<>>).qt \in Int
    BY <2>1 DEF Tallies
  <2>5. Tally(<<>>).mt = 0
    BY <1>2, <2>3, <2>4
  <2>6. Tally(<<>>).bt = 0
    BY <1>2, <2>3, <2>4
  <2>7. Tally(<<>>).qt = 0
    BY <1>2, <2>3, <2>4
  <2>8. Tally(<<>>).implicitBt = 0
    BY <1>2, <2>3, <2>4
  <2> QED BY <2>5, <2>6, <2>7, <2>8
<1>10. DOMAIN l.parts = {1} /\ l.parts[1] = CtuOf(c) /\ Cur(l) = CtuOf(c)
  BY <1>4 DEF Cur
<1>11. \A u : ~Behind(c, <<>>, u) /\ ~Earlier(c, l, u)
  BY <1>4 DEF Behind, Earlier
<1>12. Laid(c, <<>>, l)
  BY <1>1, <1>4, <1>10 DEF Laid
<1>13. Fresh(c, <<>>, l)
  BY <1>11 DEF Fresh
<1>14. Edges(c, lim, <<>>, l)
  <2>1. "ctu" \notin Btt
    BY DEF Btt, Bt, Tt
  <2> QED BY <1>1, <1>4, <1>9, <1>10, <2>1 DEF Edges, CutSound
<1>15. Depths(c, <<>>, l)
  BY <1>1, <1>9, <1>10 DEF Depths
<1>16. Whole64(c, <<>>, l)
  BY <1>1, <1>10 DEF Whole64
<1>17. Geo(c, lim, <<>>)
  BY DEF Geo
<1>18. Geo(c, lim, q.levels)
  BY <1>8, <1>12, <1>13, <1>14, <1>15, <1>16, <1>17, GeoAppend DEF LevelGeo
<1>19. currArea(q) = CtuOf(c)
  BY <1>4, <1>6 DEF currArea
<1>20. Covered(c, {}, q.levels, FALSE)
  <2>1. CoveredBy(c, {}, <<>>, l, FALSE)
    BY <1>11 DEF CoveredBy
  <2> QED BY <1>8, <2>1, CoveredOf
<1> QED BY <1>2, <1>3, <1>4, <1>6, <1>18, <1>19, <1>20 DEF Stands, q

LEMMA RootOf ==
    ASSUME NEW c, NEW q, Stands(c, q), Len(q.levels) = 1
    PROVE  /\ currArea(q) = CtuOf(c) /\ Level(q).split = "ctu"
           /\ \A units : Covered(c, units, q.levels, TRUE) => units = Shown(c, CtuOf(c))
<1> DEFINE F == Front(q.levels)
           l == Level(q)
<1>1. /\ F \in Seq(PathLevel) /\ l \in PathLevel /\ q.levels = Append(F, l) /\ LevelSound(l)
      /\ (l.split = "ctu" <=> F = <<>>) /\ LevelGeo(c, Limits(c, q.chType), F, l)
      /\ currArea(q) = Cur(l) /\ l.idx + 1 \in DOMAIN l.parts
  BY LevelOf DEF PathOf, PathEnd
<1> HIDE DEF F, l
<1>2. F = <<>>
  <2>1. Len(F) \in Nat /\ Len(Append(F, l)) = Len(F) + 1
    BY <1>1, Appended
  <2>2. Len(F) = 0
    BY <1>1, <2>1
  <2> QED BY <1>1, <2>2
<1>3. l.parts = <<CtuOf(c)>>
  BY <1>1, <1>2 DEF LevelGeo, Laid
<1>4. l.idx = 0
  <2>1. l.idx \in Nat /\ DOMAIN l.parts = {1}
    BY <1>1, <1>3 DEF PathLevel
  <2> QED BY <1>1, <2>1
<1>5. Cur(l) = CtuOf(c)
  BY <1>3, <1>4 DEF Cur
<1>6. ASSUME NEW units, Covered(c, units, q.levels, TRUE)
      PROVE  units = Shown(c, CtuOf(c))
  <2>1. Covered(c, units, Append(F, l), TRUE)
    BY <1>1, <1>6
  <2>2. CoveredBy(c, units, F, l, TRUE)
    BY <1>1, <2>1, CoveredOf
  <2>3. \A u : ~Behind(c, F, u) /\ ~Earlier(c, l, u)
    BY <1>2, <1>4 DEF Behind, Earlier
  <2> QED BY <1>5, <2>2, <2>3 DEF CoveredBy, Shown
<1> QED BY <1>1, <1>2, <1>5, <1>6 DEF l, F
-----------------------------------------------------------------------------
(* Where the operations of a partitioner lead. *)
LEMMA NextStands ==
    ASSUME NEW c, NEW q, Stands(c, q), hasNextPart(q)
    PROVE  LET r == nextPart(q) IN
           /\ Stands(c, r) /\ SameKind(r, q) /\ Len(r.levels) = Len(q.levels)
           /\ r.levels = Append(Front(q.levels), Further(Level(q)))
           /\ Level(r) = Further(Level(q)) /\ Level(r).implicit = "unknown"
<1> DEFINE r == nextPart(q)
           F == Front(q.levels)
           m == Further(Level(q))
<1>1. q \in Partition /\ PathInv(q) /\ q.levels # <<>> /\ Ready(c)
  BY DEF Stands, PathInv
<1>2. F \in Seq(PathLevel) /\ LevelSound(Level(q)) /\ Level(q) \in PathLevel
  BY LevelOf DEF PathOf, PathEnd
<1>3. NextPath(r, q)
  BY <1>1, <1>2, NextsPath
<1>4. NextKeeps(r, q)
  BY <1>1, NextKept
<1>5. m \in PathLevel
  BY <1>2, FurtherSound DEF hasNextPart
<1>6. Geo(c, Limits(c, q.chType), Append(F, m))
  BY FurtherGeo
<1>7. m.implicit = "unknown"
  BY <1>2 DEF Further, PathLevel
<1>8. r.levels = Append(F, m) /\ SameKind(r, q) /\ r \in Partition
  BY <1>3 DEF NextPath
<1>9. Level(r) = m
  BY <1>2, <1>5, <1>8, Appended DEF Level
<1>10. PathInv(r) /\ Len(r.levels) = Len(q.levels)
  BY <1>4 DEF NextKeeps
<1> HIDE DEF r, F, m
<1>11. Stands(c, r)
  BY <1>1, <1>6, <1>8, <1>10 DEF Stands, SameKind
<1> QED BY <1>7, <1>8, <1>9, <1>10, <1>11 DEF r, F, m

LEMMA MayExitHere ==
    ASSUME NEW c, NEW q, Stands(c, q), ~hasNextPart(q), Level(q).split # "ctu"
    PROVE  MayExit(q)
<1> DEFINE F == Front(q.levels)
           l == Level(q)
<1>1. /\ F \in Seq(PathLevel) /\ l \in PathLevel /\ LevelSound(l)
      /\ (l.split = "ctu" <=> F = <<>>) /\ LevelGeo(c, Limits(c, q.chType), F, l)
  BY LevelOf DEF PathOf, PathEnd
<1>2. Last(F).implicit # "unknown"
  BY <1>1 DEF LevelGeo, Depths
<1>3. /\ l.split \in Btt => 0 < q.mt /\ TakenBy(l) <= q.bt
      /\ l.split = "qt" => 0 < q.qt /\ q.qt \in Nat
      /\ q.mt \in Nat /\ q.bt \in Nat
  BY DepthsOf
<1>4. l.split = "qt" \/ l.split \in Btt
  <2>1. l.split \in {"ctu"} \cup Splits
    BY <1>1 DEF PathLevel
  <2> QED BY <1>1, <2>1, SplitKinds DEF LevelSound
<1>5. l.split \in Btt => TakenBy(l) = IF l.split \in Tt THEN 2 ELSE 1
  <2>1. l.idx \in Nat /\ Len(l.parts) = PartsIn(l.split) /\ ~(l.idx + 1 < Len(l.parts))
    BY <1>1 DEF PathLevel, LevelSound, hasNextPart
  <2>2. l.split \in Tt => PartsIn(l.split) = 3
    BY PartIndexes
  <2>3. l.split \in Tt => l.idx # 1
    BY ONLY <2>1, <2>2
  <2>4. l.split \in Btt => l.split # "ctu" /\ (l.split \in Tt <=> l.split \notin Bt)
    BY SplitKinds
  <2> QED BY <2>3, <2>4 DEF TakenBy
<1> HIDE DEF F, l
<1>6. CASE l.split = "qt"
  BY <1>3, <1>6 DEF MayExit, l
<1>7. CASE l.split \in Btt
  <2>1. q.bt >= (IF l.split \in Tt THEN 2 ELSE 1)
    BY <1>3, <1>5, <1>7
  <2>2. l.split # "qt"
    BY <1>7, SplitKinds
  <2> QED BY <1>2, <1>3, <1>7, <2>1, <2>2 DEF MayExit, l, F
<1> QED BY <1>4, <1>6, <1>7

LEMMA BelowRoot ==
    ASSUME NEW c, NEW q, Stands(c, q), Len(q.levels) # 1
    PROVE  Level(q).split # "ctu" /\ Front(q.levels) # <<>> /\ Len(q.levels) = Len(Front(q.levels)) + 1
<1> DEFINE F == Front(q.levels)
<1>1. F \in Seq(PathLevel) /\ Level(q) \in PathLevel /\ q.levels = Append(F, Level(q))
      /\ (Level(q).split = "ctu" <=> F = <<>>)
  BY LevelOf DEF PathOf, PathEnd
<1>2. Len(Append(F, Level(q))) = Len(F) + 1
  BY <1>1, Appended
<1>3. F = <<>> => Len(F) = 0
  OBVIOUS
<1>4. F # <<>>
  <2>1. Len(F) + 1 # 1
    BY <1>1, <1>2
  <2>2. Len(F) # 0
    BY <2>1
  <2> QED BY <1>3, <2>2
<1>5. Len(q.levels) = Len(F) + 1
  BY <1>1, <1>2
<1>6. Level(q).split # "ctu"
  BY <1>1, <1>4
<1> QED BY <1>4, <1>5, <1>6

LEMMA ExitStands ==
    ASSUME NEW c, NEW q, Stands(c, q), ~hasNextPart(q), Len(q.levels) # 1
    PROVE  LET r == exitCurrSplit(q) IN
           /\ Stands(c, r) /\ SameKind(r, q) /\ Len(r.levels) + 1 = Len(q.levels)
           /\ r.levels = Front(q.levels) /\ InPicture(c, currArea(r)) /\ MayExit(q)
<1> DEFINE r == exitCurrSplit(q)
           F == Front(q.levels)
<1>1. q \in Partition /\ PathInv(q) /\ q.levels # <<>> /\ Ready(c)
  BY DEF Stands, PathInv
<1>2. Level(q).split # "ctu" /\ F # <<>>
  BY BelowRoot
<1>3. /\ F \in Seq(PathLevel) /\ LevelSound(Level(q)) /\ Level(q) \in PathLevel /\ Sound(F)
      /\ Geo(c, Limits(c, q.chType), F) /\ LevelGeo(c, Limits(c, q.chType), F, Level(q))
  BY LevelOf DEF PathOf, PathEnd
<1>4. LevelSound(Last(F))
  <2> HIDE DEF F
  <2>0. F \in Seq(PathLevel) /\ F # <<>>
    BY <1>2, <1>3
  <2>1. Len(F) \in Nat \ {0} /\ Last(F) = F[Len(F)]
    BY ONLY <2>0, LastOf
  <2>2. Len(F) \in DOMAIN F
    BY <2>0, <2>1
  <2> QED BY <1>3, <2>1, <2>2 DEF Sound
<1>5. ExitPath(r, q)
  BY <1>1, <1>2, <1>3, <1>4, ExitsPath
<1>6. ExitKeeps(r, q)
  BY <1>1, ExitKept
<1>7. r.levels = F /\ SameKind(r, q) /\ r \in Partition
  BY <1>5 DEF ExitPath
<1>8. PathInv(r) /\ Len(r.levels) + 1 = Len(q.levels)
  BY <1>6 DEF ExitKeeps
<1>9. InPicture(c, Cur(Last(F)))
  BY <1>2, <1>3 DEF LevelGeo, Depths
<1>10. MayExit(q)
  BY <1>2, MayExitHere
<1> HIDE DEF r, F
<1>11. Stands(c, r)
  BY <1>1, <1>3, <1>7, <1>8 DEF Stands, SameKind
<1>12. currArea(r) = Cur(Last(F))
  BY <1>7, <1>11, LevelOf DEF Level
<1> QED BY <1>7, <1>8, <1>9, <1>10, <1>11, <1>12 DEF r, F

LEMMA CheckStands ==
    ASSUME NEW c, NEW q, Stands(c, q)
    PROVE  LET r == Checked(c, q) IN
           /\ Stands(c, r) /\ SameKind(r, q) /\ Len(r.levels) = Len(q.levels)
           /\ r.levels = AskedPath(c, q) /\ currArea(r) = currArea(q)
<1> DEFINE r == Checked(c, q)
<1>1. q \in Partition /\ PathInv(q) /\ q.levels # <<>> /\ Ready(c)
  BY DEF Stands, PathInv
<1>2. CheckedKeeps(r, q)
  BY <1>1, CheckedKept
<1>3. r.levels = AskedPath(c, q)
  BY <1>1, CheckedFields DEF AskedPath
<1>4. Geo(c, Limits(c, q.chType), AskedPath(c, q))
  BY PathAsked
<1> HIDE DEF r
<1>5. r \in Partition /\ SameKind(r, q) /\ PathInv(r) /\ Len(r.levels) = Len(q.levels) /\ currArea(r) = currArea(q)
  BY <1>2 DEF CheckedKeeps
<1>6. Stands(c, r)
  BY <1>1, <1>3, <1>4, <1>5 DEF Stands, SameKind
<1> QED BY <1>3, <1>5, <1>6 DEF r

LEMMA DivideStands ==
    ASSUME NEW c, NEW q, Divides(c, q), NEW split \in Splits \ {"no"}, SplitSound(c, q, split)
    PROVE  LET r == splitCurrArea(c, q, split) IN
           /\ Stands(c, r) /\ SameKind(r, q) /\ Len(r.levels) = Len(q.levels) + 1
           /\ r.levels = Append(AskedPath(c, q), Child(c, q, split))
           /\ Level(r) = Child(c, q, split) /\ Level(r).implicit = "unknown"
           /\ InPicture(c, currArea(r))
<1> DEFINE r == splitCurrArea(c, q, split)
<1>1. q \in Partition /\ PathInv(q) /\ q.levels # <<>> /\ Ready(c) /\ Stands(c, q)
  BY DEF Stands, PathInv, Divides
<1>2. LevelSound(Level(q))
  BY <1>1, LevelOf DEF PathEnd
<1>3. split = "qt" => q.bt = 0 /\ q.mt = 0
  BY DEF SplitSound
<1>4. split \in Btt => (getImplicitSplit(c, q) = split <=> getImplicitSplit(c, q) # "no")
  BY ForcedIsTaken DEF SplitSound, MaySplit
<1>5. DividedPath(r, c, q, split)
  BY <1>1, <1>2, <1>3, DividesPath
<1>6. DividedKeeps(r, q)
  BY <1>1, <1>3, <1>4, DividedKept
<1>7. r \in Partition /\ SameKind(r, q) /\ r.levels = Append(AskedPath(c, q), Child(c, q, split))
  BY <1>5 DEF DividedPath, AskedPath
<1>8. PathInv(r) /\ Len(r.levels) = Len(q.levels) + 1 /\ Pos(currArea(r)) = Pos(currArea(q))
  BY <1>6 DEF DividedKeeps
<1>9. Geo(c, Limits(c, q.chType), Append(AskedPath(c, q), Child(c, q, split)))
  BY DividedGeo
<1>10. AskedPath(c, q) \in Seq(PathLevel) /\ Child(c, q, split) \in PathLevel
  BY <1>1, PathAsked, ChildParts
<1>11. Child(c, q, split).implicit = "unknown"
  BY DEF Child, PartLevel
<1>12. currArea(r).x = currArea(q).x /\ currArea(r).y = currArea(q).y
  BY <1>8 DEF Pos
<1> HIDE DEF r
<1>13. Level(r) = Child(c, q, split)
  BY <1>7, <1>10, Appended DEF Level
<1>14. Stands(c, r)
  BY <1>1, <1>7, <1>8, <1>9 DEF Stands, SameKind
<1>15. InPicture(c, currArea(r))
  BY <1>12 DEF InPicture, Divides
<1> QED BY <1>7, <1>8, <1>11, <1>13, <1>14, <1>15 DEF r

\* Two paths that begin alike.
Alike(s, t, n) ==
    \A i \in 1..n : /\ i \in DOMAIN s /\ i \in DOMAIN t /\ t[i] = s[i]
                    /\ SubSeq(t, 1, i) = SubSeq(s, 1, i)
LEMMA AlikeAppend ==
    ASSUME NEW s \in Seq(PathLevel), NEW l \in PathLevel
    PROVE  /\ Alike(s, Append(s, l), Len(s)) /\ Alike(Append(s, l), s, Len(s))
           /\ \A m \in PathLevel : Alike(Append(s, l), Append(s, m), Len(s))
           /\ \A m \in PathLevel, d \in PathLevel : Alike(Append(s, l), Append(Append(s, m), d), Len(s))
<1>1. Len(s) \in Nat /\ DOMAIN s = 1..Len(s)
  OBVIOUS
<1>2. ASSUME NEW m \in PathLevel
      PROVE  \A i \in 1..Len(s) : /\ i \in DOMAIN s /\ i \in DOMAIN Append(s, m) /\ Append(s, m)[i] = s[i]
                                  /\ SubSeq(Append(s, m), 1, i) = SubSeq(s, 1, i)
  <2>1. /\ DOMAIN Append(s, m) = 1..(Len(s) + 1) /\ \A i \in 1..Len(s) : Append(s, m)[i] = s[i]
    BY Appended
  <2>2. \A i \in 0..Len(s) : SubSeq(Append(s, m), 1, i) = SubSeq(s, 1, i)
    BY PrefixOf
  <2> QED BY <1>1, <2>1, <2>2
<1>3. ASSUME NEW m \in PathLevel, NEW d \in PathLevel
      PROVE  \A i \in 1..Len(s) : /\ i \in DOMAIN Append(Append(s, m), d) /\ Append(Append(s, m), d)[i] = s[i]
                                  /\ SubSeq(Append(Append(s, m), d), 1, i) = SubSeq(s, 1, i)
  <2> DEFINE t == Append(s, m)
  <2>1. t \in Seq(PathLevel) /\ Len(t) = Len(s) + 1
    BY Appended
  <2> HIDE DEF t
  <2>2. /\ DOMAIN Append(t, d) = 1..(Len(t) + 1) /\ \A i \in 1..Len(t) : Append(t, d)[i] = t[i]
    BY <2>1, Appended
  <2>3. \A i \in 0..Len(t) : SubSeq(Append(t, d), 1, i) = SubSeq(t, 1, i)
    BY <2>1, PrefixOf
  <2>4. \A i \in 1..Len(s) : t[i] = s[i] /\ SubSeq(t, 1, i) = SubSeq(s, 1, i)
    BY <1>2 DEF t
  <2>5. \A i \in 1..Len(s) : i \in 1..Len(t) /\ i \in 0..Len(t) /\ i \in 1..(Len(t) + 1)
    BY <1>1, <2>1
  <2>6. ASSUME NEW i \in 1..Len(s)
        PROVE  /\ i \in DOMAIN Append(t, d) /\ Append(t, d)[i] = s[i]
               /\ SubSeq(Append(t, d), 1, i) = SubSeq(s, 1, i)
    BY <2>2, <2>3, <2>4, <2>5
  <2> QED BY <2>6 DEF t
<1>4. Alike(s, Append(s, l), Len(s)) /\ Alike(Append(s, l), s, Len(s))
  BY <1>2 DEF Alike
<1>5. ASSUME NEW m \in PathLevel
      PROVE  Alike(Append(s, l), Append(s, m), Len(s))
  BY <1>2 DEF Alike
<1>6. ASSUME NEW m \in PathLevel, NEW d \in PathLevel
      PROVE  Alike(Append(s, l), Append(Append(s, m), d), Len(s))
  BY <1>2, <1>3 DEF Alike
<1> QED BY <1>4, <1>5, <1>6
-----------------------------------------------------------------------------
(* The walk, as a whole. *)
WalkInv == Ready(cs) /\ TreeInv /\ CoverInv
LEMMA WalkParts ==
    ASSUME WalkInv
    PROVE  /\ Ready(cs) /\ Sized(cs) /\ Stands(cs, p) /\ calls \in Seq(Call)
           /\ Begins(cs, phase, p) /\ Lone(cs, p, calls)
           /\ LevelCount(p, calls) /\ Trees(isDualITree(cs), p, calls)
           /\ Waits(isDualITree(cs), p, waiting, calls)
           /\ p.chType \in {"luma", "chroma"} /\ p.treeType \in {"D", "L", "C"}
           /\ p.modeType \in {"all", "intra", "inter"}
           /\ waiting # NoPartitioner <=> isDualITree(cs) /\ 64 < cs.ctu
           /\ waiting = NoPartitioner =>
                 CoversAlone(cs, phase, p, calls, coded["luma"], coded["chroma"])
           /\ waiting # NoPartitioner =>
                 /\ CoversPair(cs, phase, p, waiting, calls, coded)
                 /\ Stands(cs, waiting) /\ waiting.treeType = "D"
                 /\ waiting.chType \in {"luma", "chroma"}
<1>1. Ready(cs) /\ TreeInv /\ Cover(cs, phase, p, waiting, calls, coded)
  BY DEF WalkInv, CoverInv
<1>2. /\ p \in Partition /\ PathInv(p) /\ calls \in Seq(Call)
      /\ LevelCount(p, calls) /\ Trees(isDualITree(cs), p, calls)
      /\ Waits(isDualITree(cs), p, waiting, calls)
      /\ p.chType \in {"luma", "chroma"} /\ p.treeType \in {"D", "L", "C"}
      /\ p.modeType \in {"all", "intra", "inter"}
  BY <1>1, TreeParts
<1>3. /\ Geo(cs, Limits(cs, p.chType), p.levels)
      /\ Begins(cs, phase, p) /\ Lone(cs, p, calls)
      /\ waiting # NoPartitioner <=> isDualITree(cs) /\ 64 < cs.ctu
      /\ waiting = NoPartitioner =>
            CoversAlone(cs, phase, p, calls, coded["luma"], coded["chroma"])
      /\ waiting # NoPartitioner => CoversPair(cs, phase, p, waiting, calls, coded)
  BY <1>1, Zenon DEF Cover
<1>4. Sized(cs) /\ Stands(cs, p)
  BY <1>1, <1>2, <1>3 DEF Stands, Ready
<1>5. ASSUME waiting # NoPartitioner
      PROVE  /\ Stands(cs, waiting) /\ waiting.treeType = "D"
             /\ waiting.chType \in {"luma", "chroma"}
  <2>1. waiting \in Partition /\ PathInv(waiting) /\ waiting.treeType = "D"
    BY <1>2, <1>5 DEF Waits
  <2>2. Geo(cs, Limits(cs, waiting.chType), waiting.levels)
    BY <1>3, <1>5 DEF CoversPair
  <2> QED BY <1>1, <2>1, <2>2 DEF Stands, Partition
<1> QED BY <1>1, <1>2, <1>3, <1>4, <1>5

LEMMA CoverMade ==
    ASSUME NEW q, NEW w, NEW k, NEW ph, NEW cod, UNCHANGED cs,
           p' = q, waiting' = w, calls' = k, phase' = ph, coded' = cod,
           Geo(cs, Limits(cs, q.chType), q.levels), Begins(cs, ph, q), Lone(cs, q, k),
           w # NoPartitioner <=> isDualITree(cs) /\ 64 < cs.ctu,
           w = NoPartitioner => CoversAlone(cs, ph, q, k, cod["luma"], cod["chroma"]),
           w # NoPartitioner => CoversPair(cs, ph, q, w, k, cod),
           ph = "done" => /\ cod["luma"] = Shown(cs, CtuOf(cs))
                          /\ cs.format # "400" => cod["chroma"] = Shown(cs, CtuOf(cs))
    PROVE  CoverInv'
<1>1. Cover(cs, ph, q, w, k, cod)
  BY Zenon DEF Cover
<1>2. Cover(cs', phase', p', waiting', calls', coded')
  BY <1>1
<1> QED BY <1>2 DEF CoverInv

\* The same calls, or fewer, above blocks that stay where they were.
LEMMA LoneKept ==
    ASSUME NEW c, NEW q, NEW k \in Seq(Call), Lone(c, q, k), NEW r,
           r.treeType = q.treeType, r.modeType = q.modeType,
           \A i \in DOMAIN k : i \in DOMAIN q.levels
              => i \in DOMAIN r.levels /\ Cur(r.levels[i]) = Cur(q.levels[i])
    PROVE  Lone(c, r, k)
BY DEF Lone

LEMMA AloneKept ==
    ASSUME NEW c, NEW q, NEW k, NEW luma, NEW chroma, NEW ph, CoversAlone(c, ph, q, k, luma, chroma),
           NEW r, NEW k2, NEW ph2, r.treeType = q.treeType, r.chType = q.chType,
           \A units : Covered(c, units, q.levels, Walked(ph)) => Covered(c, units, r.levels, Walked(ph2)),
           r.treeType = "C" =>
              \A units : Covered(c, units, q.levels, TRUE) => Covered(c, units, r.levels, TRUE),
           r.treeType = "L" => \A i \in DOMAIN k : k[i].chromaNotSplit =>
              /\ i \in DOMAIN k2 /\ k2[i].chromaNotSplit
              /\ SubSeq(r.levels, 1, i) = SubSeq(q.levels, 1, i)
    PROVE  CoversAlone(c, ph2, r, k2, luma, chroma)
<1>1. isDualITree(c) /\ r.chType = "luma" => Covered(c, luma, r.levels, Walked(ph2)) /\ chroma = {}
  BY DEF CoversAlone
<1>2. isDualITree(c) /\ r.chType = "chroma" => Covered(c, chroma, r.levels, Walked(ph2)) /\ luma = Shown(c, CtuOf(c))
  BY DEF CoversAlone
<1>3. ~isDualITree(c) => Covered(c, luma, r.levels, Walked(ph2) \/ r.treeType = "C")
  <2>1. CASE r.treeType = "C"
    <3>1. (Walked(ph) \/ q.treeType = "C") = TRUE /\ (Walked(ph2) \/ r.treeType = "C") = TRUE
      BY <2>1
    <3>2. ~isDualITree(c) => Covered(c, luma, q.levels, TRUE)
      BY <3>1 DEF CoversAlone
    <3> QED BY <2>1, <3>1, <3>2
  <2>2. CASE r.treeType # "C"
    <3>1. (Walked(ph) \/ q.treeType = "C") = Walked(ph) /\ (Walked(ph2) \/ r.treeType = "C") = Walked(ph2)
      BY <2>2 DEF Walked
    <3>2. ~isDualITree(c) => Covered(c, luma, q.levels, Walked(ph))
      BY <3>1 DEF CoversAlone
    <3> QED BY <3>1, <3>2
  <2> QED BY <2>1, <2>2
<1>4. ~isDualITree(c) /\ c.format = "400" => chroma = {}
  BY DEF CoversAlone
<1>5. ~isDualITree(c) /\ c.format # "400" /\ r.treeType # "L" => Covered(c, chroma, r.levels, Walked(ph2))
  BY DEF CoversAlone
<1>6. ASSUME ~isDualITree(c), c.format # "400", r.treeType = "L"
      PROVE  \E i \in DOMAIN k2 : k2[i].chromaNotSplit /\ Covered(c, chroma, SubSeq(r.levels, 1, i), FALSE)
  <2>1. PICK i \in DOMAIN k : k[i].chromaNotSplit /\ Covered(c, chroma, SubSeq(q.levels, 1, i), FALSE)
    BY <1>6 DEF CoversAlone
  <2>2. /\ i \in DOMAIN k2 /\ k2[i].chromaNotSplit
        /\ SubSeq(r.levels, 1, i) = SubSeq(q.levels, 1, i)
    BY <1>6, <2>1
  <2> QED BY <2>1, <2>2
<1> QED BY <1>1, <1>2, <1>3, <1>4, <1>5, <1>6 DEF CoversAlone

LEMMA PairKept ==
    ASSUME NEW c, NEW q, NEW w, NEW k, NEW cod, NEW ph, CoversPair(c, ph, q, w, k, cod), k # <<>>,
           NEW r, NEW k2, NEW ph2, r.chType = q.chType, k2 # <<>>,
           \A units : Covered(c, units, q.levels, Walked(ph)) => Covered(c, units, r.levels, Walked(ph2)),
           r.levels[2].parts = q.levels[2].parts, r.levels[2].idx = q.levels[2].idx
    PROVE  CoversPair(c, ph2, r, w, k2, cod)
<1>1. Covered(c, cod[w.chType], w.levels, w.chType = "luma" \/ FALSE)
  BY DEF CoversPair
<1> QED BY <1>1 DEF CoversPair
-----------------------------------------------------------------------------
\* The unit at hand lies in the picture.
LEMMA UnitShown ==
    ASSUME WalkInv, InPicture(cs, currArea(p)), ~Cut(cs, currArea(p))
    PROVE  /\ HasBottomLeft(cs, currArea(p)) /\ HasTopRight(cs, currArea(p))
           /\ UnitsOf(currArea(p)) = Shown(cs, currArea(p))
           /\ currArea(p) = Cur(Last(p.levels))
<1>1. Sized(cs) /\ Stands(cs, p)
  BY WalkParts
<1>2. OnGrid(cs, currArea(p)) /\ currArea(p) = Cur(Last(p.levels))
  BY <1>1, LevelOf DEF Level
<1>3. HasBottomLeft(cs, currArea(p)) /\ HasTopRight(cs, currArea(p))
  BY DEF Cut
<1> QED BY <1>1, <1>2, <1>3, InsideShows

\* The channels of the unit at hand.
LEMMA ChannelsOf ==
    ASSUME WalkInv
    PROVE  /\ isDualITree(cs) => Channels = {p.chType}
           /\ p.treeType = "C" => Channels = {"chroma"} /\ ~isDualITree(cs) /\ p.chType = "chroma"
           /\ p.treeType = "L" => Channels = {"luma"} /\ ~isDualITree(cs) /\ p.chType = "luma"
           /\ ~isDualITree(cs) /\ p.treeType = "D" =>
                 Channels = IF cs.format = "400" THEN {"luma"} ELSE {"luma", "chroma"}
           /\ p.treeType \in {"L", "C"} \/ isDualITree(cs) => cs.format # "400"
<1>1. /\ Ready(cs) /\ Lone(cs, p, calls) /\ Trees(isDualITree(cs), p, calls) /\ calls \in Seq(Call)
      /\ p.treeType \in {"D", "L", "C"}
  BY WalkParts
<1>2. isDualITree(cs) => cs.format # "400"
  BY <1>1 DEF Ready, isDualITree
<1>3. p.treeType = "C" => cs.format # "400" /\ p.chType = "chroma" /\ ~isDualITree(cs)
  <2>1. ASSUME p.treeType = "C" PROVE \E i \in DOMAIN calls : calls[i].chromaNotSplit
    <3>1. calls # <<>> /\ Last(calls).chromaNotSplit
      BY <1>1, <2>1 DEF Lone
    <3>2. Len(calls) \in DOMAIN calls /\ Last(calls) = calls[Len(calls)]
      <4>1. Len(calls) \in Nat \ {0} /\ Last(calls) = calls[Len(calls)]
        BY <1>1, <3>1, LastOf
      <4> QED BY <1>1, <4>1
    <3> QED BY <3>1, <3>2
  <2> QED BY <1>1, <2>1 DEF Lone, Trees
<1>4. p.treeType = "L" => cs.format # "400" /\ p.chType = "luma" /\ ~isDualITree(cs)
  BY <1>1 DEF Lone, Trees
<1> QED BY <1>1, <1>2, <1>3, <1>4 DEF Channels

\* Units under the middle of a block belong to it.
LEMMA MiddleUnit ==
    ASSUME NEW m \in UnitSides, NEW A \in Nat, NEW W \in Sides, NEW x \in Int,
           x \in ((A + (W \div 2)) \div m)..((((A + (W \div 2)) + 1) - 1) \div m)
    PROVE  x \in (A \div m)..(((A + W) - 1) \div m)
<1>1. W \in Nat /\ 4 <= W /\ W \div 2 \in Nat /\ W \div 2 <= W - 2
  BY DEF Sides, UnitSides
<1>2. \A h \in Nat : h <= W - 2 /\ x \in ((A + h) \div m)..((((A + h) + 1) - 1) \div m)
         => x \in (A \div m)..(((A + W) - 1) \div m)
  <2>1. CASE m = 4
    BY <1>1, <2>1
  <2>2. CASE m = 8
    BY <1>1, <2>2
  <2>3. CASE m = 16
    BY <1>1, <2>3
  <2>4. CASE m = 32
    BY <1>1, <2>4
  <2>5. CASE m = 64
    BY <1>1, <2>5
  <2> QED BY <2>1, <2>2, <2>3, <2>4, <2>5 DEF UnitSides
<1> QED BY <1>1, <1>2

LEMMA MiddleUnits ==
    ASSUME NEW a, Sized(cs), OnGrid(cs, a)
    PROVE  UnitsOf([x |-> a.x + a.w \div 2, y |-> a.y + a.h \div 2, w |-> 1, h |-> 1]) \subseteq UnitsOf(a)
<1> DEFINE b == [x |-> a.x + a.w \div 2, y |-> a.y + a.h \div 2, w |-> 1, h |-> 1]
           m == cs.minCu
           X == a.x + (a.w \div 2)
           Y == a.y + (a.h \div 2)
<1>1. a.x \in Nat /\ a.y \in Nat /\ a.w \in Sides /\ a.h \in Sides /\ m \in UnitSides
  BY BlockSides
<1>2. b.x = X /\ b.y = Y /\ b.w = 1 /\ b.h = 1
  OBVIOUS
<1>3. UnitsOf(b) = {y * (cs.ctu \div m) + x : x \in (X \div m)..(((X + 1) - 1) \div m),
                                              y \in (Y \div m)..(((Y + 1) - 1) \div m)}
  BY <1>2 DEF UnitsOf
<1>4. UnitsOf(a) = {y * (cs.ctu \div m) + x : x \in (a.x \div m)..(((a.x + a.w) - 1) \div m),
                                              y \in (a.y \div m)..(((a.y + a.h) - 1) \div m)}
  BY DEF UnitsOf
<1>5. \A x \in (X \div m)..(((X + 1) - 1) \div m) : x \in (a.x \div m)..(((a.x + a.w) - 1) \div m)
  BY <1>1, MiddleUnit
<1>6. \A y \in (Y \div m)..(((Y + 1) - 1) \div m) : y \in (a.y \div m)..(((a.y + a.h) - 1) \div m)
  BY <1>1, MiddleUnit
<1> HIDE DEF b, m, X, Y
<1> QED BY <1>3, <1>4, <1>5, <1>6 DEF b

\* A unit of chroma finds the luma beneath it.
LEMMA LumaThere ==
    ASSUME WalkInv, InPicture(cs, currArea(p)), ~Cut(cs, currArea(p)), phase = "tree"
    PROVE  HasLuma
<1> DEFINE a == currArea(p)
<1>1. Sized(cs) /\ Stands(cs, p) /\ calls \in Seq(Call)
  BY WalkParts
<1>2. UnitsOf(a) = Shown(cs, a) /\ a = Cur(Last(p.levels))
  BY UnitShown
<1>3. OnGrid(cs, a) /\ a = Cur(Level(p)) /\ LevelGeo(cs, Limits(cs, p.chType), Front(p.levels), Level(p))
      /\ PathOf(p, Front(p.levels), Level(p))
  BY <1>1, LevelOf
<1>4. SUFFICES ASSUME Channels = {"chroma"} PROVE Shown(cs, a) \subseteq coded["luma"]
  BY <1>1, <1>2, <1>3, MiddleUnits DEF HasLuma
<1>5. p.chType = "chroma" /\ (isDualITree(cs) \/ p.treeType = "C")
  <2>1. p.treeType \in {"D", "L", "C"}
    BY WalkParts
  <2>2. "luma" # "chroma" /\ {"luma"} # {"chroma"} /\ {"luma", "chroma"} # {"chroma"}
    OBVIOUS
  <2>3. ~isDualITree(cs) => p.treeType = "C"
    BY <1>4, <2>1, <2>2, ChannelsOf
  <2>4. isDualITree(cs) => p.chType = "chroma"
    BY <1>4, ChannelsOf
  <2> QED BY <2>3, <2>4, ChannelsOf
<1> HIDE DEF a
<1>6. CASE ~isDualITree(cs)
  <2>1. p.treeType = "C" /\ waiting = NoPartitioner
    BY <1>5, <1>6, WalkParts
  <2>2. CoversAlone(cs, phase, p, calls, coded["luma"], coded["chroma"])
    BY <2>1, WalkParts
  <2>3. Covered(cs, coded["luma"], p.levels, TRUE)
    <3>1. (Walked(phase) \/ p.treeType = "C") = TRUE
      BY <2>1
    <3> QED BY <1>6, <2>2, <3>1 DEF CoversAlone
  <2> QED BY <1>2, <2>3 DEF Covered, Shown
<1>7. CASE isDualITree(cs) /\ waiting = NoPartitioner
  <2>1. coded["luma"] = Shown(cs, CtuOf(cs))
    BY <1>5, <1>7, WalkParts DEF CoversAlone
  <2>2. \A u \in Nat : Hits(cs, a, u) => Hits(cs, CtuOf(cs), u)
    <3>1. /\ CtuOf(cs).x = 0 /\ CtuOf(cs).y = 0 /\ CtuOf(cs).w = cs.ctu /\ CtuOf(cs).h = cs.ctu
      BY <1>1, CtuOnGrid
    <3>2. a.x \in Nat /\ a.y \in Nat /\ a.w \in Nat /\ a.h \in Nat /\ cs.ctu \in Nat
          /\ a.x + a.w <= cs.ctu /\ a.y + a.h <= cs.ctu
      BY <1>1, <1>3, BlockSides DEF OnGrid
    <3>3. \A u \in Nat : UnitX(cs, u) \in Nat /\ UnitY(cs, u) \in Nat
      BY <1>1, RowsOf
    <3> QED BY <3>1, <3>2, <3>3 DEF Hits
  <2> QED BY <2>1, <2>2 DEF Shown
<1>8. CASE isDualITree(cs) /\ waiting # NoPartitioner
  <2>1. /\ CoversPair(cs, phase, p, waiting, calls, coded) /\ Stands(cs, waiting)
        /\ Waits(isDualITree(cs), p, waiting, calls) /\ LevelCount(p, calls)
        /\ Trees(isDualITree(cs), p, calls) /\ waiting.chType \in {"luma", "chroma"}
    BY <1>8, WalkParts
  <2>2. waiting.chType = "luma" /\ calls # <<>> /\ Len(waiting.levels) = 2
    BY <1>5, <1>8, <2>1 DEF Waits
  <2>3. Covered(cs, coded["luma"], waiting.levels, TRUE)
    BY <2>1, <2>2 DEF CoversPair
  <2>4. p.levels[2].parts = waiting.levels[2].parts /\ p.levels[2].idx = waiting.levels[2].idx
    BY <2>1, <2>2 DEF CoversPair
  <2>5. Last(waiting.levels) = waiting.levels[2]
    BY <2>2 DEF Last
  <2>6. Cur(Last(waiting.levels)) = Cur(p.levels[2])
    BY <2>4, <2>5 DEF Cur
  <2>7. ASSUME NEW u \in Nat, u \in Shown(cs, a)
        PROVE  u \in Shown(cs, Cur(p.levels[2]))
    <3> DEFINE F == Front(p.levels)
    <3>1. F \in Seq(PathLevel) /\ Level(p) \in PathLevel /\ p.levels = Append(F, Level(p))
      BY <1>3 DEF PathOf
    <3>2. \A i \in DOMAIN F : u \in Shown(cs, Cur(F[i]))
      BY <1>3, <2>7 DEF LevelGeo, Fresh
    <3>3. /\ Len(F) \in Nat /\ Len(Append(F, Level(p))) = Len(F) + 1
          /\ DOMAIN F = 1..Len(F) /\ Append(F, Level(p))[Len(F) + 1] = Level(p)
          /\ \A i \in 1..Len(F) : Append(F, Level(p))[i] = F[i]
      BY <3>1, Appended
    <3>4. Len(calls) \in Nat /\ Len(calls) # 0
      BY <1>1, <2>2
    <3>5. Len(p.levels) = Len(calls) + 1
      BY <1>8, <2>1 DEF LevelCount, Trees
    <3>6. Len(F) + 1 = Len(calls) + 1
      BY <3>1, <3>3, <3>5
    <3> HIDE DEF F
    <3>7. 2 \in 1..Len(F) \/ 2 = Len(F) + 1
      BY <3>3, <3>4, <3>6
    <3> QED BY <1>3, <2>7, <3>1, <3>2, <3>3, <3>7
  <2>8. ASSUME NEW u \in Nat, u \in Shown(cs, a)
        PROVE  u \in coded["luma"]
    BY <2>3, <2>6, <2>7, <2>8 DEF Covered
  <2> QED BY <2>8 DEF Shown
<1> QED BY <1>6, <1>7, <1>8
-----------------------------------------------------------------------------
LEMMA CodeUnitCovers == ASSUME WalkInv, CodeUnit PROVE CoverInv'
<1> DEFINE new == [c \in {"luma", "chroma"} |->
                      IF c \in Channels THEN coded[c] \cup UnitsOf(currArea(p)) ELSE coded[c]]
           S == Shown(cs, Cur(Last(p.levels)))
<1>1. /\ phase = "unit" /\ coded' = new /\ phase' = "return"
      /\ UNCHANGED <<cs, p, waiting, calls, qg>>
  BY DEF CodeUnit
<1>2. /\ Ready(cs) /\ Stands(cs, p) /\ Begins(cs, phase, p) /\ Lone(cs, p, calls)
      /\ (waiting # NoPartitioner <=> isDualITree(cs) /\ 64 < cs.ctu)
      /\ p.chType \in {"luma", "chroma"} /\ p.treeType \in {"D", "L", "C"}
  BY WalkParts
<1>3. InPicture(cs, currArea(p)) /\ ~Cut(cs, currArea(p))
  BY <1>1, <1>2, LevelOf DEF Begins
<1>4. UnitsOf(currArea(p)) = S
  BY <1>3, UnitShown
<1>5. \A c \in {"luma", "chroma"} : new[c] = IF c \in Channels THEN coded[c] \cup S ELSE coded[c]
  BY <1>4
<1>6. \A units : Covered(cs, units, p.levels, FALSE) => Covered(cs, units \cup S, p.levels, TRUE)
  BY CoveredUnit
<1>7. Walked("unit") = FALSE /\ Walked("return") = TRUE
  BY DEF Walked
<1> HIDE DEF new, S
<1>8. Geo(cs, Limits(cs, p.chType), p.levels)
  BY <1>2 DEF Stands
<1>9. Begins(cs, "return", p)
  BY <1>1, <1>2 DEF Begins
<1>10. ASSUME waiting = NoPartitioner
       PROVE  CoversAlone(cs, "return", p, calls, new["luma"], new["chroma"])
  <2>1. CoversAlone(cs, "unit", p, calls, coded["luma"], coded["chroma"])
    BY <1>1, <1>10, WalkParts
  <2>2. CASE isDualITree(cs)
    <3>1. Channels = {p.chType}
      BY <2>2, ChannelsOf
    <3>2. p.chType = "luma" => /\ new["luma"] = coded["luma"] \cup S /\ new["chroma"] = coded["chroma"]
                               /\ Covered(cs, coded["luma"], p.levels, FALSE) /\ coded["chroma"] = {}
      BY <1>5, <1>7, <2>1, <2>2, <3>1 DEF CoversAlone
    <3>3. p.chType = "chroma" => /\ new["chroma"] = coded["chroma"] \cup S /\ new["luma"] = coded["luma"]
                                 /\ Covered(cs, coded["chroma"], p.levels, FALSE)
                                 /\ coded["luma"] = Shown(cs, CtuOf(cs))
      BY <1>5, <1>7, <2>1, <2>2, <3>1 DEF CoversAlone
    <3> QED BY <1>6, <1>7, <2>2, <3>2, <3>3 DEF CoversAlone
  <2>3. CASE ~isDualITree(cs) /\ p.treeType = "C"
    <3>1. Channels = {"chroma"} /\ cs.format # "400"
      BY <2>3, ChannelsOf
    <3>2. new["chroma"] = coded["chroma"] \cup S /\ new["luma"] = coded["luma"]
      BY <1>5, <3>1
    <3>3. (Walked("unit") \/ p.treeType = "C") = TRUE /\ (Walked("return") \/ p.treeType = "C") = TRUE
      BY <2>3
    <3>4. Covered(cs, coded["luma"], p.levels, TRUE) /\ Covered(cs, coded["chroma"], p.levels, FALSE)
      BY <1>7, <2>1, <2>3, <3>1, <3>3 DEF CoversAlone
    <3>5. Covered(cs, new["luma"], p.levels, TRUE) /\ Covered(cs, new["chroma"], p.levels, TRUE)
      BY <1>6, <3>2, <3>4
    <3> QED BY <1>7, <2>3, <3>1, <3>3, <3>5 DEF CoversAlone
  <2>4. CASE ~isDualITree(cs) /\ p.treeType = "L"
    <3>1. Channels = {"luma"} /\ cs.format # "400"
      BY <2>4, ChannelsOf
    <3>2. new["luma"] = coded["luma"] \cup S /\ new["chroma"] = coded["chroma"]
      BY <1>5, <3>1
    <3>3. (Walked("unit") \/ p.treeType = "C") = FALSE /\ (Walked("return") \/ p.treeType = "C") = TRUE
      BY <1>7, <2>4
    <3>4. Covered(cs, coded["luma"], p.levels, FALSE)
      BY <2>1, <2>4, <3>3 DEF CoversAlone
    <3>5. Covered(cs, new["luma"], p.levels, TRUE)
      BY <1>6, <3>2, <3>4
    <3>6. \E i \in DOMAIN calls : /\ calls[i].chromaNotSplit
                                  /\ Covered(cs, coded["chroma"], SubSeq(p.levels, 1, i), FALSE)
      BY <2>1, <2>4, <3>1 DEF CoversAlone
    <3> QED BY <2>4, <3>1, <3>2, <3>3, <3>5, <3>6 DEF CoversAlone
  <2>5. CASE ~isDualITree(cs) /\ p.treeType = "D"
    <3>1. Channels = IF cs.format = "400" THEN {"luma"} ELSE {"luma", "chroma"}
      BY <2>5, ChannelsOf
    <3>2. (Walked("unit") \/ p.treeType = "C") = FALSE /\ (Walked("return") \/ p.treeType = "C") = TRUE
      BY <1>7, <2>5
    <3>3. Covered(cs, coded["luma"], p.levels, FALSE)
      BY <2>1, <2>5, <3>2 DEF CoversAlone
    <3>4. new["luma"] = coded["luma"] \cup S
      BY <1>5, <3>1
    <3>5. Covered(cs, new["luma"], p.levels, TRUE)
      BY <1>6, <3>3, <3>4
    <3>6. cs.format = "400" => new["chroma"] = {}
      BY <1>5, <2>1, <2>5, <3>1 DEF CoversAlone
    <3>7. cs.format # "400" => Covered(cs, new["chroma"], p.levels, TRUE)
      <4>1. cs.format # "400" => Covered(cs, coded["chroma"], p.levels, FALSE)
        BY <1>7, <2>1, <2>5 DEF CoversAlone
      <4>2. cs.format # "400" => new["chroma"] = coded["chroma"] \cup S
        BY <1>5, <3>1
      <4> QED BY <1>6, <4>1, <4>2
    <3> QED BY <1>7, <2>5, <3>2, <3>5, <3>6, <3>7 DEF CoversAlone
  <2> QED BY <1>2, <2>2, <2>3, <2>4, <2>5
<1>11. ASSUME waiting # NoPartitioner
       PROVE  CoversPair(cs, "return", p, waiting, calls, new)
  <2>1. /\ CoversPair(cs, "unit", p, waiting, calls, coded) /\ waiting.chType \in {"luma", "chroma"}
        /\ Waits(isDualITree(cs), p, waiting, calls)
    BY <1>1, <1>11, WalkParts
  <2>2. Channels = {p.chType} /\ waiting.chType # p.chType
    BY <1>2, <1>11, <2>1, ChannelsOf DEF Waits
  <2>3. new[p.chType] = coded[p.chType] \cup S /\ new[waiting.chType] = coded[waiting.chType]
    BY <1>2, <1>5, <2>1, <2>2
  <2>4. calls # <<>>
    BY <2>1 DEF CoversPair
  <2>5. Covered(cs, coded[p.chType], p.levels, FALSE)
    BY <1>7, <2>1 DEF CoversPair
  <2>6. Covered(cs, new[p.chType], p.levels, TRUE)
    BY <1>6, <2>3, <2>5
  <2>7. Covered(cs, coded[waiting.chType], waiting.levels, waiting.chType = "luma" \/ FALSE)
    BY <2>1, <2>4 DEF CoversPair
  <2> QED BY <1>7, <2>1, <2>3, <2>4, <2>6, <2>7 DEF CoversPair
<1> QED BY <1>1, <1>2, <1>8, <1>9, <1>10, <1>11, CoverMade

\* A unit that is not divided.
LEMMA UnitWhole ==
    ASSUME WalkInv, phase = "tree", "no" \in canSplit(cs, p)
    PROVE  /\ InPicture(cs, currArea(p)) /\ ~Cut(cs, currArea(p))
           /\ waiting # NoPartitioner => calls # <<>>
<1>1. /\ Stands(cs, p) /\ Begins(cs, phase, p) /\ p.treeType \in {"D", "L", "C"}
      /\ Trees(isDualITree(cs), p, calls)
  BY WalkParts
<1>2. currArea(p) = Cur(Level(p))
  BY <1>1, LevelOf
<1>3. InPicture(cs, currArea(p))
  BY <1>1, <1>2 DEF Begins
<1>4. CASE p.treeType = "C"
  <2>1. ~Cut(cs, currArea(p)) /\ ~isDualITree(cs)
    BY <1>1, <1>2, <1>4 DEF Begins, Trees
  <2> QED BY <1>3, <2>1, WalkParts
<1>5. CASE p.treeType # "C"
  <2>1. Level(p).implicit = "unknown"
    BY <1>1, <1>5 DEF Begins
  <2>2. Divides(cs, p)
    BY <1>1, <1>3, <1>5, <2>1 DEF Divides
  <2>3. getImplicitSplit(cs, p) = ForcedSplit(cs, p)
    BY <2>1 DEF getImplicitSplit
  <2>4. ForcedSplit(cs, p) = "no"
    <3>1. SUFFICES ASSUME getImplicitSplit(cs, p) # "no" PROVE FALSE
      BY <2>3
    <3>2. "no" \in ImplicitChoice(cs, p, getImplicitSplit(cs, p))
      BY <1>5, <3>1 DEF canSplit
    <3> QED BY <3>2 DEF ImplicitChoice, Bt
  <2>5. HasBottomLeft(cs, currArea(p)) /\ HasTopRight(cs, currArea(p))
    BY <2>2, <2>4, ForcedFacts
  <2>6. waiting # NoPartitioner => calls # <<>>
    <3>1. SUFFICES ASSUME waiting # NoPartitioner, calls = <<>> PROVE FALSE
      OBVIOUS
    <3>2. isDualITree(cs) /\ 64 < cs.ctu /\ LevelCount(p, calls) /\ Sized(cs)
      BY <3>1, WalkParts
    <3>3. Len(p.levels) = 1
      BY <1>5, <3>1, <3>2 DEF LevelCount
    <3>4. currArea(p) = CtuOf(cs)
      BY <1>1, <3>3, RootOf
    <3>5. 64 < currArea(p).w
      BY <3>2, <3>4, CtuOnGrid
    <3> QED BY <2>2, <2>4, <3>2, <3>5, ForcedFacts
  <2> QED BY <1>3, <2>5, <2>6 DEF Cut
<1> QED BY <1>4, <1>5

LEMMA PathAlike ==
    ASSUME NEW c, NEW q, Stands(c, q)
    PROVE  LET n == Len(Front(q.levels)) IN
           /\ n \in Nat /\ Len(q.levels) = n + 1
           /\ Alike(q.levels, AskedPath(c, q), n) /\ Alike(q.levels, Front(q.levels), n)
           /\ n + 1 \in DOMAIN q.levels /\ q.levels[n + 1] = Level(q)
           /\ n + 1 \in DOMAIN AskedPath(c, q) /\ AskedPath(c, q)[n + 1] = Asked(c, q)
           /\ \A d \in PathLevel : /\ Alike(q.levels, Append(Front(q.levels), d), n)
                                   /\ Alike(q.levels, Append(AskedPath(c, q), d), n)
                                   /\ n + 1 \in DOMAIN Append(AskedPath(c, q), d)
                                   /\ Append(AskedPath(c, q), d)[n + 1] = Asked(c, q)
                                   /\ SubSeq(Append(AskedPath(c, q), d), 1, n + 1) = AskedPath(c, q)
<1> DEFINE F == Front(q.levels)
           l == Level(q)
           A == Asked(c, q)
           t == AskedPath(c, q)
<1>1. F \in Seq(PathLevel) /\ l \in PathLevel /\ q.levels = Append(F, l)
  BY LevelOf DEF PathOf
<1>2. A \in PathLevel /\ t \in Seq(PathLevel) /\ t = Append(F, A)
  BY PathAsked DEF AskedPath
<1> HIDE DEF F, l, A, t
<1>3. /\ Len(F) \in Nat /\ Len(Append(F, l)) = Len(F) + 1
      /\ DOMAIN Append(F, l) = 1..(Len(F) + 1) /\ Append(F, l)[Len(F) + 1] = l
  BY <1>1, Appended
<1>4. /\ Len(Append(F, A)) = Len(F) + 1
      /\ DOMAIN Append(F, A) = 1..(Len(F) + 1) /\ Append(F, A)[Len(F) + 1] = A
  BY <1>1, <1>2, Appended
<1>5. Len(F) + 1 \in 1..(Len(F) + 1)
  BY <1>3
<1>6. Alike(Append(F, l), Append(F, A), Len(F)) /\ Alike(Append(F, l), F, Len(F))
  BY <1>1, <1>2, AlikeAppend
<1>7. ASSUME NEW d \in PathLevel
      PROVE  /\ Alike(Append(F, l), Append(F, d), Len(F))
             /\ Alike(Append(F, l), Append(Append(F, A), d), Len(F))
             /\ Len(F) + 1 \in DOMAIN Append(t, d)
             /\ Append(t, d)[Len(F) + 1] = A
             /\ SubSeq(Append(t, d), 1, Len(F) + 1) = t
  <2>1. /\ Alike(Append(F, l), Append(F, d), Len(F))
        /\ Alike(Append(F, l), Append(Append(F, A), d), Len(F))
    BY <1>1, <1>2, AlikeAppend
  <2>2. /\ DOMAIN Append(t, d) = 1..(Len(t) + 1) /\ \A i \in 1..Len(t) : Append(t, d)[i] = t[i]
    BY <1>2, Appended
  <2>3. SubSeq(Append(t, d), 1, Len(t)) = t
    BY <1>2, PrefixOf
  <2>4. Len(t) = Len(F) + 1 /\ Len(F) + 1 \in 1..Len(t) /\ Len(F) + 1 \in 1..(Len(t) + 1)
    BY <1>2, <1>3, <1>4
  <2>5. t[Len(F) + 1] = A
    BY <1>2, <1>4
  <2> QED BY <2>1, <2>2, <2>3, <2>4, <2>5
<1> QED BY <1>1, <1>2, <1>3, <1>4, <1>5, <1>6, <1>7 DEF F, l, A, t
-----------------------------------------------------------------------------
LEMMA AskedLike ==
    ASSUME NEW c, NEW q, Stands(c, q)
    PROVE  \A i \in DOMAIN q.levels :
              /\ i \in DOMAIN AskedPath(c, q)
              /\ AskedPath(c, q)[i].parts = q.levels[i].parts /\ AskedPath(c, q)[i].idx = q.levels[i].idx
              /\ Cur(AskedPath(c, q)[i]) = Cur(q.levels[i])
<1> DEFINE n == Len(Front(q.levels))
<1>1. /\ n \in Nat /\ Len(q.levels) = n + 1
      /\ Alike(q.levels, AskedPath(c, q), n)
      /\ q.levels[n + 1] = Level(q)
      /\ n + 1 \in DOMAIN AskedPath(c, q) /\ AskedPath(c, q)[n + 1] = Asked(c, q)
  BY PathAlike
<1>2. DOMAIN q.levels = 1..(n + 1)
  <2>1. q.levels \in Seq(PathLevel)
    BY DEF Stands, Partition
  <2> QED BY <1>1, <2>1
<1>3. Asked(c, q).parts = Level(q).parts /\ Asked(c, q).idx = Level(q).idx
  BY PathAsked, AskedSound
<1> HIDE DEF n
<1>4. ASSUME NEW i \in DOMAIN q.levels
      PROVE  /\ i \in DOMAIN AskedPath(c, q)
             /\ AskedPath(c, q)[i].parts = q.levels[i].parts /\ AskedPath(c, q)[i].idx = q.levels[i].idx
  <2>1. i \in 1..n \/ i = n + 1
    BY <1>1, <1>2
  <2>2. CASE i \in 1..n
    BY <1>1, <2>2 DEF Alike
  <2>3. CASE i = n + 1
    BY <1>1, <1>3, <2>3
  <2> QED BY <2>1, <2>2, <2>3
<1> QED BY <1>4 DEF Cur

\* Calls and levels: one level more, but in a chroma tree under luma trees.
LEMMA CallLevels ==
    ASSUME WalkInv
    PROVE  LET n == Len(Front(p.levels)) IN
           /\ n \in Nat /\ DOMAIN p.levels = 1..(n + 1) /\ DOMAIN calls = 1..Len(calls) /\ Len(calls) \in Nat
           /\ p.treeType # "C" => Len(calls) = n
           /\ p.treeType = "C" => Len(calls) = n + 1
           /\ waiting # NoPartitioner => p.treeType = "D"
           /\ calls # <<>> => 0 < Len(calls) /\ Last(calls) = calls[Len(calls)]
           /\ waiting # NoPartitioner /\ calls # <<>> /\ Last(calls) # Both => 2 <= Len(calls)
<1> DEFINE n == Len(Front(p.levels))
<1>1. /\ Stands(cs, p) /\ LevelCount(p, calls) /\ calls \in Seq(Call)
      /\ Waits(isDualITree(cs), p, waiting, calls) /\ Trees(isDualITree(cs), p, calls)
      /\ (waiting # NoPartitioner => isDualITree(cs))
  BY WalkParts
<1>2. n \in Nat /\ Len(p.levels) = n + 1
  BY <1>1, PathAlike
<1>3. p.levels \in Seq(PathLevel)
  BY <1>1 DEF Stands, Partition
<1>4. DOMAIN p.levels = 1..(n + 1)
  BY <1>2, <1>3
<1>5. DOMAIN calls = 1..Len(calls) /\ Len(calls) \in Nat
  BY <1>1
<1> HIDE DEF n
<1>6. p.treeType # "C" => Len(calls) = n
  <2>1. p.treeType # "C" => Len(p.levels) = Len(calls) + 1
    BY <1>1 DEF LevelCount
  <2>2. Len(calls) \in Nat /\ Len(p.levels) \in Nat /\ Len(p.levels) = n + 1
    BY <1>2, <1>5
  <2> QED BY ONLY <1>2, <2>1, <2>2
<1>7. p.treeType = "C" => Len(calls) = n + 1
  <2>1. p.treeType = "C" => Len(p.levels) = Len(calls) + 0
    BY <1>1 DEF LevelCount
  <2>2. Len(calls) \in Nat /\ Len(p.levels) \in Nat /\ Len(p.levels) = n + 1
    BY <1>2, <1>5
  <2> QED BY ONLY <1>2, <2>1, <2>2
<1>8. calls # <<>> => Len(calls) \in Nat \ {0} /\ Last(calls) = calls[Len(calls)]
  BY <1>1, LastOf
<1>9. ASSUME waiting # NoPartitioner, calls # <<>>, Last(calls) # Both
      PROVE  2 <= Len(calls)
  <2>1. 1 \in DOMAIN calls
    BY <1>5, <1>8, <1>9
  <2>2. calls[1] = Both
    BY <1>1, <1>9, <2>1 DEF Waits
  <2>3. Len(calls) # 1
    BY <1>8, <1>9, <2>2
  <2> QED BY <1>8, <1>9, <2>3
<1>10. waiting # NoPartitioner => p.treeType = "D"
  BY <1>1 DEF Trees
<1>11. calls # <<>> => 0 < Len(calls)
  BY <1>8
<1> QED BY <1>2, <1>4, <1>5, <1>6, <1>7, <1>8, <1>9, <1>10, <1>11 DEF n

LEMMA DontSplitCovers == ASSUME WalkInv, DontSplit PROVE CoverInv'
<1> DEFINE r == Checked(cs, p)
<1>1. /\ phase = "tree" /\ "no" \in canSplit(cs, p) /\ p' = r
      /\ phase' = (IF HasLuma THEN "unit" ELSE "failed")
      /\ UNCHANGED <<cs, waiting, calls, coded>>
  BY DEF DontSplit
<1>2. /\ InPicture(cs, currArea(p)) /\ ~Cut(cs, currArea(p))
      /\ waiting # NoPartitioner => calls # <<>>
  BY <1>1, UnitWhole
<1>3. phase' = "unit"
  BY <1>1, <1>2, LumaThere
<1>4. /\ Stands(cs, p) /\ Lone(cs, p, calls) /\ calls \in Seq(Call)
      /\ (waiting # NoPartitioner <=> isDualITree(cs) /\ 64 < cs.ctu)
      /\ (waiting = NoPartitioner => CoversAlone(cs, phase, p, calls, coded["luma"], coded["chroma"]))
      /\ (waiting # NoPartitioner => CoversPair(cs, phase, p, waiting, calls, coded))
  BY WalkParts
<1>5. /\ Stands(cs, r) /\ SameKind(r, p) /\ r.levels = AskedPath(cs, p) /\ currArea(r) = currArea(p)
  BY <1>4, CheckStands
<1>6. \A i \in DOMAIN p.levels :
         /\ i \in DOMAIN r.levels /\ Cur(r.levels[i]) = Cur(p.levels[i])
         /\ r.levels[i].parts = p.levels[i].parts /\ r.levels[i].idx = p.levels[i].idx
  BY <1>4, <1>5, AskedLike
<1>7. \A e \in BOOLEAN : \A units : Covered(cs, units, p.levels, e) => Covered(cs, units, r.levels, e)
  BY <1>4, <1>5, CoveredAsked
<1>8. Walked("tree") = FALSE /\ Walked("unit") = FALSE
  BY DEF Walked
<1> HIDE DEF r
<1>9. Geo(cs, Limits(cs, r.chType), r.levels)
  BY <1>5 DEF Stands
<1>10. Begins(cs, "unit", r)
  <2>1. currArea(r) = Cur(Level(r))
    BY <1>5, LevelOf
  <2> QED BY <1>2, <1>5, <2>1 DEF Begins
<1>11. Lone(cs, r, calls)
  BY <1>4, <1>5, <1>6, LoneKept DEF SameKind
<1>12. ASSUME waiting = NoPartitioner
       PROVE  CoversAlone(cs, "unit", r, calls, coded["luma"], coded["chroma"])
  <2>1. CoversAlone(cs, "tree", p, calls, coded["luma"], coded["chroma"])
    BY <1>1, <1>4, <1>12
  <2>2. ASSUME r.treeType = "L", NEW i \in DOMAIN calls
        PROVE  SubSeq(r.levels, 1, i) = SubSeq(p.levels, 1, i)
    <3>1. i \in 1..Len(Front(p.levels))
      BY <1>5, <2>2, CallLevels DEF SameKind
    <3>2. Alike(p.levels, r.levels, Len(Front(p.levels)))
      BY <1>4, <1>5, PathAlike
    <3> QED BY <3>1, <3>2 DEF Alike
  <2>3. \A units : Covered(cs, units, p.levels, Walked("tree")) => Covered(cs, units, r.levels, Walked("unit"))
    BY <1>7, <1>8
  <2>4. \A units : Covered(cs, units, p.levels, TRUE) => Covered(cs, units, r.levels, TRUE)
    BY <1>7
  <2>5. r.treeType = p.treeType /\ r.chType = p.chType
    BY <1>5 DEF SameKind
  <2> QED BY <2>1, <2>2, <2>3, <2>4, <2>5, AloneKept
<1>13. ASSUME waiting # NoPartitioner
       PROVE  CoversPair(cs, "unit", r, waiting, calls, coded)
  <2>1. CoversPair(cs, "tree", p, waiting, calls, coded) /\ calls # <<>>
    BY <1>1, <1>2, <1>4, <1>13
  <2>2. 2 \in DOMAIN p.levels
    <3> DEFINE n == Len(Front(p.levels))
    <3>1. n \in Nat /\ DOMAIN p.levels = 1..(n + 1) /\ Len(calls) = n /\ 0 < Len(calls)
      BY <1>13, <2>1, CallLevels
    <3> HIDE DEF n
    <3> QED BY <3>1
  <2>3. r.levels[2].parts = p.levels[2].parts /\ r.levels[2].idx = p.levels[2].idx
    BY <1>6, <2>2
  <2>4. \A units : Covered(cs, units, p.levels, Walked("tree")) => Covered(cs, units, r.levels, Walked("unit"))
    BY <1>7, <1>8
  <2>5. r.chType = p.chType
    BY <1>5 DEF SameKind
  <2> QED BY <2>1, <2>3, <2>4, <2>5, PairKept
<1>14. p' = r /\ waiting' = waiting /\ calls' = calls /\ coded' = coded /\ UNCHANGED cs
  BY <1>1 DEF r
<1> QED BY <1>3, <1>4, <1>9, <1>10, <1>11, <1>12, <1>13, <1>14, CoverMade

LEMMA NextPartCovers == ASSUME WalkInv, NextPart PROVE CoverInv'
<1> DEFINE r == nextPart(p)
           F == Front(p.levels)
           n == Len(F)
           ph == Begin(r)
<1>1. /\ phase = "return" /\ calls # <<>> /\ Last(calls) # Both /\ p.treeType # "C" /\ hasNextPart(p)
      /\ p' = r /\ phase' = ph /\ UNCHANGED <<cs, waiting, calls, coded>>
  BY DEF NextPart, InSplit
<1>2. /\ Stands(cs, p) /\ Lone(cs, p, calls) /\ calls \in Seq(Call)
      /\ (waiting # NoPartitioner <=> isDualITree(cs) /\ 64 < cs.ctu)
      /\ (waiting = NoPartitioner => CoversAlone(cs, phase, p, calls, coded["luma"], coded["chroma"]))
      /\ (waiting # NoPartitioner => CoversPair(cs, phase, p, waiting, calls, coded))
  BY WalkParts
<1>3. /\ Stands(cs, r) /\ SameKind(r, p)
      /\ r.levels = Append(F, Further(Level(p)))
      /\ Level(r) = Further(Level(p)) /\ Level(r).implicit = "unknown"
  BY <1>1, <1>2, NextStands
<1>4. /\ n \in Nat /\ DOMAIN p.levels = 1..(n + 1) /\ DOMAIN calls = 1..n
      /\ (waiting # NoPartitioner => 2 <= n)
  BY <1>1, CallLevels
<1>5. Alike(p.levels, r.levels, n)
  <2>1. Level(r) \in PathLevel
    BY <1>3, LevelOf DEF PathOf
  <2>2. \A d \in PathLevel : Alike(p.levels, Append(F, d), n)
    BY <1>2, PathAlike
  <2> QED BY <1>3, <2>1, <2>2
<1>6. ASSUME NEW units, Covered(cs, units, p.levels, TRUE)
      PROVE  Covered(cs, units, r.levels, Walked(ph))
  <2>1. Covered(cs, units, r.levels, FALSE)
    BY <1>1, <1>2, <1>3, <1>6, CoveredNext
  <2> QED BY <1>3, <2>1, CoveredBegin
<1>7. Walked("return") = TRUE /\ ph \in {"tree", "return"} /\ (ph = "tree" => InPicture(cs, currArea(r)))
  BY DEF Walked, Begin
<1>8. currArea(r) = Cur(Level(r))
  BY <1>3, LevelOf
<1>9. p' = r /\ waiting' = waiting /\ calls' = calls /\ coded' = coded /\ UNCHANGED cs /\ phase' = ph
  BY <1>1
<1> HIDE DEF r, F, n, ph
<1>10. Geo(cs, Limits(cs, r.chType), r.levels)
  BY <1>3 DEF Stands
<1>11. Begins(cs, ph, r)
  BY <1>1, <1>3, <1>7, <1>8 DEF Begins, SameKind
<1>12. Lone(cs, r, calls)
  <2>1. \A i \in DOMAIN calls : i \in DOMAIN r.levels /\ Cur(r.levels[i]) = Cur(p.levels[i])
    BY <1>4, <1>5 DEF Alike
  <2> QED BY <1>2, <1>3, <2>1, LoneKept DEF SameKind
<1>13. ASSUME waiting = NoPartitioner
       PROVE  CoversAlone(cs, ph, r, calls, coded["luma"], coded["chroma"])
  <2>1. CoversAlone(cs, "return", p, calls, coded["luma"], coded["chroma"])
    BY <1>1, <1>2, <1>13
  <2>2. \A i \in DOMAIN calls : SubSeq(r.levels, 1, i) = SubSeq(p.levels, 1, i)
    BY <1>4, <1>5 DEF Alike
  <2>3. \A units : Covered(cs, units, p.levels, Walked("return")) => Covered(cs, units, r.levels, Walked(ph))
    BY <1>6, <1>7
  <2>4. r.treeType = p.treeType /\ r.chType = p.chType /\ r.treeType # "C"
    BY <1>1, <1>3 DEF SameKind
  <2> QED BY <2>1, <2>2, <2>3, <2>4, AloneKept
<1>14. ASSUME waiting # NoPartitioner
       PROVE  CoversPair(cs, ph, r, waiting, calls, coded)
  <2>1. CoversPair(cs, "return", p, waiting, calls, coded) /\ calls # <<>>
    BY <1>1, <1>2, <1>14
  <2>2. 2 \in 1..n
    BY <1>4, <1>14
  <2>3. r.levels[2] = p.levels[2]
    BY <1>5, <2>2 DEF Alike
  <2>4. \A units : Covered(cs, units, p.levels, Walked("return")) => Covered(cs, units, r.levels, Walked(ph))
    BY <1>6, <1>7
  <2>5. r.chType = p.chType
    BY <1>3 DEF SameKind
  <2> QED BY <2>1, <2>3, <2>4, <2>5, PairKept
<1>15. ph # "done"
  BY <1>7
<1> QED BY <1>2, <1>9, <1>10, <1>11, <1>12, <1>13, <1>14, <1>15, CoverMade
-----------------------------------------------------------------------------
LEMMA SameLimits ==
    ASSUME NEW c, ~isDualITree(c), NEW x, NEW y
    PROVE  Limits(c, x) = Limits(c, y)
BY DEF isDualITree, Limits

\* What the walk is behind the last part of a block.
LEMMA ExitFacts ==
    ASSUME WalkInv, ExitSplit
    PROVE  LET q == exitCurrSplit(p)
               n == Len(Front(p.levels))
           IN  /\ phase = "return" /\ calls # <<>> /\ Last(calls) # Both /\ p.treeType # "C"
               /\ Stands(cs, q) /\ SameKind(q, p) /\ q.levels = Front(p.levels) /\ q \in Partition
               /\ InPicture(cs, Cur(Level(q))) /\ MayExit(p)
               /\ n \in Nat \ {0} /\ DOMAIN calls = 1..n /\ Last(calls) = calls[n] /\ Len(calls) = n
               /\ Last(calls) \in Call
               /\ \A i \in 1..n : /\ i \in DOMAIN p.levels /\ i \in DOMAIN q.levels /\ q.levels[i] = p.levels[i]
                                  /\ SubSeq(q.levels, 1, i) = SubSeq(p.levels, 1, i)
               /\ SubSeq(p.levels, 1, n) = q.levels /\ Level(q) = p.levels[n]
               /\ waiting # NoPartitioner => 2 <= n
               /\ \A units : Covered(cs, units, p.levels, TRUE) => Covered(cs, units, q.levels, TRUE)
<1> DEFINE q == exitCurrSplit(p)
           F == Front(p.levels)
           n == Len(F)
<1>1. /\ phase = "return" /\ calls # <<>> /\ Last(calls) # Both /\ p.treeType # "C" /\ ~hasNextPart(p)
  BY DEF ExitSplit, InSplit
<1>2. Stands(cs, p) /\ calls \in Seq(Call)
  BY WalkParts
<1>3. /\ n \in Nat /\ DOMAIN p.levels = 1..(n + 1) /\ DOMAIN calls = 1..n /\ Len(calls) = n
      /\ (waiting # NoPartitioner => 2 <= n) /\ 0 < Len(calls) /\ Last(calls) = calls[Len(calls)]
  BY <1>1, CallLevels
<1>4. Len(p.levels) = n + 1 /\ Alike(p.levels, F, n)
  BY <1>2, PathAlike
<1>5. n \in Nat \ {0} /\ Len(p.levels) # 1 /\ n \in 1..n
  <2> HIDE DEF n
  <2>1. n # 0
    BY <1>3
  <2> QED BY <1>3, <1>4, <2>1
<1>6. Stands(cs, q) /\ SameKind(q, p) /\ q.levels = F /\ InPicture(cs, currArea(q)) /\ MayExit(p)
  BY <1>1, <1>2, <1>5, ExitStands
<1>7. currArea(q) = Cur(Level(q)) /\ q \in Partition
  BY <1>6, LevelOf DEF Stands
<1>8. F \in Seq(PathLevel) /\ Level(p).split # "ctu"
  <2>1. F \in Seq(PathLevel)
    BY <1>2, LevelOf DEF PathOf
  <2> QED BY <1>2, <1>5, <2>1, BelowRoot
<1>9. \A units : Covered(cs, units, p.levels, TRUE) => Covered(cs, units, F, TRUE)
  BY <1>1, <1>2, <1>8, CoveredExit
<1>10. \A i \in 1..n : /\ i \in DOMAIN p.levels /\ i \in DOMAIN F /\ F[i] = p.levels[i]
                       /\ SubSeq(F, 1, i) = SubSeq(p.levels, 1, i)
  BY <1>4 DEF Alike
<1>11. SubSeq(p.levels, 1, n) = F
  <2>1. p.levels = Append(F, Level(p)) /\ Level(p) \in PathLevel
    BY <1>2, LevelOf DEF PathOf
  <2> QED BY <1>8, <2>1, PrefixOf
<1>12. Level(q) = p.levels[n]
  <2>1. Level(q) = F[n]
    BY <1>6 DEF Level, Last
  <2> QED BY <1>5, <1>10, <2>1
<1>13. Last(calls) \in Call
  BY <1>2, <1>3, <1>5
<1> HIDE DEF q, n, F
<1> QED BY <1>1, <1>3, <1>5, <1>6, <1>7, <1>9, <1>10, <1>11, <1>12, <1>13 DEF q, n, F

\* Chroma of a block whose luma was walked.
LEMMA ExitToChroma ==
    ASSUME WalkInv, ExitSplit, Last(calls).chromaNotSplit
    PROVE  CoverInv'
<1> DEFINE q == exitCurrSplit(p)
           F == Front(p.levels)
           n == Len(F)
           r == [q EXCEPT !.chType = "chroma", !.treeType = "C"]
<1>1. /\ phase = "return" /\ calls # <<>> /\ p.treeType # "C"
      /\ Stands(cs, q) /\ SameKind(q, p) /\ q.levels = F /\ q \in Partition
      /\ InPicture(cs, Cur(Level(q))) /\ MayExit(p)
      /\ n \in Nat \ {0} /\ DOMAIN calls = 1..n /\ Last(calls) = calls[n]
      /\ \A i \in 1..n : i \in DOMAIN p.levels /\ i \in DOMAIN q.levels /\ q.levels[i] = p.levels[i]
      /\ SubSeq(p.levels, 1, n) = q.levels /\ Level(q) = p.levels[n]
      /\ \A units : Covered(cs, units, p.levels, TRUE) => Covered(cs, units, q.levels, TRUE)
  BY ExitFacts
<1>2. /\ phase' = "tree" /\ p' = r /\ UNCHANGED <<cs, waiting, calls, coded>>
  BY <1>1 DEF ExitSplit
<1>3. /\ r.levels = q.levels /\ r.chType = "chroma" /\ r.treeType = "C" /\ r.modeType = p.modeType
      /\ Level(r) = Level(q)
  BY <1>1 DEF Partition, SameKind, Level
<1>4. /\ Lone(cs, p, calls) /\ p.treeType \in {"D", "L", "C"} /\ calls \in Seq(Call)
      /\ (waiting # NoPartitioner <=> isDualITree(cs) /\ 64 < cs.ctu)
      /\ (waiting = NoPartitioner => CoversAlone(cs, phase, p, calls, coded["luma"], coded["chroma"]))
      /\ Trees(isDualITree(cs), p, calls)
  BY WalkParts
<1> HIDE DEF q, F, n, r
<1>5. n \in 1..n /\ n \in DOMAIN calls /\ calls[n].chromaNotSplit
  BY <1>1
<1>6. p.treeType = "L"
  BY <1>1, <1>4, <1>5 DEF Lone
<1>7. ~isDualITree(cs) /\ cs.format # "400" /\ p.chType = "luma" /\ waiting = NoPartitioner
  BY <1>4, <1>6, ChannelsOf
<1>8. Geo(cs, Limits(cs, r.chType), r.levels)
  <2>1. Geo(cs, Limits(cs, q.chType), q.levels)
    BY <1>1 DEF Stands
  <2>2. Limits(cs, q.chType) = Limits(cs, r.chType)
    BY <1>7, SameLimits
  <2> QED BY <1>3, <2>1, <2>2
<1>9. Begins(cs, "tree", r)
  <2>1. ~Cut(cs, Cur(p.levels[n]))
    BY <1>4, <1>5 DEF Lone
  <2> QED BY <1>1, <1>3, <2>1 DEF Begins
<1>10. Lone(cs, r, calls)
  <2>1. \A i \in DOMAIN calls : calls[i].chromaNotSplit =>
          /\ cs.format # "400" /\ i \in DOMAIN r.levels /\ ~Cut(cs, Cur(r.levels[i]))
          /\ \A j \in DOMAIN calls : i < j => calls[j].mode = "intra" /\ ~calls[j].chromaNotSplit
    BY <1>1, <1>3, <1>4 DEF Lone
  <2> QED BY <1>1, <1>3, <1>5, <2>1 DEF Lone
<1>11. CoversAlone(cs, "tree", r, calls, coded["luma"], coded["chroma"])
  <2>1. CoversAlone(cs, "return", p, calls, coded["luma"], coded["chroma"])
    BY <1>1, <1>4, <1>7
  <2>2. (Walked("return") \/ p.treeType = "C") = TRUE /\ (Walked("tree") \/ r.treeType = "C") = TRUE
        /\ Walked("tree") = FALSE
    BY <1>3 DEF Walked
  <2>3. Covered(cs, coded["luma"], p.levels, TRUE)
    BY <1>7, <2>1, <2>2 DEF CoversAlone
  <2>4. Covered(cs, coded["luma"], r.levels, TRUE)
    BY <1>1, <1>3, <2>3
  <2>5. PICK i \in DOMAIN calls : calls[i].chromaNotSplit /\ Covered(cs, coded["chroma"], SubSeq(p.levels, 1, i), FALSE)
    BY <1>6, <1>7, <2>1 DEF CoversAlone
  <2>6. i = n
    <3>1. i < n \/ i = n
      BY <1>1
    <3>2. ~(i < n)
      BY <1>4, <1>5, <2>5 DEF Lone
    <3> QED BY <3>1, <3>2
  <2>7. Covered(cs, coded["chroma"], r.levels, FALSE)
    BY <1>1, <1>3, <2>5, <2>6
  <2> QED BY <1>3, <1>7, <2>2, <2>4, <2>7 DEF CoversAlone
<1>12. p' = r /\ waiting' = waiting /\ calls' = calls /\ coded' = coded /\ UNCHANGED cs /\ phase' = "tree"
  BY <1>2
<1> QED BY <1>4, <1>7, <1>8, <1>9, <1>10, <1>11, <1>12, CoverMade

LEMMA ExitToParent ==
    ASSUME WalkInv, ExitSplit, ~Last(calls).chromaNotSplit
    PROVE  CoverInv'
<1> DEFINE q == exitCurrSplit(p)
           F == Front(p.levels)
           n == Len(F)
           r == [q EXCEPT !.modeType = Last(calls).mode]
           k == Front(calls)
<1>1. /\ phase = "return" /\ calls # <<>> /\ p.treeType # "C"
      /\ Stands(cs, q) /\ SameKind(q, p) /\ q.levels = F /\ q \in Partition
      /\ MayExit(p)
      /\ n \in Nat \ {0} /\ DOMAIN calls = 1..n /\ Last(calls) = calls[n] /\ Len(calls) = n
      /\ \A i \in 1..n : /\ i \in DOMAIN p.levels /\ i \in DOMAIN q.levels /\ q.levels[i] = p.levels[i]
                         /\ SubSeq(q.levels, 1, i) = SubSeq(p.levels, 1, i)
      /\ (waiting # NoPartitioner => 2 <= n)
      /\ \A units : Covered(cs, units, p.levels, TRUE) => Covered(cs, units, q.levels, TRUE)
  BY ExitFacts
<1>2. /\ phase' = "return" /\ p' = r /\ calls' = k /\ UNCHANGED <<cs, waiting, coded>>
  BY <1>1 DEF ExitSplit
<1>3. /\ r.levels = q.levels /\ r.chType = p.chType /\ r.treeType = p.treeType
      /\ r.modeType = Last(calls).mode
  BY <1>1 DEF Partition, SameKind
<1>4. /\ Lone(cs, p, calls) /\ p.treeType \in {"D", "L", "C"} /\ calls \in Seq(Call)
      /\ (waiting # NoPartitioner <=> isDualITree(cs) /\ 64 < cs.ctu)
      /\ (waiting = NoPartitioner => CoversAlone(cs, phase, p, calls, coded["luma"], coded["chroma"]))
      /\ (waiting # NoPartitioner => CoversPair(cs, phase, p, waiting, calls, coded))
  BY WalkParts
<1>5. /\ k \in Seq(Call) /\ Len(k) = n - 1
      /\ \A i \in 1..(n - 1) : k[i] = calls[i]
  BY <1>1, <1>4, LastOf
<1>6. DOMAIN k = 1..(n - 1) /\ \A i \in DOMAIN k : k[i] = calls[i] /\ i \in 1..n /\ i \in DOMAIN calls
  <2> HIDE DEF k, n
  <2>1. DOMAIN k = 1..(n - 1)
    BY <1>5
  <2> QED BY <1>1, <1>5, <2>1
<1> HIDE DEF q, F, n, r, k
<1>7. n \in DOMAIN calls /\ ~calls[n].chromaNotSplit
  BY <1>1
<1>8. Geo(cs, Limits(cs, r.chType), r.levels)
  BY <1>1, <1>3 DEF Stands, SameKind
<1>9. Begins(cs, "return", r)
  BY <1>1, <1>3 DEF Begins
<1>10. Lone(cs, r, k)
  <2>1. ASSUME NEW i \in DOMAIN k, k[i].chromaNotSplit
        PROVE  /\ cs.format # "400" /\ i \in DOMAIN r.levels /\ ~Cut(cs, Cur(r.levels[i]))
               /\ \A j \in DOMAIN k : i < j => k[j].mode = "intra" /\ ~k[j].chromaNotSplit
    <3>1. calls[i].chromaNotSplit /\ i \in DOMAIN calls /\ i \in 1..n
      BY <1>6, <2>1
    <3>2. /\ cs.format # "400" /\ ~Cut(cs, Cur(p.levels[i]))
          /\ \A j \in DOMAIN calls : i < j => calls[j].mode = "intra" /\ ~calls[j].chromaNotSplit
      BY <1>4, <3>1 DEF Lone
    <3> QED BY <1>1, <1>3, <1>6, <3>1, <3>2
  <2>2. r.treeType = "D" => \A i \in DOMAIN k : ~k[i].chromaNotSplit
    BY <1>3, <1>4, <1>6 DEF Lone
  <2>3. ASSUME r.treeType = "L"
        PROVE  r.modeType = "intra" /\ \E i \in DOMAIN k : k[i].chromaNotSplit
    <3>1. PICK i \in DOMAIN calls : calls[i].chromaNotSplit
      BY <1>3, <1>4, <2>3 DEF Lone
    <3>2. i \in 1..(n - 1) /\ i < n
      BY <1>1, <1>7, <3>1
    <3>3. calls[n].mode = "intra"
      BY <1>4, <1>7, <3>1, <3>2 DEF Lone
    <3> QED BY <1>1, <1>3, <1>6, <3>1, <3>2, <3>3
  <2>4. r.treeType # "C"
    BY <1>1, <1>3
  <2> QED BY <2>1, <2>2, <2>3, <2>4 DEF Lone
<1>11. Walked("return") = TRUE
  BY DEF Walked
<1>12. \A units : Covered(cs, units, p.levels, Walked("return")) => Covered(cs, units, r.levels, Walked("return"))
  BY <1>1, <1>3, <1>11
<1>13. ASSUME waiting = NoPartitioner
       PROVE  CoversAlone(cs, "return", r, k, coded["luma"], coded["chroma"])
  <2>1. CoversAlone(cs, "return", p, calls, coded["luma"], coded["chroma"])
    BY <1>1, <1>4, <1>13
  <2>2. ASSUME NEW i \in DOMAIN calls, calls[i].chromaNotSplit
        PROVE  /\ i \in DOMAIN k /\ k[i].chromaNotSplit
               /\ SubSeq(r.levels, 1, i) = SubSeq(p.levels, 1, i)
    <3>1. i \in 1..(n - 1) /\ i \in 1..n
      BY <1>1, <1>7, <2>2
    <3> QED BY <1>1, <1>3, <1>6, <2>2, <3>1
  <2>3. r.treeType # "C"
    BY <1>1, <1>3
  <2> QED BY <1>3, <1>12, <2>1, <2>2, <2>3, AloneKept
<1>14. ASSUME waiting # NoPartitioner
       PROVE  CoversPair(cs, "return", r, waiting, k, coded)
  <2>1. CoversPair(cs, "return", p, waiting, calls, coded)
    BY <1>1, <1>4, <1>14
  <2>2. 2 \in 1..n /\ 1 \in DOMAIN k
    BY <1>1, <1>6, <1>14
  <2>3. r.levels[2] = p.levels[2] /\ k # <<>>
    BY <1>1, <1>3, <2>2
  <2> QED BY <1>1, <1>3, <1>12, <2>1, <2>3, PairKept
<1>15. p' = r /\ waiting' = waiting /\ calls' = k /\ coded' = coded /\ UNCHANGED cs /\ phase' = "return"
  BY <1>2
<1> QED BY <1>4, <1>8, <1>9, <1>10, <1>13, <1>14, <1>15, CoverMade

LEMMA ExitSplitCovers == ASSUME WalkInv, ExitSplit PROVE CoverInv'
BY ExitToChroma, ExitToParent

LEMMA EndChromaCovers == ASSUME WalkInv, EndChroma PROVE CoverInv'
<1> DEFINE r == [p EXCEPT !.chType = "luma", !.treeType = "D", !.modeType = Last(calls).mode]
           k == Front(calls)
<1>1. /\ phase = "return" /\ calls # <<>> /\ p.treeType = "C" /\ p' = r /\ calls' = k
      /\ UNCHANGED <<cs, phase, waiting, coded>>
  BY DEF EndChroma, InSplit
<1>2. /\ Stands(cs, p) /\ Lone(cs, p, calls) /\ calls \in Seq(Call) /\ p \in Partition
      /\ (waiting # NoPartitioner <=> isDualITree(cs) /\ 64 < cs.ctu)
      /\ (waiting = NoPartitioner => CoversAlone(cs, phase, p, calls, coded["luma"], coded["chroma"]))
  BY WalkParts DEF Stands
<1>3. ~isDualITree(cs) /\ cs.format # "400" /\ waiting = NoPartitioner
  BY <1>1, <1>2, ChannelsOf
<1>4. r.levels = p.levels /\ r.chType = "luma" /\ r.treeType = "D"
  BY <1>2 DEF Partition
<1>5. /\ Len(calls) \in Nat \ {0} /\ Last(calls) = calls[Len(calls)]
      /\ k \in Seq(Call) /\ Len(k) = Len(calls) - 1
      /\ \A i \in 1..(Len(calls) - 1) : k[i] = calls[i]
  BY <1>1, <1>2, LastOf
<1>6. DOMAIN k = 1..(Len(calls) - 1) /\ DOMAIN calls = 1..Len(calls)
  <2> HIDE DEF k
  <2>1. DOMAIN k = 1..Len(k)
    BY <1>5
  <2> QED BY <1>2, <1>5, <2>1
<1> HIDE DEF r, k
<1>7. Geo(cs, Limits(cs, r.chType), r.levels)
  <2>1. Geo(cs, Limits(cs, p.chType), p.levels)
    BY <1>2 DEF Stands
  <2>2. Limits(cs, p.chType) = Limits(cs, r.chType)
    BY <1>3, SameLimits
  <2> QED BY <1>4, <2>1, <2>2
<1>8. Begins(cs, "return", r)
  BY <1>4 DEF Begins
<1>9. Lone(cs, r, k)
  <2>1. calls[Len(calls)].chromaNotSplit
    BY <1>1, <1>2, <1>5 DEF Lone
  <2>2. ASSUME NEW i \in DOMAIN k, k[i].chromaNotSplit
        PROVE  FALSE
    <3>1. i \in DOMAIN calls /\ calls[i].chromaNotSplit /\ i < Len(calls) /\ Len(calls) \in DOMAIN calls
      BY <1>5, <1>6, <2>2
    <3> QED BY <1>2, <2>1, <3>1 DEF Lone
  <2> QED BY <1>4, <2>2 DEF Lone
<1>10. CoversAlone(cs, "return", r, k, coded["luma"], coded["chroma"])
  <2>1. CoversAlone(cs, "return", p, calls, coded["luma"], coded["chroma"])
    BY <1>1, <1>2, <1>3
  <2>2. Walked("return") = TRUE /\ (Walked("return") \/ p.treeType = "C") = TRUE
        /\ (Walked("return") \/ r.treeType = "C") = TRUE
    BY DEF Walked
  <2>3. Covered(cs, coded["luma"], p.levels, TRUE) /\ Covered(cs, coded["chroma"], p.levels, TRUE)
    BY <1>1, <1>3, <2>1, <2>2 DEF CoversAlone
  <2> QED BY <1>3, <1>4, <2>2, <2>3 DEF CoversAlone
<1>11. p' = r /\ waiting' = waiting /\ calls' = k /\ coded' = coded /\ UNCHANGED cs /\ phase' = "return"
  BY <1>1
<1> QED BY <1>2, <1>3, <1>7, <1>8, <1>9, <1>10, <1>11, CoverMade
-----------------------------------------------------------------------------
\* A split that may be chosen, of the block at hand.
LEMMA SplitPlace ==
    ASSUME WalkInv, phase = "tree", NEW split \in canSplit(cs, p), split # "no",
           NEW mode \in {"all", "intra", "inter"}, NEW tree \in {"D", "L"}
    PROVE  LET r == splitCurrArea(cs, Retype(p, p.chType, tree, mode), split) IN
           /\ p.treeType # "C" /\ split \in Splits \ {"no"} /\ Divides(cs, p) /\ SplitSound(cs, p, split)
           /\ Stands(cs, r) /\ r.levels = Append(AskedPath(cs, p), Child(cs, p, split))
           /\ r.chType = p.chType /\ r.treeType = tree /\ r.modeType = mode
           /\ Level(r) = Child(cs, p, split) /\ Level(r).implicit = "unknown"
           /\ InPicture(cs, Cur(Level(r)))
<1> DEFINE s == Retype(p, p.chType, tree, mode)
           r == splitCurrArea(cs, s, split)
<1>1. /\ Stands(cs, p) /\ Begins(cs, phase, p) /\ p.chType \in {"luma", "chroma"} /\ p \in Partition
      /\ PathInv(p) /\ Ready(cs)
  BY WalkParts DEF Stands
<1>2. p.treeType # "C" /\ split \in Splits \ {"no"}
  <2>1. p.treeType # "C"
    BY DEF canSplit
  <2>2. canSplit(cs, p) \in SUBSET Splits
    BY SplitsOnly
  <2> QED BY <2>1, <2>2
<1>3. Divides(cs, p)
  BY <1>1, <1>2, LevelOf DEF Divides, Begins
<1>4. SplitSound(cs, p, split)
  BY <1>3, ChosenSound
<1>5. /\ s \in Partition /\ SamePlace(s, p) /\ s.chType = p.chType /\ s.treeType = tree /\ s.modeType = mode
  BY <1>1, Retyped
<1>6. PathInv(s) /\ Level(s) = Level(p) /\ currArea(s) = currArea(p) /\ getImplicitSplit(cs, s) = getImplicitSplit(cs, p)
  BY <1>1, <1>5, PlaceKept
<1>7. s.levels = p.levels /\ s.subdiv = p.subdiv /\ s.bt = p.bt /\ s.mt = p.mt
  BY <1>5 DEF SamePlace, CountsOf
<1>8. Asked(cs, s) = Asked(cs, p) /\ Child(cs, s, split) = Child(cs, p, split)
  BY <1>6, <1>7 DEF Asked, Child
<1>9. split = "qt" => s.bt = 0 /\ s.mt = 0
  BY <1>4, <1>7 DEF SplitSound
<1>10. split \in Btt => (getImplicitSplit(cs, s) = split <=> getImplicitSplit(cs, s) # "no")
  BY <1>6, ForcedIsTaken
<1>11. s.levels # <<>> /\ LevelSound(Level(s))
  BY <1>1, <1>6, <1>7, LevelOf DEF PathEnd, PathInv
<1> HIDE DEF s
<1>12. DividedPath(r, cs, s, split)
  BY <1>2, <1>5, <1>9, <1>11, DividesPath
<1>13. DividedKeeps(r, s)
  BY <1>2, <1>5, <1>6, <1>9, <1>10, DividedKept
<1> HIDE DEF r
<1>14. r \in Partition /\ SameKind(r, s) /\ r.levels = Append(AskedPath(cs, p), Child(cs, p, split))
  BY <1>7, <1>8, <1>12 DEF DividedPath, AskedPath
<1>15. PathInv(r) /\ Pos(currArea(r)) = Pos(currArea(s))
  BY <1>13 DEF DividedKeeps
<1>16. r.chType = p.chType /\ r.treeType = tree /\ r.modeType = mode
  BY <1>5, <1>14 DEF SameKind
<1>17. Geo(cs, Limits(cs, p.chType), Append(AskedPath(cs, p), Child(cs, p, split)))
  BY <1>2, <1>3, <1>4, DividedGeo
<1>18. Stands(cs, r)
  BY <1>1, <1>14, <1>15, <1>16, <1>17 DEF Stands
<1>19. Level(r) = Child(cs, p, split)
  <2>1. AskedPath(cs, p) \in Seq(PathLevel) /\ Child(cs, p, split) \in PathLevel
    BY <1>1, <1>2, <1>3, <1>4, PathAsked, ChildParts
  <2> QED BY <1>14, <2>1, Appended DEF Level
<1>20. Child(cs, p, split).implicit = "unknown"
  BY DEF Child, PartLevel
<1>21. InPicture(cs, Cur(Level(r)))
  <2>1. currArea(r).x = currArea(p).x /\ currArea(r).y = currArea(p).y
    BY <1>6, <1>15 DEF Pos
  <2>2. InPicture(cs, currArea(r))
    BY <1>3, <2>1 DEF InPicture, Divides
  <2> QED BY <1>18, <2>2, LevelOf
<1> QED BY <1>2, <1>3, <1>4, <1>14, <1>16, <1>18, <1>19, <1>20, <1>21 DEF r, s

LEMMA LargeArea ==
    /\ \A w \in Sides, h \in Sides : w * h \in Nat
    /\ \A w \in Sides, h \in Sides : 8 <= w /\ 16 <= h => 128 <= w * h
    /\ \A w \in Sides, h \in Sides : 16 <= w /\ 8 <= h => 128 <= w * h
    /\ \A w \in Sides, h \in Sides : 16 <= w /\ 16 <= h => 256 <= w * h
<1>1. ASSUME NEW w \in Sides, NEW h \in Sides
      PROVE  /\ w * h \in Nat /\ (8 <= w /\ 16 <= h => 128 <= w * h)
             /\ (16 <= w /\ 8 <= h => 128 <= w * h) /\ (16 <= w /\ 16 <= h => 256 <= w * h)
  <2>1. h \in Nat
    BY DEF Sides, UnitSides
  <2>2. CASE w = 4
    BY <2>1, <2>2
  <2>3. CASE w = 8
    BY <2>1, <2>3
  <2>4. CASE w = 16
    BY <2>1, <2>4
  <2>5. CASE w = 32
    BY <2>1, <2>5
  <2>6. CASE w = 64
    BY <2>1, <2>6
  <2>7. CASE w = 128
    BY <2>1, <2>7
  <2> QED BY <2>2, <2>3, <2>4, <2>5, <2>6, <2>7 DEF Sides, UnitSides
<1> QED BY <1>1

\* A split under which chroma is not split is of a whole block.
LEMMA AloneWhole ==
    ASSUME WalkInv, NEW split \in Splits \ {"no"}, Divides(cs, p), SplitSound(cs, p, split),
           NEW mode \in Modes(split), mode # p.modeType
    PROVE  /\ ~isDualITree(cs) /\ p.modeType = "all" /\ cs.format \in {"420", "422"}
           /\ ~Cut(cs, currArea(p)) /\ mode \in {"intra", "inter"}
<1> DEFINE a == currArea(p)
           luma == (a.w * a.h) \div (IF split \in Bt THEN 2 ELSE 4)
           chroma == luma \div (ScaleX(cs) * ScaleY(cs))
           thin == \/ ChromaWidth(cs, a) = 4 /\ split = "bv"
                   \/ ChromaWidth(cs, a) = 8 /\ split = "tv"
<1>1. Stands(cs, p) /\ cs.format \in Formats
  BY DEF Divides, Stands, Ready
<1>2. /\ ~isDualITree(cs) /\ p.modeType = "all" /\ cs.format \notin {"444", "400"}
      /\ ~(chroma >= 16 /\ ~thin) /\ mode \in {"intra", "inter"}
  BY DEF Modes
<1>3. cs.format \in {"420", "422"} /\ ScaleX(cs) = 2 /\ ScaleY(cs) \in {1, 2}
  BY <1>1, <1>2 DEF Formats, ScaleX, ScaleY
<1>4. Sized(cs) /\ OnGrid(cs, a) /\ a.w \in Sides /\ a.h \in Sides /\ a.w \in Nat /\ a.h \in Nat
  BY <1>1, AreaOf
<1>5. ASSUME Cut(cs, a) PROVE FALSE
  <2>1. 8 <= a.w /\ 8 <= a.h
    BY <1>1, <1>5, DepthsOf DEF CutSound
  <2>2. /\ split \notin Tt /\ (split \in Bt => 16 <= Divided(split, a))
        /\ (split = "qt" => 16 <= a.w /\ a.w = a.h)
    BY <1>5 DEF SplitSound
  <2>3. ~thin
    <3>1. split # "tv"
      BY <2>2 DEF Tt
    <3>2. split = "bv" => 16 <= a.w
      BY <2>2 DEF Bt, Divided
    <3>3. split = "bv" => ChromaWidth(cs, a) # 4
      <4>1. ChromaWidth(cs, a) = a.w \div 2
        BY <1>3 DEF ChromaWidth
      <4>2. 16 <= a.w => a.w \div 2 # 4
        BY <1>4
      <4> QED BY <3>2, <4>1, <4>2
    <3> QED BY <3>1, <3>3
  <2> DEFINE n == a.w * a.h
  <2>4. n \in Nat
    BY <1>4, LargeArea
  <2>5. CASE split \in Bt
    <3>1. 128 <= n
      <4>1. 16 <= a.w \/ 16 <= a.h
        BY <2>2, <2>5 DEF Divided
      <4> QED BY <1>4, <2>1, <4>1, LargeArea
    <3>2. luma = n \div 2
      BY <2>5
    <3> HIDE DEF n
    <3>3. n \div 2 \in Nat /\ 64 <= n \div 2
      BY <2>4, <3>1
    <3>4. (n \div 2) \div (2 * 1) >= 16 /\ (n \div 2) \div (2 * 2) >= 16
      BY <3>3
    <3>5. chroma >= 16
      BY <1>3, <3>2, <3>4
    <3> QED BY <1>2, <2>3, <3>5
  <2>6. CASE split \notin Bt
    <3>0. split = "qt"
      BY <2>2, <2>6, SplitIsOne
    <3>1. 256 <= n
      BY <1>4, <2>2, <3>0, LargeArea
    <3>2. luma = n \div 4
      BY <2>6
    <3> HIDE DEF n
    <3>3. n \div 4 \in Nat /\ 64 <= n \div 4
      BY <2>4, <3>1
    <3>4. (n \div 4) \div (2 * 1) >= 16 /\ (n \div 4) \div (2 * 2) >= 16
      BY <3>3
    <3>5. chroma >= 16
      BY <1>3, <3>2, <3>4
    <3> QED BY <1>2, <2>3, <3>5
  <2> QED BY <2>5, <2>6
<1> QED BY <1>2, <1>3, <1>5
-----------------------------------------------------------------------------
LEMMA CoveredDivided ==
    ASSUME NEW c, NEW q, Divides(c, q), NEW split \in Splits \ {"no"}, SplitSound(c, q, split),
           NEW units, Covered(c, units, q.levels, FALSE)
    PROVE  Covered(c, units, Append(AskedPath(c, q), Child(c, q, split)), FALSE)
<1>1. Stands(c, q)
  BY DEF Divides
<1>2. AskedPath(c, q) \in Seq(PathLevel) /\ Covered(c, units, AskedPath(c, q), FALSE)
  BY <1>1, PathAsked, CoveredAsked
<1>3. Child(c, q, split) \in PathLevel /\ Child(c, q, split).idx = 0
  BY ChildParts
<1> QED BY <1>2, <1>3, CoveredFirst

\* What a split is sent as.
LEMMA SplitTaken ==
    ASSUME WalkInv, Split
    PROVE  \E split \in canSplit(cs, p) \ {"no"} : \E mode \in Modes(split) :
              LET alone == p.modeType = "all" /\ mode = "intra"
                  tree  == IF p.treeType = "D" /\ alone THEN "L" ELSE p.treeType
              IN  /\ mode \in {"all", "intra", "inter"} /\ tree \in {"D", "L"}
                  /\ p' = splitCurrArea(cs, Retype(p, p.chType, tree, mode), split)
                  /\ calls' = Append(calls, [mode |-> p.modeType, chromaNotSplit |-> alone, both |-> FALSE])
                  /\ phase' = "tree"
<1>1. PICK choice \in canSplit(cs, p) \ {"no"} :
        LET can   == canSplit(cs, p)
            split == Sent(can, choice).split
        IN  \E mode \in Modes(split) :
            LET alone == p.modeType = "all" /\ mode = "intra"
                tree  == IF p.treeType = "D" /\ alone THEN "L" ELSE p.treeType
            IN  IF MaySplit(cs, p, split) /\ (alone => p.chType = "luma")
                THEN /\ p' = splitCurrArea(cs, [p EXCEPT !.modeType = mode, !.treeType = tree], split)
                     /\ calls' = Append(calls, [mode |-> p.modeType, chromaNotSplit |-> alone, both |-> FALSE])
                     /\ UNCHANGED phase
                ELSE phase' = "failed" /\ UNCHANGED <<p, calls>>
  BY DEF Split
<1>2. canSplit(cs, p) \in SUBSET Splits
  BY SplitsOnly
<1>3. Sent(canSplit(cs, p), choice).split = choice
  <2>1. Sent(canSplit(cs, p), choice) = [split |-> choice, rest |-> Following]
    BY <1>2, SplitRead
  <2> QED BY <2>1
<1>4. PICK mode \in Modes(choice) :
        LET alone == p.modeType = "all" /\ mode = "intra"
            tree  == IF p.treeType = "D" /\ alone THEN "L" ELSE p.treeType
        IN  IF MaySplit(cs, p, choice) /\ (alone => p.chType = "luma")
            THEN /\ p' = splitCurrArea(cs, [p EXCEPT !.modeType = mode, !.treeType = tree], choice)
                 /\ calls' = Append(calls, [mode |-> p.modeType, chromaNotSplit |-> alone, both |-> FALSE])
                 /\ UNCHANGED phase
            ELSE phase' = "failed" /\ UNCHANGED <<p, calls>>
  BY <1>1, <1>3
<1> DEFINE alone == p.modeType = "all" /\ mode = "intra"
           tree == IF p.treeType = "D" /\ alone THEN "L" ELSE p.treeType
<1>5. /\ phase = "tree" /\ p.chType \in {"luma", "chroma"} /\ p.treeType \in {"D", "L", "C"} /\ p \in Partition
      /\ p.modeType \in {"all", "intra", "inter"} /\ Trees(isDualITree(cs), p, calls)
  BY WalkParts DEF Split, Stands
<1>6. /\ p.treeType # "C" /\ choice \in Splits \ {"no"} /\ Divides(cs, p) /\ SplitSound(cs, p, choice)
  BY <1>5, SplitPlace
<1>7. mode \in {"all", "intra", "inter"} /\ (alone => ~isDualITree(cs))
  BY <1>5, <1>6, AloneWhole
<1>8. MaySplit(cs, p, choice) /\ (alone => p.chType = "luma")
  BY <1>5, <1>6, <1>7 DEF SplitSound, Trees
<1>9. tree \in {"D", "L"}
  BY <1>5, <1>6
<1>10. [p EXCEPT !.modeType = mode, !.treeType = tree] = Retype(p, p.chType, tree, mode)
  BY <1>5 DEF Partition, Retype
<1>11. /\ p' = splitCurrArea(cs, Retype(p, p.chType, tree, mode), choice)
       /\ calls' = Append(calls, [mode |-> p.modeType, chromaNotSplit |-> alone, both |-> FALSE])
       /\ phase' = "tree"
  BY <1>4, <1>5, <1>8, <1>10
<1> QED BY <1>7, <1>9, <1>11

LEMMA SplitCovers == ASSUME WalkInv, Split PROVE CoverInv'
<1>1. PICK split \in canSplit(cs, p) \ {"no"} : \E mode \in Modes(split) :
              LET alone == p.modeType = "all" /\ mode = "intra"
                  tree  == IF p.treeType = "D" /\ alone THEN "L" ELSE p.treeType
              IN  /\ mode \in {"all", "intra", "inter"} /\ tree \in {"D", "L"}
                  /\ p' = splitCurrArea(cs, Retype(p, p.chType, tree, mode), split)
                  /\ calls' = Append(calls, [mode |-> p.modeType, chromaNotSplit |-> alone, both |-> FALSE])
                  /\ phase' = "tree"
  BY SplitTaken
<1>2. PICK mode \in Modes(split) :
              LET alone == p.modeType = "all" /\ mode = "intra"
                  tree  == IF p.treeType = "D" /\ alone THEN "L" ELSE p.treeType
              IN  /\ mode \in {"all", "intra", "inter"} /\ tree \in {"D", "L"}
                  /\ p' = splitCurrArea(cs, Retype(p, p.chType, tree, mode), split)
                  /\ calls' = Append(calls, [mode |-> p.modeType, chromaNotSplit |-> alone, both |-> FALSE])
                  /\ phase' = "tree"
  BY <1>1
<1> DEFINE alone == p.modeType = "all" /\ mode = "intra"
           tree == IF p.treeType = "D" /\ alone THEN "L" ELSE p.treeType
           call == [mode |-> p.modeType, chromaNotSplit |-> alone, both |-> FALSE]
           k == Append(calls, call)
           r == splitCurrArea(cs, Retype(p, p.chType, tree, mode), split)
           d == Child(cs, p, split)
           n == Len(Front(p.levels))
<1>3. /\ mode \in {"all", "intra", "inter"} /\ tree \in {"D", "L"}
      /\ p' = r /\ calls' = k /\ phase' = "tree"
  BY <1>2
<1>4. /\ phase = "tree" /\ (waiting = NoPartitioner \/ calls # <<>>) /\ UNCHANGED <<cs, waiting, coded>>
  BY DEF Split
<1>5. /\ p.treeType # "C" /\ split \in Splits \ {"no"} /\ Divides(cs, p) /\ SplitSound(cs, p, split)
      /\ Stands(cs, r) /\ r.levels = Append(AskedPath(cs, p), d)
      /\ r.chType = p.chType /\ r.treeType = tree /\ r.modeType = mode
      /\ Level(r) = d /\ Level(r).implicit = "unknown"
      /\ InPicture(cs, Cur(Level(r)))
  BY <1>3, <1>4, SplitPlace
<1>6. /\ Stands(cs, p) /\ Lone(cs, p, calls) /\ calls \in Seq(Call)
      /\ (waiting # NoPartitioner <=> isDualITree(cs) /\ 64 < cs.ctu)
      /\ (waiting = NoPartitioner => CoversAlone(cs, phase, p, calls, coded["luma"], coded["chroma"]))
      /\ (waiting # NoPartitioner => CoversPair(cs, phase, p, waiting, calls, coded))
      /\ p.treeType \in {"D", "L", "C"} /\ p.modeType \in {"all", "intra", "inter"}
  BY WalkParts
<1>7. /\ n \in Nat /\ DOMAIN p.levels = 1..(n + 1) /\ DOMAIN calls = 1..n /\ Len(calls) = n
  BY <1>5, CallLevels
<1>8. /\ Alike(p.levels, r.levels, n) /\ n + 1 \in DOMAIN r.levels /\ r.levels[n + 1] = Asked(cs, p)
      /\ SubSeq(r.levels, 1, n + 1) = AskedPath(cs, p)
  <2>1. d \in PathLevel
    BY <1>5, ChildParts
  <2>2. \A e \in PathLevel : /\ Alike(p.levels, Append(AskedPath(cs, p), e), n)
                            /\ n + 1 \in DOMAIN Append(AskedPath(cs, p), e)
                            /\ Append(AskedPath(cs, p), e)[n + 1] = Asked(cs, p)
                            /\ SubSeq(Append(AskedPath(cs, p), e), 1, n + 1) = AskedPath(cs, p)
    BY <1>6, PathAlike
  <2>3. r.levels = Append(AskedPath(cs, p), d)
    BY <1>5
  <2> HIDE DEF d, r, n
  <2> QED BY <2>1, <2>2, <2>3
<1>9. Cur(Asked(cs, p)) = currArea(p) /\ Asked(cs, p).parts = Level(p).parts /\ Asked(cs, p).idx = Level(p).idx
  BY <1>6, PathAsked, AskedSound
<1>10. p.levels[n + 1] = Level(p)
  BY <1>6, PathAlike
<1>11. /\ DOMAIN k = 1..(n + 1) /\ k[n + 1] = call /\ k # <<>> /\ \A i \in 1..n : k[i] = calls[i]
  <2>1. call \in Call
    BY <1>6 DEF Call
  <2> HIDE DEF call
  <2> QED BY <1>6, <1>7, <2>1, Appended
<1>12. call.mode = p.modeType /\ call.chromaNotSplit = alone
  OBVIOUS
<1>13. alone => /\ ~isDualITree(cs) /\ p.modeType = "all" /\ cs.format # "400" /\ ~Cut(cs, currArea(p))
  BY <1>5, AloneWhole
<1>14. p.modeType # "all" => mode = p.modeType
  BY DEF Modes
<1>15. /\ tree = "D" => p.treeType = "D" /\ ~alone
       /\ tree = "L" => p.treeType = "L" \/ (p.treeType = "D" /\ alone)
       /\ alone => p.modeType = "all" /\ mode = "intra"
  BY <1>5
<1>16. \A units : Covered(cs, units, p.levels, FALSE) => Covered(cs, units, r.levels, FALSE)
  BY <1>5, CoveredDivided
<1>17. alone \in BOOLEAN
  OBVIOUS
<1> HIDE DEF alone, tree, call, k, r, d, n
<1>18. Geo(cs, Limits(cs, r.chType), r.levels)
  BY <1>5 DEF Stands
<1>19. Begins(cs, "tree", r)
  BY <1>3, <1>5 DEF Begins
<1>20. \A i \in DOMAIN k : (i \in 1..n /\ i \in DOMAIN calls /\ k[i] = calls[i]) \/ (i = n + 1 /\ k[i] = call)
  <2>1. \A i \in 1..(n + 1) : i \in 1..n \/ i = n + 1
    BY <1>7
  <2> QED BY <1>7, <1>11, <2>1
<1>21. \A i \in 1..n : i \in DOMAIN k /\ i \in DOMAIN calls /\ i < n + 1 /\ n + 1 \in DOMAIN k
  BY <1>7, <1>11
<1>22. Lone(cs, r, k)
  <2>1. ASSUME NEW i \in DOMAIN k, k[i].chromaNotSplit
        PROVE  /\ cs.format # "400" /\ i \in DOMAIN r.levels /\ ~Cut(cs, Cur(r.levels[i]))
               /\ \A j \in DOMAIN k : i < j => k[j].mode = "intra" /\ ~k[j].chromaNotSplit
    <3>1. CASE i \in 1..n
      <4>1. calls[i].chromaNotSplit /\ i \in DOMAIN calls
        BY <1>7, <1>11, <2>1, <3>1
      <4>2. /\ cs.format # "400" /\ ~Cut(cs, Cur(p.levels[i]))
            /\ \A j \in DOMAIN calls : i < j => calls[j].mode = "intra" /\ ~calls[j].chromaNotSplit
        BY <1>6, <4>1 DEF Lone
      <4>3. i \in DOMAIN r.levels /\ r.levels[i] = p.levels[i]
        BY <1>8, <3>1 DEF Alike
      <4>4. p.treeType = "L" /\ p.modeType = "intra"
        BY <1>5, <1>6, <4>1 DEF Lone
      <4>5. call.mode = "intra" /\ ~call.chromaNotSplit
        BY <1>12, <1>15, <4>4
      <4> QED BY <1>20, <4>2, <4>3, <4>5
    <3>2. CASE i = n + 1 /\ k[i] = call
      <4>1. alone
        BY <1>12, <2>1, <3>2
      <4>2. i \in DOMAIN r.levels /\ ~Cut(cs, Cur(r.levels[i])) /\ cs.format # "400"
        BY <1>8, <1>9, <1>13, <3>2, <4>1
      <4>3. \A j \in DOMAIN k : ~(i < j)
        BY <1>7, <1>11, <3>2
      <4> QED BY <4>2, <4>3
    <3> QED BY <1>20, <3>1, <3>2
  <2>2. r.treeType = "D" => \A i \in DOMAIN k : ~k[i].chromaNotSplit
    <3>1. r.treeType = "D" => \A i \in DOMAIN calls : ~calls[i].chromaNotSplit
      BY <1>5, <1>6, <1>15 DEF Lone
    <3> QED BY <1>5, <1>12, <1>15, <1>20, <3>1
  <2>3. ASSUME r.treeType = "L"
        PROVE  r.modeType = "intra" /\ \E i \in DOMAIN k : k[i].chromaNotSplit
    <3>1. CASE p.treeType = "L"
      <4>1. p.modeType = "intra" /\ \E i \in DOMAIN calls : calls[i].chromaNotSplit
        BY <1>6, <3>1 DEF Lone
      <4>2. PICK i \in 1..n : calls[i].chromaNotSplit
        BY <1>7, <4>1
      <4>3. i \in DOMAIN k /\ k[i].chromaNotSplit
        BY <1>11, <1>21, <4>2
      <4>4. r.modeType = "intra"
        BY <1>5, <1>14, <4>1
      <4> QED BY <4>3, <4>4
    <3>2. CASE alone
      <4>1. n + 1 \in DOMAIN k
        BY <1>7, <1>11
      <4> QED BY <1>5, <1>11, <1>12, <1>15, <3>2, <4>1
    <3> QED BY <1>5, <1>15, <2>3, <3>1, <3>2
  <2>4. r.treeType # "C"
    BY <1>3, <1>5
  <2> QED BY <2>1, <2>2, <2>3, <2>4 DEF Lone
<1>23. Walked("tree") = FALSE
  BY DEF Walked
<1>24. \A units : Covered(cs, units, p.levels, Walked("tree")) => Covered(cs, units, r.levels, Walked("tree"))
  BY <1>16, <1>23
<1>25. ASSUME waiting = NoPartitioner
       PROVE  CoversAlone(cs, "tree", r, k, coded["luma"], coded["chroma"])
  <2>1. CoversAlone(cs, "tree", p, calls, coded["luma"], coded["chroma"])
    BY <1>4, <1>6, <1>25
  <2>2. \A i \in DOMAIN calls : calls[i].chromaNotSplit =>
           i \in DOMAIN k /\ k[i].chromaNotSplit /\ SubSeq(r.levels, 1, i) = SubSeq(p.levels, 1, i)
    BY <1>7, <1>8, <1>11, <1>21 DEF Alike
  <2>3. CASE r.treeType = p.treeType
    <3>1. r.treeType # "C"
      BY <1>3, <1>5
    <3> QED BY <1>5, <1>24, <2>1, <2>2, <2>3, <3>1, AloneKept
  <2>4. CASE p.treeType = "D" /\ alone
    <3>1. /\ ~isDualITree(cs) /\ cs.format # "400" /\ r.treeType = "L"
      BY <1>5, <1>13, <1>15, <2>4, <1>3
    <3>2. (Walked("tree") \/ p.treeType = "C") = FALSE /\ (Walked("tree") \/ r.treeType = "C") = FALSE
      BY <1>23, <2>4, <3>1
    <3>3. Covered(cs, coded["luma"], p.levels, FALSE) /\ Covered(cs, coded["chroma"], p.levels, FALSE)
      BY <1>23, <2>1, <2>4, <3>1, <3>2 DEF CoversAlone
    <3>4. Covered(cs, coded["luma"], r.levels, FALSE)
      BY <1>16, <3>3
    <3>5. Covered(cs, coded["chroma"], SubSeq(r.levels, 1, n + 1), FALSE)
      BY <1>6, <1>8, <3>3, CoveredAsked
    <3>6. n + 1 \in DOMAIN k /\ k[n + 1].chromaNotSplit
      BY <1>7, <1>11, <1>12, <2>4
    <3> QED BY <3>1, <3>2, <3>4, <3>5, <3>6 DEF CoversAlone
  <2> QED BY <1>3, <1>5, <1>15, <2>3, <2>4
<1>26. ASSUME waiting # NoPartitioner
       PROVE  CoversPair(cs, "tree", r, waiting, k, coded)
  <2>1. CoversPair(cs, "tree", p, waiting, calls, coded) /\ calls # <<>>
    BY <1>4, <1>6, <1>26
  <2>2. n # 0
    BY <1>6, <1>7, <2>1
  <2>3. 2 \in 1..n \/ 2 = n + 1
    BY <1>7, <2>2
  <2>4. r.levels[2].parts = p.levels[2].parts /\ r.levels[2].idx = p.levels[2].idx
    <3>1. CASE 2 \in 1..n
      BY <1>8, <3>1 DEF Alike
    <3>2. CASE 2 = n + 1
      BY <1>8, <1>9, <1>10, <3>2
    <3> QED BY <2>3, <3>1, <3>2
  <2> QED BY <1>5, <1>11, <1>24, <2>1, <2>4, PairKept
<1> QED BY <1>3, <1>4, <1>6, <1>18, <1>19, <1>22, <1>25, <1>26, CoverMade
-----------------------------------------------------------------------------
\* A CTU of 128 with two trees is divided in four.
LEMMA RootForced ==
    ASSUME NEW c, NEW q, Stands(c, q), Len(q.levels) = 1, isDualITree(c), 64 < c.ctu,
           Level(q).implicit = "unknown", q.treeType # "C"
    PROVE  /\ Divides(c, q) /\ SplitSound(c, q, "qt") /\ MaySplit(c, q, "qt") /\ "qt" \in Splits \ {"no"}
           /\ currArea(q) = CtuOf(c)
<1>1. currArea(q) = CtuOf(c) /\ Sized(c)
  BY RootOf DEF Stands, Ready
<1>2. InPicture(c, currArea(q)) /\ 64 < currArea(q).w
  BY <1>1, CtuOnGrid
<1>3. Divides(c, q)
  BY <1>2 DEF Divides
<1>4. ForcedSplit(c, q) = "qt"
  BY <1>2, <1>3, ForcedFacts
<1>5. getImplicitSplit(c, q) = "qt"
  BY <1>4 DEF getImplicitSplit
<1>6. "qt" \in ImplicitChoice(c, q, "qt")
  <2>1. {"qt"} \cap {"bh"} = {} /\ {"qt"} \cap Bt = {}
    BY DEF Bt
  <2> QED BY <2>1 DEF ImplicitChoice
<1>7. "qt" \in canSplit(c, q)
  BY <1>5, <1>6 DEF canSplit
<1>8. SplitSound(c, q, "qt")
  BY <1>3, <1>7, ChosenSound
<1> QED BY <1>1, <1>3, <1>8, PartIndexes DEF SplitSound

\* Two partitioners: both at the CTU, or both one level down.
LEMMA PairFacts ==
    ASSUME WalkInv, waiting # NoPartitioner
    PROVE  /\ Stands(cs, p) /\ Stands(cs, waiting) /\ isDualITree(cs) /\ 64 < cs.ctu
           /\ p.treeType = "D" /\ waiting.treeType = "D" /\ waiting.chType # p.chType
           /\ p.chType \in {"luma", "chroma"} /\ waiting.chType \in {"luma", "chroma"}
           /\ CoversPair(cs, phase, p, waiting, calls, coded)
           /\ calls = <<>> => /\ Len(p.levels) = 1 /\ Len(waiting.levels) = 1
                              /\ p.chType = "luma" /\ waiting.chType = "chroma"
           /\ calls = <<Both>> => Len(p.levels) = 2 /\ Len(waiting.levels) = 2
<1>1. /\ Stands(cs, p) /\ Stands(cs, waiting) /\ isDualITree(cs) /\ 64 < cs.ctu
      /\ waiting.treeType = "D" /\ p.chType \in {"luma", "chroma"} /\ waiting.chType \in {"luma", "chroma"}
      /\ CoversPair(cs, phase, p, waiting, calls, coded)
      /\ Trees(isDualITree(cs), p, calls) /\ LevelCount(p, calls)
      /\ Waits(isDualITree(cs), p, waiting, calls)
  BY WalkParts
<1>2. p.treeType = "D"
  BY <1>1 DEF Trees
<1>3. waiting.chType # p.chType
  BY <1>1 DEF Waits
<1>4. Len(p.levels) = Len(calls) + 1
  BY <1>1, <1>2 DEF LevelCount
<1>5. ASSUME calls = <<>>
      PROVE  /\ Len(p.levels) = 1 /\ Len(waiting.levels) = 1
             /\ p.chType = "luma" /\ waiting.chType = "chroma"
  <2>1. Len(calls) = 0
    BY <1>5
  <2>2. p.chType = "luma" /\ Len(waiting.levels) = 1
    BY <1>1, <1>5 DEF Waits
  <2> QED BY <1>1, <1>3, <1>4, <2>1, <2>2
<1>6. ASSUME calls = <<Both>>
      PROVE  Len(p.levels) = 2 /\ Len(waiting.levels) = 2
  <2>1. Len(calls) = 1 /\ calls # <<>>
    BY <1>6
  <2>2. Len(waiting.levels) = 2
    BY <1>1, <2>1 DEF Waits
  <2> QED BY <1>4, <2>1, <2>2
<1> QED BY <1>1, <1>2, <1>3, <1>5, <1>6

LEMMA RootDivided ==
    ASSUME NEW c, NEW q, Stands(c, q), Len(q.levels) = 1, isDualITree(c), 64 < c.ctu,
           Level(q).implicit = "unknown", q.treeType = "D"
    PROVE  LET r == splitCurrArea(c, q, "qt") IN
           /\ MaySplit(c, q, "qt") /\ Stands(c, r) /\ r.chType = q.chType /\ r.treeType = "D"
           /\ r.levels[2].parts = Parts(CtuOf(c), "qt") /\ r.levels[2].idx = 0
           /\ Level(r).implicit = "unknown" /\ InPicture(c, Cur(Level(r)))
           /\ \A units : Covered(c, units, q.levels, FALSE) => Covered(c, units, r.levels, FALSE)
<1> DEFINE r == splitCurrArea(c, q, "qt")
<1>1. /\ Divides(c, q) /\ SplitSound(c, q, "qt") /\ MaySplit(c, q, "qt") /\ "qt" \in Splits \ {"no"}
      /\ currArea(q) = CtuOf(c)
  BY RootForced
<1>2. /\ Stands(c, r) /\ SameKind(r, q) /\ Len(r.levels) = 2
      /\ r.levels = Append(AskedPath(c, q), Child(c, q, "qt"))
      /\ Level(r) = Child(c, q, "qt") /\ Level(r).implicit = "unknown"
      /\ InPicture(c, currArea(r))
  <2>1. Len(r.levels) = Len(q.levels) + 1
    BY <1>1, DivideStands
  <2> QED BY <1>1, <2>1, DivideStands
<1>3. r.levels[2] = Child(c, q, "qt")
  BY <1>2 DEF Level, Last
<1>4. Child(c, q, "qt").parts = Parts(CtuOf(c), "qt") /\ Child(c, q, "qt").idx = 0
  BY <1>1, ChildParts
<1>5. \A units : Covered(c, units, q.levels, FALSE) => Covered(c, units, r.levels, FALSE)
  BY <1>1, <1>2, CoveredDivided
<1>6. InPicture(c, Cur(Level(r)))
  BY <1>2, LevelOf
<1> HIDE DEF r
<1> QED BY <1>1, <1>2, <1>3, <1>4, <1>5, <1>6 DEF r, SameKind

LEMMA LoneBoth ==
    ASSUME NEW c, NEW q, q.treeType = "D"
    PROVE  Lone(c, q, <<Both>>) /\ Lone(c, q, <<>>)
<1>1. \A i \in DOMAIN <<Both>> : <<Both>>[i].chromaNotSplit = FALSE
  BY BothSound
<1> QED BY <1>1 DEF Lone

LEMMA SplitBothCovers == ASSUME WalkInv, SplitBoth PROVE CoverInv'
<1> DEFINE r == splitCurrArea(cs, p, "qt")
           v == splitCurrArea(cs, waiting, "qt")
<1>1. phase = "tree" /\ waiting # NoPartitioner /\ calls = <<>> /\ UNCHANGED <<cs, coded>>
  BY DEF SplitBoth
<1>2. /\ Stands(cs, p) /\ Stands(cs, waiting) /\ isDualITree(cs) /\ 64 < cs.ctu
      /\ p.treeType = "D" /\ waiting.treeType = "D"
      /\ CoversPair(cs, "tree", p, waiting, calls, coded)
      /\ Len(p.levels) = 1 /\ Len(waiting.levels) = 1
      /\ p.chType = "luma" /\ waiting.chType = "chroma"
  BY <1>1, PairFacts
<1>3. Level(p).implicit = "unknown" /\ Level(waiting).implicit = "unknown"
  BY <1>1, <1>2, WalkParts DEF Begins, CoversPair
<1>4. /\ MaySplit(cs, p, "qt") /\ Stands(cs, r) /\ r.chType = "luma" /\ r.treeType = "D"
      /\ r.levels[2].parts = Parts(CtuOf(cs), "qt") /\ r.levels[2].idx = 0
      /\ Level(r).implicit = "unknown" /\ InPicture(cs, Cur(Level(r)))
      /\ \A units : Covered(cs, units, p.levels, FALSE) => Covered(cs, units, r.levels, FALSE)
  BY <1>2, <1>3, RootDivided
<1>5. /\ MaySplit(cs, waiting, "qt") /\ Stands(cs, v) /\ v.chType = "chroma" /\ v.treeType = "D"
      /\ v.levels[2].parts = Parts(CtuOf(cs), "qt") /\ v.levels[2].idx = 0
      /\ Level(v).implicit = "unknown"
      /\ \A units : Covered(cs, units, waiting.levels, FALSE) => Covered(cs, units, v.levels, FALSE)
  BY <1>2, <1>3, RootDivided
<1>6. p' = r /\ waiting' = v /\ calls' = <<Both>> /\ phase' = "tree" /\ coded' = coded /\ UNCHANGED cs
  BY <1>1, <1>4, <1>5 DEF SplitBoth
<1> HIDE DEF r, v
<1>7. Geo(cs, Limits(cs, r.chType), r.levels) /\ Geo(cs, Limits(cs, v.chType), v.levels)
  BY <1>4, <1>5 DEF Stands
<1>8. Begins(cs, "tree", r)
  BY <1>4 DEF Begins
<1>9. Lone(cs, r, <<Both>>)
  BY <1>4, LoneBoth
<1>10. Walked("tree") = FALSE
  BY DEF Walked
<1>11. /\ Covered(cs, coded[r.chType], r.levels, FALSE)
       /\ Covered(cs, coded[v.chType], v.levels, FALSE)
  BY <1>1, <1>2, <1>4, <1>5, <1>10 DEF CoversPair
<1>12. CoversPair(cs, "tree", r, v, <<Both>>, coded)
  BY <1>4, <1>5, <1>7, <1>10, <1>11 DEF CoversPair
<1>13. v # NoPartitioner
  <2>1. v \in Partition
    BY <1>5 DEF Stands
  <2> QED BY <2>1, NobodyWaits
<1> QED BY <1>2, <1>6, <1>7, <1>8, <1>9, <1>12, <1>13, CoverMade

LEMMA NextCovered ==
    ASSUME NEW q, Stands(cs, q), hasNextPart(q), NEW units, Covered(cs, units, q.levels, TRUE)
    PROVE  /\ Covered(cs, units, nextPart(q).levels, FALSE)
           /\ Covered(cs, units, nextPart(q).levels, Walked(Begin(nextPart(q))))
<1> DEFINE r == nextPart(q)
<1>1. Stands(cs, r) /\ r.levels = Append(Front(q.levels), Further(Level(q)))
  BY NextStands
<1>2. Covered(cs, units, Append(Front(q.levels), Further(Level(q))), FALSE)
  BY CoveredNext
<1> HIDE DEF r
<1>3. Covered(cs, units, r.levels, FALSE)
  BY <1>1, <1>2
<1>4. Covered(cs, units, r.levels, Walked(Begin(r)))
  BY <1>1, <1>3, CoveredBegin
<1> QED BY <1>3, <1>4 DEF r

LEMMA AlternateCovers == ASSUME WalkInv, Alternate PROVE CoverInv'
<1>1. phase = "return" /\ calls = <<Both>> /\ UNCHANGED <<cs, coded>> /\ calls # <<>>
  BY DEF Alternate
<1>2. waiting # NoPartitioner
  <2>1. Waits(isDualITree(cs), p, waiting, calls)
    BY WalkParts
  <2>2. 1 \in DOMAIN calls /\ calls[1] = Both
    BY <1>1
  <2> QED BY <2>1, <2>2 DEF Waits
<1>3. /\ Stands(cs, p) /\ Stands(cs, waiting) /\ isDualITree(cs) /\ 64 < cs.ctu
      /\ p.treeType = "D" /\ waiting.treeType = "D" /\ waiting.chType # p.chType
      /\ p.chType \in {"luma", "chroma"} /\ waiting.chType \in {"luma", "chroma"}
      /\ CoversPair(cs, "return", p, waiting, calls, coded)
      /\ Len(p.levels) = 2 /\ Len(waiting.levels) = 2
  BY <1>1, <1>2, PairFacts
<1>4. Walked("return") = TRUE
  BY DEF Walked
<1>5. /\ Level(p) = p.levels[2] /\ Level(waiting) = waiting.levels[2]
      /\ p.levels[2].parts = waiting.levels[2].parts /\ p.levels[2].idx = waiting.levels[2].idx
  BY <1>1, <1>3 DEF Level, Last, CoversPair
<1>6. hasNextPart(p) <=> hasNextPart(waiting)
  BY <1>5 DEF hasNextPart
<1>7. Covered(cs, coded[p.chType], p.levels, TRUE)
  BY <1>3, <1>4 DEF CoversPair
<1>8. Geo(cs, Limits(cs, waiting.chType), waiting.levels) /\ Geo(cs, Limits(cs, p.chType), p.levels)
  BY <1>3 DEF Stands
<1>9. CASE p.chType = "luma"
  <2> DEFINE ph == Begin(waiting)
  <2>1. p' = waiting /\ waiting' = p /\ phase' = ph /\ calls' = calls
    BY <1>9 DEF Alternate
  <2>2. waiting.chType = "chroma"
    BY <1>3, <1>9
  <2>3. Covered(cs, coded["chroma"], waiting.levels, FALSE) /\ Level(waiting).implicit = "unknown"
    BY <1>1, <1>3, <2>2 DEF CoversPair
  <2>4. Covered(cs, coded["chroma"], waiting.levels, Walked(ph))
    BY <1>3, <2>3, CoveredBegin
  <2>5. ph \in {"tree", "return"} /\ (ph = "tree" => InPicture(cs, Cur(Level(waiting))))
    BY <1>3, LevelOf DEF Begin
  <2>6. p # NoPartitioner
    BY <1>3, NobodyWaits DEF Stands
  <2> HIDE DEF ph
  <2>7. Begins(cs, ph, waiting)
    BY <1>3, <2>3, <2>5 DEF Begins
  <2>8. Lone(cs, waiting, calls)
    BY <1>1, <1>3, LoneBoth
  <2>9. CoversPair(cs, ph, waiting, p, calls, coded)
    BY <1>1, <1>5, <1>7, <1>8, <1>9, <2>2, <2>4 DEF CoversPair
  <2> QED BY <1>1, <1>3, <1>8, <2>1, <2>5, <2>6, <2>7, <2>8, <2>9, CoverMade
<1>10. CASE p.chType # "luma" /\ hasNextPart(p)
  <2> DEFINE ph == Begin(nextPart(waiting))
             r == nextPart(waiting)
             v == nextPart(p)
  <2>1. p' = r /\ waiting' = v /\ phase' = ph /\ calls' = calls
    BY <1>6, <1>10 DEF Alternate
  <2>2. p.chType = "chroma" /\ waiting.chType = "luma"
    BY <1>3, <1>10
  <2>3. Covered(cs, coded["luma"], waiting.levels, TRUE)
    BY <1>3, <2>2 DEF CoversPair
  <2>4. /\ Stands(cs, r) /\ SameKind(r, waiting) /\ Len(r.levels) = Len(waiting.levels)
        /\ Level(r) = Further(Level(waiting)) /\ Level(r).implicit = "unknown"
    BY <1>3, <1>6, <1>10, NextStands
  <2>5. /\ Stands(cs, v) /\ SameKind(v, p) /\ Len(v.levels) = Len(p.levels)
        /\ Level(v) = Further(Level(p)) /\ Level(v).implicit = "unknown"
    BY <1>3, <1>10, NextStands
  <2>6. Covered(cs, coded["luma"], r.levels, Walked(ph))
    BY <1>3, <1>6, <1>10, <2>3, NextCovered
  <2>7. Covered(cs, coded["chroma"], v.levels, FALSE)
    BY <1>3, <1>7, <1>10, <2>2, NextCovered
  <2>8. ph \in {"tree", "return"} /\ (ph = "tree" => InPicture(cs, Cur(Level(r))))
    BY <2>4, LevelOf DEF Begin
  <2> HIDE DEF ph, r, v
  <2>9. r.chType = "luma" /\ v.chType = "chroma" /\ r.treeType = "D"
    BY <1>3, <2>2, <2>4, <2>5 DEF SameKind
  <2>10. r.levels[2] = Level(r) /\ v.levels[2] = Level(v)
    BY <1>3, <2>4, <2>5 DEF Level, Last
  <2>11. Further(Level(p)).parts = Further(Level(waiting)).parts /\ Further(Level(p)).idx = Further(Level(waiting)).idx
    <3>1. Level(p) \in PathLevel /\ Level(waiting) \in PathLevel
      BY <1>3, LevelOf DEF PathOf
    <3> QED BY <1>5, <3>1 DEF Further, PathLevel
  <2>12. r.levels[2].parts = v.levels[2].parts /\ r.levels[2].idx = v.levels[2].idx
    BY <2>4, <2>5, <2>10, <2>11
  <2>13. v # NoPartitioner
    BY <2>5, NobodyWaits DEF Stands
  <2>14. Begins(cs, ph, r)
    BY <2>4, <2>8, <2>9 DEF Begins
  <2>15. Lone(cs, r, calls)
    BY <1>1, <2>9, LoneBoth
  <2>16. Geo(cs, Limits(cs, r.chType), r.levels) /\ Geo(cs, Limits(cs, v.chType), v.levels)
    BY <2>4, <2>5 DEF Stands
  <2>17. CoversPair(cs, ph, r, v, calls, coded)
    BY <1>1, <2>5, <2>6, <2>7, <2>9, <2>12, <2>16 DEF CoversPair
  <2> QED BY <1>1, <1>3, <2>1, <2>8, <2>13, <2>14, <2>15, <2>16, <2>17, CoverMade
<1>11. CASE p.chType # "luma" /\ ~hasNextPart(p)
  <2> DEFINE r == exitCurrSplit(waiting)
             v == exitCurrSplit(p)
  <2>1. p' = r /\ waiting' = v /\ phase' = "return" /\ calls' = <<>>
    <3>1. hasNextPart(p) = hasNextPart(waiting)
      BY <1>5 DEF hasNextPart
    <3>2. phase' = phase /\ p' = r /\ waiting' = v /\ calls' = <<>>
      BY <3>1, <1>11 DEF Alternate
    <3> QED BY <3>2, <1>1
  <2>2. p.chType = "chroma" /\ waiting.chType = "luma"
    BY <1>3, <1>11
  <2>3. Covered(cs, coded["luma"], waiting.levels, TRUE)
    BY <1>3, <2>2 DEF CoversPair
  <2>4. Len(p.levels) # 1 /\ Len(waiting.levels) # 1
    BY <1>3
  <2>5. Stands(cs, r) /\ SameKind(r, waiting) /\ r.levels = Front(waiting.levels)
    BY <1>3, <1>6, <1>11, <2>4, ExitStands
  <2>6. Stands(cs, v) /\ SameKind(v, p) /\ v.levels = Front(p.levels)
    BY <1>3, <1>11, <2>4, ExitStands
  <2>7. Level(p).split # "ctu" /\ Level(waiting).split # "ctu"
    BY <1>3, <2>4, BelowRoot
  <2> HIDE DEF r, v
  <2>8. Covered(cs, coded["luma"], r.levels, TRUE)
    BY <1>3, <1>6, <1>11, <2>3, <2>5, <2>7, CoveredExit
  <2>9. Covered(cs, coded["chroma"], v.levels, TRUE)
    BY <1>3, <1>7, <1>11, <2>2, <2>6, <2>7, CoveredExit
  <2>10. r.chType = "luma" /\ v.chType = "chroma" /\ r.treeType = "D"
    BY <1>3, <2>2, <2>5, <2>6 DEF SameKind
  <2>11. v # NoPartitioner
    BY <2>6, NobodyWaits DEF Stands
  <2>12. Begins(cs, "return", r)
    BY <2>10 DEF Begins
  <2>13. Lone(cs, r, <<>>)
    BY <2>10, LoneBoth
  <2>14. Geo(cs, Limits(cs, r.chType), r.levels) /\ Geo(cs, Limits(cs, v.chType), v.levels)
    BY <2>5, <2>6 DEF Stands
  <2>15. CoversPair(cs, "return", r, v, <<>>, coded)
    BY <1>4, <2>8, <2>9, <2>10, <2>14 DEF CoversPair
  <2> QED BY <1>1, <1>3, <2>1, <2>11, <2>12, <2>13, <2>14, <2>15, CoverMade
<1> QED BY <1>9, <1>10, <1>11
-----------------------------------------------------------------------------
\* A walk that has returned from all calls stands at the CTU.
LEMMA AtCtu ==
    ASSUME WalkInv, phase = "return", calls = <<>>
    PROVE  /\ Stands(cs, p) /\ Len(p.levels) = 1 /\ p.treeType = "D"
           /\ p.chType \in {"luma", "chroma"}
<1>1. /\ Stands(cs, p) /\ LevelCount(p, calls) /\ Trees(isDualITree(cs), p, calls)
      /\ Lone(cs, p, calls) /\ p.chType \in {"luma", "chroma"} /\ p.treeType \in {"D", "L", "C"}
  BY WalkParts
<1>2. p.treeType # "C"
  BY <1>1 DEF Trees
<1>3. p.treeType # "L"
  BY <1>1 DEF Lone
<1>4. Len(calls) = 0
  OBVIOUS
<1> QED BY <1>1, <1>2, <1>3, <1>4 DEF LevelCount

\* A tree begins at the CTU.
LEMMA CtuBegins ==
    ASSUME NEW c, Ready(c), NEW ch \in {"luma", "chroma"}
    PROVE  LET q == initCtu(c, ch) IN
           /\ Stands(c, q) /\ Geo(c, Limits(c, q.chType), q.levels)
           /\ Begins(c, "tree", q) /\ Lone(c, q, <<>>) /\ Len(q.levels) = 1
           /\ q.chType = ch /\ q.treeType = "D" /\ Level(q).implicit = "unknown"
           /\ Covered(c, {}, q.levels, FALSE)
<1> DEFINE q == initCtu(c, ch)
<1>1. /\ Stands(c, q) /\ currArea(q) = CtuOf(c)
      /\ Level(q).implicit = "unknown" /\ q.treeType = "D"
      /\ q.chType = ch /\ Len(q.levels) = 1 /\ Covered(c, {}, q.levels, FALSE)
  BY CtuStands
<1> HIDE DEF q
<1>2. Sized(c) /\ InPicture(c, CtuOf(c))
  BY CtuOnGrid DEF Ready
<1>3. Begins(c, "tree", q)
  BY <1>1, <1>2, LevelOf DEF Begins
<1>4. Lone(c, q, <<>>) /\ Geo(c, Limits(c, q.chType), q.levels)
  BY <1>1, LoneBoth DEF Stands
<1> QED BY <1>1, <1>3, <1>4 DEF q

LEMMA BeginChromaCovers == ASSUME WalkInv, BeginChroma PROVE CoverInv'
<1> DEFINE q == initCtu(cs, "chroma")
<1>1. /\ phase = "return" /\ calls = <<>> /\ isDualITree(cs) /\ waiting = NoPartitioner
      /\ p.chType = "luma" /\ p' = q /\ phase' = "tree" /\ UNCHANGED <<cs, waiting, calls, coded>>
  BY DEF BeginChroma
<1>2. /\ Ready(cs) /\ (waiting # NoPartitioner <=> isDualITree(cs) /\ 64 < cs.ctu)
      /\ CoversAlone(cs, "return", p, calls, coded["luma"], coded["chroma"])
  BY <1>1, WalkParts
<1>3. /\ Geo(cs, Limits(cs, q.chType), q.levels) /\ Begins(cs, "tree", q) /\ Lone(cs, q, calls)
      /\ q.chType = "chroma" /\ Covered(cs, {}, q.levels, FALSE)
  BY <1>1, <1>2, CtuBegins
<1>4. Covered(cs, coded["luma"], p.levels, TRUE) /\ coded["chroma"] = {}
  <2>1. Walked("return") = TRUE
    BY DEF Walked
  <2> QED BY <1>1, <1>2, <2>1 DEF CoversAlone
<1>5. coded["luma"] = Shown(cs, CtuOf(cs))
  BY <1>1, <1>4, AtCtu, RootOf
<1> HIDE DEF q
<1>6. CoversAlone(cs, "tree", q, calls, coded["luma"], coded["chroma"])
  <2>1. Walked("tree") = FALSE
    BY DEF Walked
  <2> QED BY <1>1, <1>3, <1>4, <1>5, <2>1 DEF CoversAlone
<1> QED BY <1>1, <1>2, <1>3, <1>6, CoverMade

LEMMA EndCtuCovers == ASSUME WalkInv, EndCtu PROVE CoverInv'
<1>1. /\ phase = "return" /\ calls = <<>> /\ phase' = "done"
      /\ UNCHANGED <<cs, p, waiting, calls, qg, coded>>
      /\ isDualITree(cs) => waiting # NoPartitioner \/ p.chType = "chroma"
  BY DEF EndCtu
<1>2. /\ Stands(cs, p) /\ Len(p.levels) = 1 /\ p.treeType = "D" /\ p.chType \in {"luma", "chroma"}
  BY <1>1, AtCtu
<1>3. /\ Lone(cs, p, calls) /\ (waiting # NoPartitioner <=> isDualITree(cs) /\ 64 < cs.ctu)
      /\ Begins(cs, "return", p)
  BY <1>1, WalkParts
<1>4. Geo(cs, Limits(cs, p.chType), p.levels)
  BY <1>2 DEF Stands
<1>5. Begins(cs, "done", p)
  BY <1>2, <1>3 DEF Begins
<1>6. \A units : Covered(cs, units, p.levels, TRUE) => units = Shown(cs, CtuOf(cs))
  BY <1>2, RootOf
<1>7. Walked("return") = TRUE /\ Walked("done") = TRUE
  BY DEF Walked
<1>8. ASSUME waiting = NoPartitioner
      PROVE  /\ CoversAlone(cs, "done", p, calls, coded["luma"], coded["chroma"])
             /\ coded["luma"] = Shown(cs, CtuOf(cs))
             /\ cs.format # "400" => coded["chroma"] = Shown(cs, CtuOf(cs))
  <2>1. CoversAlone(cs, "return", p, calls, coded["luma"], coded["chroma"])
    BY <1>1, <1>8, WalkParts
  <2>2. CoversAlone(cs, "done", p, calls, coded["luma"], coded["chroma"])
    BY <1>7, <2>1 DEF CoversAlone
  <2>3. CASE isDualITree(cs)
    <3>1. p.chType = "chroma"
      BY <1>1, <1>8, <2>3
    <3>2. Covered(cs, coded["chroma"], p.levels, TRUE) /\ coded["luma"] = Shown(cs, CtuOf(cs))
      BY <1>7, <2>1, <2>3, <3>1 DEF CoversAlone
    <3> QED BY <1>6, <2>2, <3>2
  <2>4. CASE ~isDualITree(cs)
    <3>1. Covered(cs, coded["luma"], p.levels, TRUE)
      BY <1>2, <1>7, <2>1, <2>4 DEF CoversAlone
    <3>2. cs.format # "400" => Covered(cs, coded["chroma"], p.levels, TRUE)
      BY <1>2, <1>7, <2>1, <2>4 DEF CoversAlone
    <3> QED BY <1>6, <2>2, <3>1, <3>2
  <2> QED BY <2>3, <2>4
<1>9. ASSUME waiting # NoPartitioner
      PROVE  /\ CoversPair(cs, "done", p, waiting, calls, coded)
             /\ coded["luma"] = Shown(cs, CtuOf(cs))
             /\ coded["chroma"] = Shown(cs, CtuOf(cs))
  <2>1. /\ CoversPair(cs, "return", p, waiting, calls, coded) /\ Stands(cs, waiting)
        /\ Len(waiting.levels) = 1 /\ p.chType = "luma" /\ waiting.chType = "chroma"
    BY <1>1, <1>9, PairFacts
  <2>2. Covered(cs, coded["luma"], p.levels, TRUE)
    BY <1>7, <2>1 DEF CoversPair
  <2>3. Covered(cs, coded["chroma"], waiting.levels, TRUE)
    <3>1. (waiting.chType = "luma" \/ (calls = <<>> /\ Walked("return"))) = TRUE
      BY <1>1, <1>7
    <3> QED BY <2>1, <3>1 DEF CoversPair
  <2>4. coded["chroma"] = Shown(cs, CtuOf(cs))
    BY <2>1, <2>3, RootOf
  <2>5. CoversPair(cs, "done", p, waiting, calls, coded)
    BY <1>1, <1>7, <2>1 DEF CoversPair
  <2> QED BY <1>6, <2>2, <2>4, <2>5
<1> QED BY <1>1, <1>3, <1>4, <1>5, <1>8, <1>9, CoverMade

LEMMA WalkInit == Init => WalkInv
<1> SUFFICES ASSUME Init PROVE WalkInv
  OBVIOUS
<1> DEFINE q == initCtu(cs, "luma")
           w == initCtu(cs, "chroma")
<1>1. /\ cs \in Configs /\ Accepted(cs) /\ phase = "tree" /\ p = q /\ calls = <<>>
      /\ waiting = (IF Interleaved(cs) THEN w ELSE NoPartitioner)
      /\ coded["luma"] = {} /\ coded["chroma"] = {}
  BY DEF Init
<1>2. Ready(cs) /\ TreeInv
  BY <1>1, ConfigReady, TreeInit
<1>3. Interleaved(cs) <=> isDualITree(cs) /\ 64 < cs.ctu
  <2>1. cs.ctu \in Nat /\ (cs.dual => cs.format # "400")
    BY <1>1, <1>2 DEF Accepted, Ready, Sized
  <2> QED BY <2>1 DEF Interleaved, isDualITree
<1>4. /\ Geo(cs, Limits(cs, q.chType), q.levels) /\ Begins(cs, "tree", q) /\ Lone(cs, q, <<>>)
      /\ q.chType = "luma" /\ q.treeType = "D" /\ Covered(cs, {}, q.levels, FALSE)
  BY <1>2, CtuBegins
<1>5. /\ Stands(cs, w) /\ Geo(cs, Limits(cs, w.chType), w.levels) /\ w.chType = "chroma"
      /\ Covered(cs, {}, w.levels, FALSE) /\ Level(w).implicit = "unknown"
  BY <1>2, CtuBegins
<1> HIDE DEF q, w
<1>6. w # NoPartitioner
  BY <1>5, NobodyWaits DEF Stands
<1>7. waiting # NoPartitioner <=> isDualITree(cs) /\ 64 < cs.ctu
  BY <1>1, <1>3, <1>6
<1>8. Walked("tree") = FALSE
  BY DEF Walked
<1>9. CoversAlone(cs, "tree", q, <<>>, coded["luma"], coded["chroma"])
  BY <1>1, <1>4, <1>8 DEF CoversAlone
<1>10. CoversPair(cs, "tree", q, w, <<>>, coded)
  BY <1>1, <1>4, <1>5, <1>8 DEF CoversPair
<1>11. waiting # NoPartitioner => waiting = w
  BY <1>1
<1>12. Cover(cs, "tree", q, waiting, <<>>, coded)
  BY <1>1, <1>4, <1>7, <1>9, <1>10, <1>11 DEF Cover
<1> QED BY <1>1, <1>2, <1>12 DEF WalkInv, CoverInv

LEMMA WalkStep == WalkInv /\ [Next]_vars => WalkInv'
<1> SUFFICES ASSUME WalkInv, [Next]_vars PROVE WalkInv'
  OBVIOUS
<1>1. Ready(cs) /\ TreeInv /\ CoverInv
  BY DEF WalkInv
<1>2. TreeInv'
  BY <1>1, TreeStep
<1>3. cs' = cs
  BY DEF Next, SplitBoth, Split, DontSplit, CodeUnit, NextPart, ExitSplit, EndChroma, Alternate,
         BeginChroma, EndCtu, Ended, vars
<1>4. CoverInv'
  <2>1. CASE SplitBoth
    BY <2>1, SplitBothCovers
  <2>2. CASE Split
    BY <2>2, SplitCovers
  <2>3. CASE DontSplit
    BY <2>3, DontSplitCovers
  <2>4. CASE CodeUnit
    BY <2>4, CodeUnitCovers
  <2>5. CASE NextPart
    BY <2>5, NextPartCovers
  <2>6. CASE ExitSplit
    BY <2>6, ExitSplitCovers
  <2>7. CASE EndChroma
    BY <2>7, EndChromaCovers
  <2>8. CASE Alternate
    BY <2>8, AlternateCovers
  <2>9. CASE BeginChroma
    BY <2>9, BeginChromaCovers
  <2>10. CASE EndCtu
    BY <2>10, EndCtuCovers
  <2>11. CASE UNCHANGED vars
    BY <1>1, <2>11 DEF vars, CoverInv
  <2> QED BY <2>1, <2>2, <2>3, <2>4, <2>5, <2>6, <2>7, <2>8, <2>9, <2>10, <2>11 DEF Next, Ended
<1> QED BY <1>1, <1>2, <1>3, <1>4 DEF WalkInv

\* Nothing of the block at hand was coded before it.
LEMMA FreshUnits ==
    ASSUME NEW c, NEW q, Stands(c, q), NEW units, Covered(c, units, q.levels, FALSE)
    PROVE  Shown(c, currArea(q)) \cap units = {}
<1>1. /\ Front(q.levels) \in Seq(PathLevel) /\ Level(q) \in PathLevel
      /\ q.levels = Append(Front(q.levels), Level(q)) /\ Cur(Level(q)) = currArea(q)
  BY LevelOf DEF PathOf
<1>2. LevelGeo(c, Limits(c, q.chType), Front(q.levels), Level(q))
  BY LevelOf
<1>3. CoveredBy(c, units, Front(q.levels), Level(q), FALSE)
  BY <1>1, CoveredOf
<1>4. Fresh(c, Front(q.levels), Level(q))
  BY <1>2 DEF LevelGeo
<1> QED BY <1>1, <1>3, <1>4 DEF Fresh, CoveredBy

\* What was coded of the channels of the unit at hand.
LEMMA CoveredChannels ==
    ASSUME WalkInv, phase = "unit"
    PROVE  \A c \in Channels : Covered(cs, coded[c], p.levels, FALSE)
<1>1. /\ p.chType \in {"luma", "chroma"} /\ p.treeType \in {"D", "L", "C"}
      /\ waiting = NoPartitioner =>
            CoversAlone(cs, "unit", p, calls, coded["luma"], coded["chroma"])
      /\ waiting # NoPartitioner => CoversPair(cs, "unit", p, waiting, calls, coded)
      /\ waiting # NoPartitioner => isDualITree(cs)
  BY WalkParts
<1>2. Walked("unit") = FALSE
  BY DEF Walked
<1>3. /\ isDualITree(cs) => Channels = {p.chType}
      /\ p.treeType = "C" => Channels = {"chroma"} /\ ~isDualITree(cs) /\ p.chType = "chroma"
      /\ p.treeType = "L" => Channels = {"luma"} /\ ~isDualITree(cs) /\ p.chType = "luma"
      /\ ~isDualITree(cs) /\ p.treeType = "D" =>
            Channels = IF cs.format = "400" THEN {"luma"} ELSE {"luma", "chroma"}
      /\ p.treeType \in {"L", "C"} \/ isDualITree(cs) => cs.format # "400"
  BY ChannelsOf
<1>4. CASE waiting # NoPartitioner
  <2>1. Covered(cs, coded[p.chType], p.levels, FALSE)
    BY <1>1, <1>2, <1>4 DEF CoversPair
  <2> QED BY <1>1, <1>3, <1>4, <2>1
<1>5. CASE waiting = NoPartitioner /\ isDualITree(cs)
  <2>1. Covered(cs, coded[p.chType], p.levels, FALSE)
    BY <1>1, <1>2, <1>5 DEF CoversAlone
  <2> QED BY <1>3, <1>5, <2>1
<1>6. CASE waiting = NoPartitioner /\ ~isDualITree(cs)
  <2>1. p.treeType # "C" => Covered(cs, coded["luma"], p.levels, FALSE)
    <3>1. p.treeType # "C" => (Walked("unit") \/ p.treeType = "C") = FALSE
      BY <1>2
    <3> QED BY <1>1, <1>6, <3>1 DEF CoversAlone
  <2>2. cs.format # "400" /\ p.treeType # "L" => Covered(cs, coded["chroma"], p.levels, FALSE)
    BY <1>1, <1>2, <1>6 DEF CoversAlone
  <2>3. CASE p.treeType = "C"
    BY <1>3, <2>2, <2>3
  <2>4. CASE p.treeType = "L"
    BY <1>3, <2>1, <2>4
  <2>5. CASE p.treeType = "D"
    BY <1>3, <1>6, <2>1, <2>2, <2>5
  <2> QED BY <1>1, <2>3, <2>4, <2>5
<1> QED BY <1>4, <1>5, <1>6

\* No CHECK of the walk fails, for every size of CTU, of unit and of picture,
\* and all limits on splits that the reader of the SPS accepts.
THEOREM NoCheckFails == Spec => []ChecksHold
<1>1. WalkInv => ChecksHold
  <2> SUFFICES ASSUME WalkInv PROVE phase # "failed"
    BY DEF ChecksHold
  <2>1. Begins(cs, phase, p)
    BY WalkParts
  <2> QED BY <2>1 DEF Begins
<1> QED BY <1>1, WalkInit, WalkStep, PTL DEF Spec

\* What is coded of a CTU are the units of it that the picture shows, each once
\* in luma and once in chroma; a unit at hand lies in the picture.
THEOREM EverythingOnce == Spec => []CodedOnce
<1>1. WalkInv => CodedOnce
  <2> SUFFICES ASSUME WalkInv PROVE CodedOnce
    OBVIOUS
  <2>1. /\ Ready(cs) /\ Sized(cs) /\ Stands(cs, p) /\ Begins(cs, phase, p)
        /\ p.chType \in {"luma", "chroma"} /\ p.treeType \in {"D", "L", "C"}
    BY WalkParts
  <2>2. ASSUME phase = "unit"
        PROVE  LET a == currArea(p) IN
               /\ HasBottomLeft(cs, a) /\ HasTopRight(cs, a)
               /\ \A c \in Channels : UnitsOf(a) \cap coded[c] = {}
    <3>1. InPicture(cs, currArea(p)) /\ ~Cut(cs, currArea(p))
      BY <2>1, <2>2, LevelOf DEF Begins
    <3>2. /\ HasBottomLeft(cs, currArea(p)) /\ HasTopRight(cs, currArea(p))
          /\ UnitsOf(currArea(p)) = Shown(cs, currArea(p))
      BY <3>1, UnitShown
    <3>3. \A units : Covered(cs, units, p.levels, FALSE)
                       => Shown(cs, currArea(p)) \cap units = {}
      BY <2>1, FreshUnits
    <3>4. \A c \in Channels : Covered(cs, coded[c], p.levels, FALSE)
      BY <2>2, CoveredChannels
    <3> QED BY <3>2, <3>3, <3>4
  <2>3. ASSUME phase = "done"
        PROVE  /\ coded["luma"] = UnitsInPicture(Ctu)
               /\ coded[Chroma] = UnitsInPicture(Ctu)
    <3>1. /\ coded["luma"] = Shown(cs, CtuOf(cs))
          /\ cs.format # "400" => coded["chroma"] = Shown(cs, CtuOf(cs))
      BY <2>3 DEF WalkInv, CoverInv, Cover
    <3>2. UnitsInPicture(CtuOf(cs)) = Shown(cs, CtuOf(cs))
      BY <2>1, CtuOnGrid, UnitsShown
    <3>3. Ctu = CtuOf(cs)
      BY DEF Ctu, CtuOf
    <3> QED BY <3>1, <3>2, <3>3 DEF Chroma
  <2> QED BY <2>2, <2>3 DEF CodedOnce
<1> QED BY <1>1, WalkInit, WalkStep, PTL DEF Spec
=============================================================================
