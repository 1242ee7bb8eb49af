------------------------ MODULE ReferencePictures_proofs ------------------------
(***************************************************************************)
(* For every number of POC bits, pictures, entries and slices: what is     *)
(* written of a reference picture list is read again (ParsedRpl), the      *)
(* decoder recovers the POC of every picture that it decodes, and the      *)
(* entries lead to the pictures that the encoder meant, so that it has     *)
(* what it needs, and makes up what a random access point lacks.           *)
(***************************************************************************)
EXTENDS ReferencePictures, IntegerFacts, FiniteSetTheorems

-----------------------------------------------------------------------------
\* Least significant bits.

LEMMA LsbRange ==
    /\ MaxPocLsb \in Nat /\ MaxPocLsb >= 2
    /\ MaxPocLsb \div 2 \in Nat /\ MaxPocLsb \div 2 >= 1
    /\ MaxPocLsb = 2 * (MaxPocLsb \div 2)
<1> DEFINE Even(n) == n \in Nat /\ n >= 2 /\ n \div 2 \in Nat /\ n \div 2 >= 1 /\ n = 2 * (n \div 2)
<1>1. BitsForPOC \in 1..16
  BY ReferenceAssumption
<1>2. BitsForPOC = 1 \/ BitsForPOC = 2 \/ BitsForPOC = 3 \/ BitsForPOC = 4 \/ BitsForPOC = 5
      \/ BitsForPOC = 6 \/ BitsForPOC = 7 \/ BitsForPOC = 8 \/ BitsForPOC = 9
      \/ BitsForPOC = 10 \/ BitsForPOC = 11 \/ BitsForPOC = 12 \/ BitsForPOC = 13
      \/ BitsForPOC = 14 \/ BitsForPOC = 15 \/ BitsForPOC = 16
  BY <1>1
<1>3. Even(2^BitsForPOC)
  <2>1. Even(2^1) /\ Even(2^2) /\ Even(2^3) /\ Even(2^4) /\ Even(2^5) /\ Even(2^6) /\ Even(2^7)
        /\ Even(2^8)
    OBVIOUS
  <2>2. Even(2^9) /\ Even(2^10) /\ Even(2^11) /\ Even(2^12) /\ Even(2^13) /\ Even(2^14)
        /\ Even(2^15) /\ Even(2^16)
    OBVIOUS
  <2> HIDE DEF Even
  <2> QED BY <1>2, <2>1, <2>2
<1> QED BY <1>3 DEF MaxPocLsb

\* The POC that the decoder derives from LSBs and the POC before, where M is the
\* number of LSB values, H half of it and off a whole number of cycles.
Derivable(M, H, poc, q, off) ==
    /\ M \in Nat /\ H \in Nat /\ M = 2 * H /\ H >= 1
    /\ poc \in Int /\ q \in Int /\ off \in Int
    /\ off % M = 0
    /\ poc - (q + off) \in (1 - H)..H
Derived(M, H, poc, q) ==
    (IF poc % M < q % M /\ (q % M) - (poc % M) >= H THEN q - (q % M) + M
     ELSE IF poc % M > q % M /\ (poc % M) - (q % M) > H THEN q - (q % M) - M
     ELSE q - (q % M)) + (poc % M)

LEMMA PocFromLsb ==
    ASSUME NEW M, NEW H, NEW poc, NEW q, NEW off, Derivable(M, H, poc, q, off)
    PROVE  Derived(M, H, poc, q) = poc - off
<1> /\ M \in Nat /\ H \in Nat /\ M = 2 * H /\ H >= 1
    /\ poc \in Int /\ q \in Int /\ off \in Int
    /\ off % M = 0
    /\ poc - (q + off) \in (1 - H)..H
  BY DEF Derivable
<1> DEFINE a == poc \div M
           b == q \div M
           c == off \div M
           x == poc % M
           y == q % M
           d == a - b - c
           Md == M * d
<1>0. M \in Nat \ {0}
  OBVIOUS
<1>1. /\ poc = M * a + x /\ x \in 0..(M - 1) /\ a \in Int
      /\ q = M * b + y /\ y \in 0..(M - 1) /\ b \in Int
      /\ off = M * c /\ c \in Int
  <2>1. off = M * (off \div M) + (off % M)
    BY <1>0, Division
  <2>2. off = M * (off \div M)
    <3>1. M * c \in Int
      <4>1. c \in Int
        BY <1>0, Division
      <4> HIDE DEF c
      <4> QED BY <1>0, <4>1
    <3>2. off % M = 0
      OBVIOUS
    <3> QED BY <2>1, <3>1, <3>2
  <2> QED BY <1>0, <2>2, Division
<1> HIDE DEF a, b, c, x, y
<1>2. Md = M * a - M * b - M * c /\ Md \in Int /\ d \in Int
  <2>1. M * (a - b - c) = M * (a - b) - M * c
    BY <1>1, Distribute
  <2>2. M * (a - b) = M * a - M * b
    BY <1>1, Distribute
  <2> QED BY <1>1, <2>1, <2>2
<1>3. poc - off = q - y + x + Md
  BY <1>1, <1>2
<1>4. Md + (x - y) \in (1 - H)..H
  BY <1>1, <1>2, <1>3
<1>5. Md = 0 \/ Md = M \/ Md = -M
  <2>1. CASE d >= 2
    <3>1. M * 2 <= Md
      BY <1>2, <2>1, Monotonic
    <3> HIDE DEF Md
    <3> QED BY <1>1, <1>2, <1>4, <3>1
  <2>2. CASE d <= -2
    <3>1. Md <= M * (-2)
      BY <1>2, <2>2, Monotonic
    <3> HIDE DEF Md
    <3> QED BY <1>1, <1>2, <1>4, <3>1
  <2>3. M * 0 = 0 /\ M * 1 = M /\ M * (-1) = -M
    OBVIOUS
  <2>4. d = 0 \/ d = 1 \/ d = -1
    BY <1>2, <2>1, <2>2
  <2> HIDE DEF d
  <2> QED BY <2>3, <2>4
<1> HIDE DEF d, Md
<1>6. (IF x < y /\ y - x >= H THEN q - y + M
       ELSE IF x > y /\ x - y > H THEN q - y - M ELSE q - y) + x = poc - off
  <2>1. CASE Md = 0
    BY <1>1, <1>3, <1>4, <2>1
  <2>2. CASE Md = M
    BY <1>1, <1>3, <1>4, <2>2
  <2>3. CASE Md = -M
    BY <1>1, <1>3, <1>4, <2>3
  <2> QED BY <1>5, <2>1, <2>2, <2>3
<1> QED BY <1>6 DEF x, y, Derived
-----------------------------------------------------------------------------
\* The list: what is written of its entries is read again.

LEMMA LastValueNext ==
    ASSUME NEW values, NEW n \in Nat, NEW S \in SUBSET Nat
    PROVE  LastValue(values, S, n + 1) = IF n \in S THEN values[n] ELSE LastValue(values, S, n)
<1> DEFINE before(i) == {j \in S : j < i}
<1>1. CASE n \in S
  <2>1. n \in before(n + 1) /\ \A y \in before(n + 1) : n >= y
    BY <1>1
  <2>2. \A x \in before(n + 1) : (\A y \in before(n + 1) : x >= y) => x = n
    BY <1>1
  <2> HIDE DEF before
  <2>3. (CHOOSE x \in before(n + 1) : \A y \in before(n + 1) : x >= y) = n
    BY <2>1, <2>2
  <2>4. Max(before(n + 1)) = n
    BY ONLY <2>3 DEF Max
  <2> QED BY <1>1, <2>1, <2>4 DEF LastValue, before
<1>2. CASE n \notin S
  <2>1. \A j \in S : j < n + 1 <=> j < n
    BY <1>2
  <2>2. before(n + 1) = before(n)
    BY <2>1
  <2> QED BY <1>2, <2>2 DEF LastValue
<1> QED BY <1>1, <1>2

LEMMA LastValueType ==
    ASSUME NEW N \in Nat, NEW values \in [1..N -> Int], NEW S \in SUBSET (1..N), NEW n \in Nat
    PROVE  LastValue(values, S, n) \in Int
<1> DEFINE before == {j \in S : j < n}
<1>1. CASE before = {}
  BY <1>1 DEF LastValue
<1>2. CASE before # {}
  <2>1. before \in SUBSET (0..N) /\ before \subseteq 1..N
    <3>1. \A j \in before : j \in 1..N
      OBVIOUS
    <3> HIDE DEF before
    <3>2. \A j \in before : j \in 0..N
      BY <3>1
    <3> QED BY <3>1, <3>2
  <2>2. \E x \in before : \A y \in before : x >= y
    BY <1>2, <2>1, GreatestNat
  <2> HIDE DEF before
  <2>3. Max(before) \in before
    BY <2>2 DEF Max
  <2>4. Max(before) \in 1..N
    BY <2>1, <2>3
  <2> QED BY <1>2, <2>4 DEF LastValue, before
<1> QED BY <1>1, <1>2
\* An entry as the reader leaves it: a difference or LSBs, and, if it has MSBs,
\* its cycle.
ReadRight(h, i, e) ==
    /\ e.lt = h.rpl[i].lt /\ e.msb = h.rpl[i].msb
    /\ e.id = IF e.lt THEN Lsb(h.rpl[i].poc) ELSE h.rpl[i].poc - h.poc
    /\ e.msb => e.cycle = Cycle(h.poc, h.rpl[i])

Written == [lt : BOOLEAN, code : Int, msb : BOOLEAN, cycle : Int]
ReadSoFar == [entries : Seq([lt : BOOLEAN, id : Int, msb : BOOLEAN, cycle : Int]),
              delta : Int, cycle : Int]

LEMMA CycleType ==
    ASSUME NEW p \in Int, NEW e, e.poc \in Int
    PROVE  Cycle(p, e) \in Int /\ Lsb(e.poc) \in Int /\ Msb(e.poc) \in Int
<1>1. MaxPocLsb \in Nat \ {0}
  BY LsbRange
<1>2. \A q \in Int : Lsb(q) \in Int /\ Msb(q) \in Int
  BY <1>1 DEF Lsb, Msb
<1> DEFINE d == Msb(p) - Msb(e.poc)
<1>3. Msb(p) \in Int /\ Msb(e.poc) \in Int
  BY <1>2
<1>4. d \in Int
  BY <1>3
<1> HIDE DEF d
<1>5. d \div MaxPocLsb \in Int
  BY <1>1, <1>4, Division
<1>6. Cycle(p, e) = IF e.msb THEN d \div MaxPocLsb ELSE 0
  BY DEF Cycle, d
<1>7. Cycle(p, e) \in Int
  BY <1>5, <1>6
<1> QED BY <1>2, <1>7

\* What is written is again the differences, by the last entry of the same kind.
LEMMA SyntaxType ==
    ASSUME NEW h, h.rpl \in Seq(Entry), h.poc \in Nat
    PROVE  /\ Syntax(h) \in [1..Len(h.rpl) -> Written]
           /\ \A i \in 1..Len(h.rpl) :
                 /\ h.rpl[i] \in Entry
                 /\ Cycle(h.poc, h.rpl[i]) \in Int /\ Lsb(h.rpl[i].poc) \in Int
<1> DEFINE N == Len(h.rpl)
           short == {i \in DOMAIN h.rpl : ~h.rpl[i].lt}
           far == {i \in DOMAIN h.rpl : h.rpl[i].msb}
           deltas == [i \in DOMAIN h.rpl |-> h.rpl[i].poc - h.poc]
           cycles == [i \in DOMAIN h.rpl |-> Cycle(h.poc, h.rpl[i])]
<1>1. N \in Nat /\ DOMAIN h.rpl = 1..N /\ \A i \in 1..N : h.rpl[i] \in Entry
  OBVIOUS
<1>2. MaxPoc \in Nat /\ MaxPocLsb \in Nat \ {0}
  BY LsbRange, ReferenceAssumption
<1>4. ASSUME NEW i \in 1..N
      PROVE  /\ h.rpl[i].poc \in Int /\ h.rpl[i].lt \in BOOLEAN /\ h.rpl[i].msb \in BOOLEAN
             /\ Cycle(h.poc, h.rpl[i]) \in Int /\ Lsb(h.rpl[i].poc) \in Int
  <2>1. h.rpl[i].poc \in Int /\ h.rpl[i].lt \in BOOLEAN /\ h.rpl[i].msb \in BOOLEAN
    BY <1>1, <1>2 DEF Entry
  <2>2. Cycle(h.poc, h.rpl[i]) \in Int /\ Lsb(h.rpl[i].poc) \in Int
    <3>1. h.poc \in Int
      OBVIOUS
    <3> QED BY <2>1, <3>1, CycleType
  <2> QED BY <2>1, <2>2
<1>5. deltas \in [1..N -> Int] /\ cycles \in [1..N -> Int]
  BY <1>1, <1>4
<1>6. short \in SUBSET (1..N) /\ far \in SUBSET (1..N)
  BY <1>1
<1> HIDE DEF short, far, deltas, cycles
<1>7. ASSUME NEW i \in 1..N
      PROVE  LastValue(deltas, short, i) \in Int /\ LastValue(cycles, far, i) \in Int
  <2>1. i \in Nat
    OBVIOUS
  <2> QED BY <1>1, <1>5, <1>6, <2>1, LastValueType
<1> DEFINE written(i) ==
          [lt |-> h.rpl[i].lt,
           code |-> IF h.rpl[i].lt THEN Lsb(h.rpl[i].poc)
                    ELSE deltas[i] - LastValue(deltas, short, i),
           msb |-> h.rpl[i].msb,
           cycle |-> IF h.rpl[i].msb THEN cycles[i] - LastValue(cycles, far, i)
                     ELSE 0]
<1>8. Syntax(h) = [i \in 1..N |-> written(i)]
  BY <1>1 DEF Syntax, short, far, deltas, cycles
<1>9. ASSUME NEW i \in 1..N PROVE written(i) \in Written
  <2> DEFINE code == IF h.rpl[i].lt THEN Lsb(h.rpl[i].poc)
                     ELSE deltas[i] - LastValue(deltas, short, i)
             cycle == IF h.rpl[i].msb THEN cycles[i] - LastValue(cycles, far, i) ELSE 0
  <2>1. code \in Int /\ cycle \in Int
    BY <1>4, <1>5, <1>7
  <2>2. h.rpl[i].lt \in BOOLEAN /\ h.rpl[i].msb \in BOOLEAN
    BY <1>4
  <2> HIDE DEF code, cycle
  <2>3. [lt |-> h.rpl[i].lt, code |-> code, msb |-> h.rpl[i].msb, cycle |-> cycle] \in Written
    BY <2>1, <2>2 DEF Written
  <2> QED BY <2>3 DEF code, cycle
<1> HIDE DEF written
<1> QED BY <1>1, <1>4, <1>8, <1>9

LEMMA ReadEntryType ==
    ASSUME NEW read \in ReadSoFar, NEW x \in Written
    PROVE  /\ ReadEntry(read, x) \in ReadSoFar
           /\ Len(ReadEntry(read, x).entries) = Len(read.entries) + 1
           /\ \A i \in 1..Len(read.entries) :
                 ReadEntry(read, x).entries[i] = read.entries[i]
           /\ ReadEntry(read, x).entries[Len(read.entries) + 1] =
                 [lt |-> x.lt, id |-> IF x.lt THEN x.code ELSE read.delta + x.code,
                  msb |-> x.msb, cycle |-> read.cycle + x.cycle]
           /\ ReadEntry(read, x).delta = IF x.lt THEN read.delta ELSE read.delta + x.code
           /\ ReadEntry(read, x).cycle = read.cycle + x.cycle
<1> DEFINE new == [lt |-> x.lt, id |-> IF x.lt THEN x.code ELSE read.delta + x.code,
                   msb |-> x.msb, cycle |-> read.cycle + x.cycle]
           Read == [lt : BOOLEAN, id : Int, msb : BOOLEAN, cycle : Int]
<1>1. new \in Read /\ read.entries \in Seq(Read)
  BY DEF Written, ReadSoFar
<1>2. ReadEntry(read, x) = [entries |-> Append(read.entries, new),
                            delta |-> IF x.lt THEN read.delta ELSE read.delta + x.code,
                            cycle |-> read.cycle + x.cycle]
  BY DEF ReadEntry
<1> HIDE DEF new, Read
<1>3. /\ Append(read.entries, new) \in Seq(Read)
      /\ Len(Append(read.entries, new)) = Len(read.entries) + 1
      /\ \A i \in 1..Len(read.entries) : Append(read.entries, new)[i] = read.entries[i]
      /\ Append(read.entries, new)[Len(read.entries) + 1] = new
  BY <1>1
<1>4. (IF x.lt THEN read.delta ELSE read.delta + x.code) \in Int /\ read.cycle + x.cycle \in Int
  BY DEF Written, ReadSoFar
<1> QED BY <1>2, <1>3, <1>4 DEF ReadSoFar, Read, new
\* Reading the list entry by entry gives a value for each number of entries read.
LEMMA ParsedSteps ==
    ASSUME NEW h, h.rpl \in Seq(Entry), h.poc \in Nat
    PROVE  \E read \in [0..Len(h.rpl) -> ReadSoFar] :
              /\ read[0] = NothingRead
              /\ \A n \in 1..Len(h.rpl) : read[n] = ReadEntry(read[n - 1], Syntax(h)[n])
              /\ ParsedRpl(h) = read[Len(h.rpl)].entries
<1> DEFINE N == Len(h.rpl)
           syntax == Syntax(h)
           step == [xn \in ReadSoFar \X (1..N) |-> ReadEntry(xn[1], syntax[xn[2]])]
           read[n \in 0..N] ==
               IF n = 0 THEN NothingRead ELSE ReadEntry(read[n - 1], syntax[n])
<1>1. N \in Nat /\ syntax \in [1..N -> Written]
  BY SyntaxType
<1>2. ParsedRpl(h) = read[N].entries
  BY DEF ParsedRpl
<1> HIDE DEF N, syntax
<1>3. step \in [ReadSoFar \X (1..N) -> ReadSoFar]
  <2>1. ASSUME NEW xn \in ReadSoFar \X (1..N) PROVE ReadEntry(xn[1], syntax[xn[2]]) \in ReadSoFar
    <3>1. xn[1] \in ReadSoFar /\ syntax[xn[2]] \in Written
      BY <1>1
    <3> QED BY <3>1, ReadEntryType
  <2> QED BY <2>1
<1>4. NothingRead \in ReadSoFar
  BY DEF NothingRead, ReadSoFar
<1>5. PICK f \in [0..N -> ReadSoFar] :
         f[0] = NothingRead /\ \A n \in 1..N : f[n] = step[<<f[n - 1], n>>]
  <2> HIDE DEF step, read
  <2>1. Steppable(N, ReadSoFar, NothingRead, step)
    BY <1>1, <1>3, <1>4 DEF Steppable
  <2>2. \E f : Steps(f, N, ReadSoFar, NothingRead, step)
    BY <2>1, StepsExist
  <2> QED BY <2>2 DEF Steps
<1>6. ASSUME NEW n \in 1..N PROVE f[n] = ReadEntry(f[n - 1], syntax[n])
  <2>1. n - 1 \in 0..N
    BY <1>1
  <2>2. f[n - 1] \in ReadSoFar
    BY <2>1, <1>5
  <2>3. <<f[n - 1], n>> \in ReadSoFar \X (1..N)
    BY <2>2
  <2>4. f[n] = step[<<f[n - 1], n>>]
    BY <1>5
  <2>5. step[<<f[n - 1], n>>] = ReadEntry(<<f[n - 1], n>>[1], syntax[<<f[n - 1], n>>[2]])
    BY <2>3
  <2> QED BY <2>4, <2>5
<1>7. f = [n \in 0..N |-> IF n = 0 THEN NothingRead ELSE ReadEntry(f[n - 1], syntax[n])]
  <2>1. \A n \in 0..N : f[n] = IF n = 0 THEN NothingRead ELSE ReadEntry(f[n - 1], syntax[n])
    <3>1. \A n \in 0..N : n = 0 \/ n \in 1..N
      BY <1>1
    <3> QED BY <1>5, <1>6, <3>1
  <2> QED BY <1>5, <2>1
<1>8. read = [n \in 0..N |-> IF n = 0 THEN NothingRead ELSE ReadEntry(read[n - 1], syntax[n])]
  BY <1>7
<1> HIDE DEF read, step
<1>9. read = [n \in 0..N |-> read[n]] /\ read[0] = NothingRead
  BY <1>1, <1>8
<1>10. ASSUME NEW n \in 1..N PROVE read[n] = ReadEntry(read[n - 1], syntax[n])
  <2>1. n \in 0..N /\ n # 0
    BY <1>1
  <2> QED BY <1>8, <2>1
<1>11. \A n \in 0..N : read[n] \in ReadSoFar
  <2> DEFINE S == {n \in 0..N : read[n] \in ReadSoFar}
  <2>1. 0 \in S
    BY <1>1, <1>4, <1>9
  <2>2. ASSUME NEW n \in 1..N, n - 1 \in S PROVE n \in S
    <3>1. read[n - 1] \in ReadSoFar /\ syntax[n] \in Written
      BY <1>1, <2>2
    <3>2. read[n] \in ReadSoFar
      BY <1>10, <3>1, ReadEntryType
    <3> QED BY <1>1, <3>2
  <2> HIDE DEF S
  <2>3. 0..N \subseteq S
    BY <1>1, <2>1, <2>2, InductionTo
  <2> QED BY <2>3 DEF S
<1>12. read \in [0..N -> ReadSoFar]
  BY <1>9, <1>11
<1> QED BY <1>2, <1>9, <1>10, <1>12 DEF N, syntax
\* The cycle that has been read up to an entry.
CycleSoFar(h, i) ==
    LastValue([j \in DOMAIN h.rpl |-> Cycle(h.poc, h.rpl[j])],
              {j \in DOMAIN h.rpl : h.rpl[j].msb}, i + 1)

\* What is read of a list is what was written: each entry has its difference or
\* its LSBs, and its cycle (parseRefPicList, the loop over delta_poc_msb_cycle_lt).
LEMMA ListReadRight ==
    ASSUME NEW h, h.rpl \in Seq(Entry), h.poc \in Nat
    PROVE  /\ ParsedRpl(h) \in Seq([lt : BOOLEAN, id : Int, msb : BOOLEAN, cycle : Int])
           /\ Len(ParsedRpl(h)) = Len(h.rpl)
           /\ \A i \in 1..Len(h.rpl) : /\ ReadRight(h, i, ParsedRpl(h)[i])
                                        /\ ParsedRpl(h)[i].cycle = CycleSoFar(h, i)
<1> DEFINE N == Len(h.rpl)
           short == {i \in DOMAIN h.rpl : ~h.rpl[i].lt}
           far == {i \in DOMAIN h.rpl : h.rpl[i].msb}
           deltas == [i \in DOMAIN h.rpl |-> h.rpl[i].poc - h.poc]
           cycles == [i \in DOMAIN h.rpl |-> Cycle(h.poc, h.rpl[i])]
<1>1. PICK read \in [0..N -> ReadSoFar] :
              /\ read[0] = NothingRead
              /\ \A n \in 1..N : read[n] = ReadEntry(read[n - 1], Syntax(h)[n])
              /\ ParsedRpl(h) = read[N].entries
  BY ParsedSteps
<1>2. /\ N \in Nat /\ DOMAIN h.rpl = 1..N /\ h.poc \in Int
      /\ Syntax(h) \in [1..N -> Written]
      /\ \A i \in 1..N : /\ h.rpl[i] \in Entry
                         /\ Cycle(h.poc, h.rpl[i]) \in Int /\ Lsb(h.rpl[i].poc) \in Int
  BY SyntaxType
<1>3. \A i \in 1..N : h.rpl[i].poc \in Int /\ h.rpl[i].lt \in BOOLEAN /\ h.rpl[i].msb \in BOOLEAN
  <2>1. MaxPoc \in Nat
    BY ReferenceAssumption
  <2> QED BY <1>2, <2>1 DEF Entry
<1>4. /\ short \in SUBSET (1..N) /\ far \in SUBSET (1..N)
      /\ deltas \in [1..N -> Int] /\ cycles \in [1..N -> Int]
  BY <1>2, <1>3
<1>5. ASSUME NEW i \in 1..N
      PROVE  Syntax(h)[i] =
               [lt |-> h.rpl[i].lt,
                code |-> IF h.rpl[i].lt THEN Lsb(h.rpl[i].poc)
                         ELSE (h.rpl[i].poc - h.poc) - LastValue(deltas, short, i),
                msb |-> h.rpl[i].msb,
                cycle |-> IF h.rpl[i].msb
                          THEN Cycle(h.poc, h.rpl[i]) - LastValue(cycles, far, i)
                          ELSE 0]
  BY <1>2 DEF Syntax
<1>6. \A i \in 1..N : /\ i \in short <=> ~h.rpl[i].lt
                      /\ i \in far <=> h.rpl[i].msb
                      /\ deltas[i] = h.rpl[i].poc - h.poc
                      /\ cycles[i] = Cycle(h.poc, h.rpl[i])
  BY <1>2
<1>7. \A S \in SUBSET (1..N) : S \in SUBSET Nat
  OBVIOUS
<1> DEFINE right(n) ==
             /\ Len(read[n].entries) = n
             /\ \A i \in 1..n : ReadRight(h, i, read[n].entries[i])
             /\ \A i \in 1..n : read[n].entries[i].cycle = LastValue(cycles, far, i + 1)
             /\ read[n].delta = LastValue(deltas, short, n + 1)
             /\ read[n].cycle = LastValue(cycles, far, n + 1)
           S == {n \in 0..N : right(n)}
<1> HIDE DEF N, short, far, deltas, cycles
<1>8. 0 \in S
  <2>1. \A j \in 1..N : ~(j < 0 + 1)
    BY <1>2
  <2>2. LastValue(deltas, short, 0 + 1) = 0 /\ LastValue(cycles, far, 0 + 1) = 0
    BY <1>4, <2>1 DEF LastValue
  <2> QED BY <1>1, <1>2, <2>2 DEF NothingRead
<1>9. ASSUME NEW n \in 1..N, n - 1 \in S PROVE n \in S
  <2> DEFINE x == Syntax(h)[n]
             r == read[n - 1]
             delta == LastValue(deltas, short, n)
             cycle == LastValue(cycles, far, n)
             e == [lt |-> x.lt, id |-> IF x.lt THEN x.code ELSE r.delta + x.code,
                   msb |-> x.msb, cycle |-> r.cycle + x.cycle]
  <2>1. /\ n \in Nat /\ n \in 0..N /\ n - 1 \in 0..N /\ (n - 1) + 1 = n
        /\ r \in ReadSoFar /\ x \in Written
    BY <1>1, <1>2
  <2>2. /\ Len(r.entries) = n - 1
        /\ \A i \in 1..(n - 1) : ReadRight(h, i, r.entries[i])
        /\ \A i \in 1..(n - 1) : r.entries[i].cycle = LastValue(cycles, far, i + 1)
        /\ r.delta = delta /\ r.cycle = cycle
    BY <1>9, <2>1
  <2>3. delta \in Int /\ cycle \in Int
    BY <1>2, <1>4, <2>1, LastValueType
  <2>4. read[n] = ReadEntry(r, x)
    BY <1>1
  <2>5. /\ Len(read[n].entries) = n
        /\ \A i \in 1..(n - 1) : read[n].entries[i] = r.entries[i]
        /\ read[n].entries[n] = e
        /\ read[n].delta = IF x.lt THEN r.delta ELSE r.delta + x.code
        /\ read[n].cycle = r.cycle + x.cycle
    <3> HIDE DEF x, r
    <3>1. /\ Len(ReadEntry(r, x).entries) = Len(r.entries) + 1
          /\ \A i \in 1..Len(r.entries) : ReadEntry(r, x).entries[i] = r.entries[i]
          /\ ReadEntry(r, x).entries[Len(r.entries) + 1] = e
          /\ ReadEntry(r, x).delta = IF x.lt THEN r.delta ELSE r.delta + x.code
          /\ ReadEntry(r, x).cycle = r.cycle + x.cycle
      BY <2>1, ReadEntryType
    <3> HIDE DEF e
    <3>2. Len(r.entries) = n - 1 /\ Len(r.entries) + 1 = n
      BY <2>1, <2>2
    <3> QED BY <2>4, <3>1, <3>2
  <2>6. /\ x.lt = h.rpl[n].lt /\ x.msb = h.rpl[n].msb
        /\ x.code = IF x.lt THEN Lsb(h.rpl[n].poc) ELSE (h.rpl[n].poc - h.poc) - delta
        /\ x.cycle = IF x.msb THEN Cycle(h.poc, h.rpl[n]) - cycle ELSE 0
    <3>1. x = [lt |-> h.rpl[n].lt,
               code |-> IF h.rpl[n].lt THEN Lsb(h.rpl[n].poc)
                        ELSE (h.rpl[n].poc - h.poc) - delta,
               msb |-> h.rpl[n].msb,
               cycle |-> IF h.rpl[n].msb THEN Cycle(h.poc, h.rpl[n]) - cycle ELSE 0]
      BY <1>5
    <3> HIDE DEF x, delta, cycle
    <3> QED BY <3>1
  <2> HIDE DEF x, r, delta, cycle
  <2>7. /\ h.rpl[n].poc \in Int /\ Cycle(h.poc, h.rpl[n]) \in Int
        /\ h.rpl[n].poc - h.poc \in Int /\ x.lt \in BOOLEAN /\ x.msb \in BOOLEAN
    BY <1>2, <1>3, <2>6
  <2>8. ReadRight(h, n, e)
    BY <2>2, <2>3, <2>6, <2>7 DEF ReadRight
  <2>9. LastValue(deltas, short, n + 1) = IF ~x.lt THEN h.rpl[n].poc - h.poc ELSE delta
    <3>1. LastValue(deltas, short, n + 1) = IF n \in short THEN deltas[n] ELSE LastValue(deltas, short, n)
      BY <1>4, <1>7, <2>1, LastValueNext
    <3> QED BY <1>6, <2>6, <3>1 DEF delta
  <2>10. LastValue(cycles, far, n + 1) = IF x.msb THEN Cycle(h.poc, h.rpl[n]) ELSE cycle
    <3>1. LastValue(cycles, far, n + 1) = IF n \in far THEN cycles[n] ELSE LastValue(cycles, far, n)
      BY <1>4, <1>7, <2>1, LastValueNext
    <3> QED BY <1>6, <2>6, <3>1 DEF cycle
  <2>11. read[n].delta = LastValue(deltas, short, n + 1)
    BY <2>2, <2>3, <2>5, <2>6, <2>7, <2>9
  <2>12. read[n].cycle = LastValue(cycles, far, n + 1)
    BY <2>2, <2>3, <2>5, <2>6, <2>7, <2>10
  <2>13. e.cycle = LastValue(cycles, far, n + 1)
    BY <2>5, <2>12
  <2> HIDE DEF e
  <2>14. \A i \in 1..n : read[n].entries[i].cycle = LastValue(cycles, far, i + 1)
    <3>1. \A i \in 1..n : i = n \/ i \in 1..(n - 1)
      BY <2>1
    <3> QED BY <2>2, <2>5, <2>13, <3>1
  <2>15. \A i \in 1..n : ReadRight(h, i, read[n].entries[i])
    <3>1. \A i \in 1..n : i = n \/ i \in 1..(n - 1)
      BY <2>1
    <3> QED BY <2>2, <2>5, <2>8, <3>1
  <2> QED BY <2>1, <2>5, <2>11, <2>12, <2>14, <2>15
<1> HIDE DEF S
<1>10. N \in S
  <2>1. 0..N \subseteq S
    BY <1>2, <1>8, <1>9, InductionTo
  <2> QED BY <1>2, <2>1
<1>11. read[N] \in ReadSoFar
  BY <1>1, <1>2
<1>12. \A i : CycleSoFar(h, i) = LastValue(cycles, far, i + 1)
  BY DEF CycleSoFar, cycles, far
<1> QED BY <1>1, <1>10, <1>11, <1>12 DEF S, N, ReadSoFar
-----------------------------------------------------------------------------
\* The POC of a slice.

\* The POC, in the stream, of the picture that the next POC is derived from.
Anchor == prevTid0POC + offset
Synced == pocRandomAccess # None

\* What the stream gives a picture: an IDR POC fits the LSBs, a CRA picture uses
\* no entry, what the entries of a GDR picture name can be made up, and the
\* next picture's POC can be derived from this one's and from theirs.
HeaderSound(s, h) ==
    /\ h.kind \in Kinds /\ h.poc \in 0..MaxPoc /\ h.level \in Levels
    /\ h.rpl \in Seq(Entry)
    /\ h.active \in Seq(Nat)
    /\ \A k \in 1..Len(h.active) : h.active[k] <= Len(h.rpl)
    /\ h.kind = "IDR" => h.poc < MaxPocLsb
    /\ h.kind \in Anchors => h.level = "base"
    /\ h.kind = "CRA" => \A k \in 1..Len(h.active) : h.active[k] = 0
    /\ h.kind = "GDR" =>
          \A i \in 1..Len(h.rpl) : /\ Generable(h.poc, h.rpl[i].poc)
                                   /\ Bridged(h.poc, h.rpl[i].poc)
                                   /\ h.rpl[i].poc \in s.near
    /\ IsTid0(h) => h.poc \in s.near

InPicture == phase \in {"slice", "check", "decode"}

PocTypes ==
    /\ prevTid0POC \in Int /\ offset \in Int
    /\ coded \in Coding

OffsetWhole == offset % MaxPocLsb = 0

\* The decoder joins the stream with the first random access point that it sees.
Joined ==
    /\ pocRandomAccess = None => firstInSequence
    /\ phase \in {"check", "decode"} => Synced
    /\ ~tunedIn => phase = "idle" /\ ~Synced

PictureSound ==
    /\ InPicture => HeaderSound(coded, header) /\ slice \in 1..Len(header.active)
    /\ phase = "idle" => slice = 1

\* From then on the next POC can be derived from the anchor.
AnchorNear ==
    Synced =>
      /\ phase = "idle" => Anchor \in coded.near
      /\ InPicture => header.kind = "IDR" \/ Bridged(header.poc, Anchor)
      /\ InPicture /\ (phase # "slice" \/ slice > 1 \/ ~IsTid0(header)) =>
            Anchor \in coded.near

ParsedSound ==
    phase = "check" =>
      /\ rpl = ParsedRpl(header)
      /\ header.kind \in RandomAccess /\ noOutputBeforeRecovery =>
            offset = Msb(header.poc)

PocInv ==
    /\ PocTypes
    /\ OffsetWhole
    /\ Joined
    /\ PictureSound
    /\ AnchorNear
    /\ ParsedSound
    /\ PocRecovered
-----------------------------------------------------------------------------
\* Whole cycles of least significant bits.

LEMMA LsbFacts ==
    ASSUME NEW p \in Int
    PROVE  /\ Lsb(p) \in 0..(MaxPocLsb - 1) /\ Msb(p) \in Int
           /\ p = Msb(p) + Lsb(p)
           /\ Msb(p) % MaxPocLsb = 0
           /\ p >= 0 => Lsb(p) <= p
           /\ p \in 0..(MaxPocLsb - 1) => Lsb(p) = p
<1> DEFINE M == MaxPocLsb
           b == p \div M
<1>1. M \in Nat \ {0} /\ 0 \in 0..(M - 1)
  BY LsbRange
<1> HIDE DEF M
<1>2. /\ p % M \in 0..(M - 1) /\ p = M * b + (p % M) /\ b \in Int /\ M * b \in Int
  BY <1>1, Division
<1>3. Lsb(p) = p % M /\ Msb(p) = M * b
  <2>1. Lsb(p) = p % M
    BY DEF Lsb, M
  <2> HIDE DEF b
  <2> QED BY <1>1, <1>2, <2>1 DEF Msb
<1> HIDE DEF b
<1>4. (M * b) % M = 0
  <2>1. (M * b + 0) % M = 0
    BY <1>1, <1>2, DivisionUnique
  <2> QED BY <1>2, <2>1
<1>5. p >= 0 => p % M <= p
  <2>1. SUFFICES ASSUME p >= 0, b <= -1 PROVE FALSE
    <3>1. b >= 0 => M * 0 <= M * b
      BY <1>1, <1>2, Monotonic
    <3> QED BY <1>1, <1>2, <3>1
  <2>2. M * b <= M * (-1)
    BY <1>1, <1>2, <2>1, Monotonic
  <2> QED BY <1>1, <1>2, <2>1, <2>2
<1>6. p \in 0..(M - 1) => p % M = p
  <2>1. p \in 0..(M - 1) => (M * 0 + p) % M = p
    BY <1>1, DivisionUnique
  <2> QED BY <1>1, <2>1
<1> QED BY <1>2, <1>3, <1>4, <1>5, <1>6 DEF M

LEMMA LsbOfSum ==
    ASSUME NEW m \in Int, m % MaxPocLsb = 0, NEW l \in 0..(MaxPocLsb - 1)
    PROVE  /\ Lsb(m + l) = l
           /\ (m + MaxPocLsb) % MaxPocLsb = 0
           /\ (m - MaxPocLsb) % MaxPocLsb = 0
<1> DEFINE M == MaxPocLsb
           b == m \div M
<1>1. M \in Nat \ {0} /\ 0 \in 0..(M - 1) /\ l \in 0..(M - 1)
  BY LsbRange
<1>2. m % M = 0
  BY DEF M
<1> HIDE DEF M
<1>3. b \in Int /\ m = M * b + (m % M)
  BY <1>1, Division
<1>4. m = M * b
  BY <1>1, <1>2, <1>3
<1> HIDE DEF b
<1>5. (M * b + l) % M = l
  BY <1>1, <1>3, DivisionUnique
<1>6. (M * (b + 1) + 0) % M = 0 /\ (M * (b - 1) + 0) % M = 0
  <2>1. b + 1 \in Int /\ b - 1 \in Int
    BY <1>3
  <2> QED BY <1>1, <2>1, DivisionUnique
<1>7. M * (b + 1) + 0 = m + M /\ M * (b - 1) + 0 = m - M
  BY <1>1, <1>3, <1>4
<1> QED BY <1>4, <1>5, <1>6, <1>7 DEF M, Lsb
-----------------------------------------------------------------------------
\* What the stream may send.

LEMMA BoundedSeqType ==
    ASSUME NEW S, NEW n, NEW q \in BoundedSeq(S, n)
    PROVE  q \in Seq(S) /\ Len(q) \in Nat /\ \A i \in 1..Len(q) : q[i] \in S
<1>1. PICK m \in 0..n : q \in [1..m -> S]
  BY DEF BoundedSeq, SeqOf
<1>2. m \in Nat
  BY <1>1
<1>3. q \in Seq(S)
  BY <1>1, <1>2
<1> QED BY <1>3

LEMMA SeqOfElements ==
    ASSUME NEW S, NEW T, NEW q \in Seq(S), \A i \in 1..Len(q) : q[i] \in T
    PROVE  q \in Seq(T)
<1>1. Len(q) \in Nat /\ q = [i \in 1..Len(q) |-> q[i]]
  OBVIOUS
<1>2. q \in [1..Len(q) -> T]
  BY <1>1
<1> QED BY <1>1, <1>2

\* The entries of a header name pictures of the stream, and those of a GDR
\* picture what can be made up for it.
LEMMA EntriesSound ==
    ASSUME NEW s \in Coding, NEW g, NEW isActive, NEW e \in EntriesFor(s, g, isActive)
    PROVE  /\ e \in Entry
           /\ g.kind # "IDR"
           /\ g.kind = "GDR" => Generable(g.poc, e.poc) /\ Bridged(g.poc, e.poc)
<1>1. PICK d \in s.dpb : e \in EntriesOf(s, d) /\ EntryAllowed(g, d, e, isActive)
  BY DEF EntriesFor
<1>2. d.poc \in 0..MaxPoc
  BY <1>1 DEF Coding
<1>3. e \in [poc : {d.poc}, lt : BOOLEAN, msb : BOOLEAN]
  BY <1>1 DEF EntriesOf
<1>4. e \in Entry
  BY <1>2, <1>3 DEF Entry
<1> QED BY <1>1, <1>4 DEF EntryAllowed

LEMMA ListsSound ==
    ASSUME NEW s \in Coding, NEW g, NEW list \in ListsOf(s, g)
    PROVE  /\ list.rpl \in Seq(Entry)
           /\ Len(list.used) \in Nat /\ Len(list.rpl) \in Nat
           /\ Len(list.used) <= Len(list.rpl)
           /\ \A i \in 1..Len(list.rpl) :
                 g.kind = "GDR" => /\ Generable(g.poc, list.rpl[i].poc)
                                   /\ Bridged(g.poc, list.rpl[i].poc)
<1>1. PICK a, o : /\ a \in BoundedSeq(EntriesFor(s, g, TRUE), MaxRefs)
                  /\ o \in BoundedSeq(EntriesFor(s, g, FALSE), MaxRefs - Len(a))
                  /\ list = [used |-> a, rpl |-> a \o o]
  <2> DEFINE with(a) == {[used |-> a, rpl |-> a \o o] :
                           o \in BoundedSeq(EntriesFor(s, g, FALSE), MaxRefs - Len(a))}
  <2>1. list \in UNION {with(a) : a \in BoundedSeq(EntriesFor(s, g, TRUE), MaxRefs)}
    BY DEF ListsOf
  <2>2. PICK a \in BoundedSeq(EntriesFor(s, g, TRUE), MaxRefs) : list \in with(a)
    BY <2>1
  <2> QED BY <2>2
<1> DEFINE good(e) == /\ e \in Entry
                      /\ g.kind = "GDR" => Generable(g.poc, e.poc) /\ Bridged(g.poc, e.poc)
<1>2. /\ Len(a) \in Nat /\ \A i \in 1..Len(a) : a[i] \in EntriesFor(s, g, TRUE)
      /\ a \in Seq(EntriesFor(s, g, TRUE))
  BY <1>1, BoundedSeqType
<1>3. /\ Len(o) \in Nat /\ \A i \in 1..Len(o) : o[i] \in EntriesFor(s, g, FALSE)
      /\ o \in Seq(EntriesFor(s, g, FALSE))
  BY <1>1, BoundedSeqType
<1>4. /\ \A i \in 1..Len(a) : good(a[i])
      /\ \A i \in 1..Len(o) : good(o[i])
  BY <1>2, <1>3, EntriesSound
<1>5. a \in Seq(Entry) /\ o \in Seq(Entry)
  <2>1. \A i \in 1..Len(a) : a[i] \in Entry
    BY <1>4
  <2>2. \A i \in 1..Len(o) : o[i] \in Entry
    BY <1>4
  <2> HIDE DEF good
  <2> QED BY <1>2, <1>3, <2>1, <2>2, SeqOfElements
<1> HIDE DEF good
<1>6. /\ a \o o \in Seq(Entry)
      /\ Len(a \o o) = Len(a) + Len(o)
      /\ \A i \in 1..(Len(a) + Len(o)) :
            (a \o o)[i] = IF i <= Len(a) THEN a[i] ELSE o[i - Len(a)]
  BY <1>5
<1>7. \A i \in 1..(Len(a) + Len(o)) : good((a \o o)[i])
  <2>1. \A i \in 1..(Len(a) + Len(o)) : i <= Len(a) => i \in 1..Len(a)
    BY <1>2, <1>3
  <2>2. \A i \in 1..(Len(a) + Len(o)) : ~(i <= Len(a)) => i - Len(a) \in 1..Len(o)
    BY <1>2, <1>3
  <2> QED BY <1>4, <1>6, <2>1, <2>2
<1>8. list.rpl = a \o o /\ list.used = a
  BY <1>1
<1>9. Len(list.rpl) = Len(a) + Len(o) /\ Len(list.used) = Len(a) /\ list.rpl \in Seq(Entry)
  BY <1>6, <1>8
<1>10. \A i \in 1..Len(list.rpl) : good(list.rpl[i])
  BY <1>7, <1>8, <1>9
<1> QED BY <1>2, <1>3, <1>9, <1>10 DEF good
\* A header that may come next, and the stream after it.
LEMMA FollowerHeader ==
    ASSUME NEW s \in Coding, NEW h \in Followers(s)
    PROVE  /\ h.kind \in Kinds /\ h.poc \in 0..MaxPoc /\ h.level \in Levels
           /\ MayFollow(s, h)
           /\ h.rpl \in Seq(Entry) /\ Len(h.rpl) \in Nat
           /\ h.active \in Seq(Nat) /\ 1 \in 1..Len(h.active)
           /\ \A k \in 1..Len(h.active) : h.active[k] <= Len(h.rpl)
           /\ h.kind = "CRA" => \A k \in 1..Len(h.active) : h.active[k] = 0
           /\ \A i \in 1..Len(h.rpl) :
                 h.kind = "GDR" => /\ Generable(h.poc, h.rpl[i].poc)
                                   /\ Bridged(h.poc, h.rpl[i].poc)
<1>1. PICK g, list, active :
         /\ g \in Starts(s) /\ list \in ListsOf(s, g) /\ active \in Slices(g, list)
         /\ h = [kind |-> g.kind, poc |-> g.poc, level |-> g.level, rpl |-> list.rpl,
                 active |-> active]
  <2>1. PICK g \in Starts(s) : h \in UNION {HeadersFrom(g, list) : list \in ListsOf(s, g)}
    BY DEF Followers
  <2>2. PICK list \in ListsOf(s, g) : h \in HeadersFrom(g, list)
    BY <2>1
  <2>3. PICK active \in Slices(g, list) :
           h = [kind |-> g.kind, poc |-> g.poc, level |-> g.level, rpl |-> list.rpl,
                active |-> active]
    BY <2>2 DEF HeadersFrom
  <2> QED BY <2>1, <2>2, <2>3
<1>2. /\ g \in [kind : Kinds, poc : 0..MaxPoc, level : Levels]
      /\ MayFollow(s, g)
  BY <1>1 DEF Starts
<1>3. /\ h.kind = g.kind /\ h.poc = g.poc /\ h.level = g.level
      /\ h.rpl = list.rpl /\ h.active = active
  BY <1>1
<1>4. /\ list.rpl \in Seq(Entry)
      /\ Len(list.used) \in Nat /\ Len(list.rpl) \in Nat
      /\ Len(list.used) <= Len(list.rpl)
      /\ \A i \in 1..Len(list.rpl) :
            g.kind = "GDR" => /\ Generable(g.poc, list.rpl[i].poc)
                              /\ Bridged(g.poc, list.rpl[i].poc)
  BY <1>1, ListsSound
<1>5. /\ active \in BoundedSeq(0..Len(list.used), MaxSlices)
      /\ \E k \in DOMAIN active : active[k] = Len(list.used)
      /\ g.kind = "CRA" => Len(list.used) = 0
  BY <1>1 DEF Slices
<1>6. /\ Len(active) \in Nat /\ active \in Seq(0..Len(list.used))
      /\ \A k \in 1..Len(active) : active[k] \in 0..Len(list.used)
  BY <1>5, BoundedSeqType
<1>7. 1 \in 1..Len(active)
  BY <1>5, <1>6
<1>8. active \in Seq(Nat)
  <2>1. \A k \in 1..Len(active) : active[k] \in Nat
    BY <1>6
  <2> QED BY <1>6, <2>1, SeqOfElements
<1>9. MayFollow(s, h)
  BY <1>2, <1>3 DEF MayFollow, InOrder
<1>10. \A k \in 1..Len(active) : active[k] <= Len(list.rpl)
  BY <1>4, <1>6
<1>11. g.kind = "CRA" => \A k \in 1..Len(active) : active[k] = 0
  BY <1>5, <1>6
<1> QED BY <1>2, <1>3, <1>4, <1>7, <1>8, <1>9, <1>10, <1>11

LEMMA CodedType ==
    ASSUME NEW s \in Coding, NEW h \in Followers(s), s.count < MaxPictures
    PROVE  /\ Coded(s, h) \in Coding
           /\ Coded(s, h).near =
                IF IsTid0(h)
                THEN {h.poc} \cup (IF h.kind = "GDR"
                                   THEN {h.rpl[i].poc : i \in DOMAIN h.rpl} ELSE {})
                ELSE s.near
<1> DEFINE Held == [poc : 0..MaxPoc, lt : BOOLEAN, level : Levels, class : Classes]
           moved(d) == [d EXCEPT !.lt = \E i \in DOMAIN h.rpl :
                                            h.rpl[i].poc = d.poc /\ h.rpl[i].lt,
                                 !.class = IF h.kind \in Anchors THEN "old" ELSE @]
           kept == {moved(d) :
                      d \in {x \in s.dpb : \E i \in DOMAIN h.rpl : h.rpl[i].poc = x.poc}}
           self == IF h.level = "nonRef" THEN {}
                   ELSE {[poc |-> h.poc, lt |-> FALSE, level |-> h.level,
                          class |-> ClassOf(h.kind)]}
           refs == {h.rpl[i].poc : i \in DOMAIN h.rpl}
           tid0 == h.level = "base" /\ h.kind \notin {"RADL", "RASL"}
           near == IF tid0 THEN {h.poc} \cup (IF h.kind = "GDR" THEN refs ELSE {})
                   ELSE s.near
           recent == {h.poc} \cup (IF tid0 THEN refs ELSE s.recent)
           used == {h.poc} \cup (IF h.kind = "IDR" THEN {} ELSE s.used)
           irap == IF h.kind \in Anchors THEN [kind |-> h.kind, poc |-> h.poc] ELSE s.irap
           before == CASE h.kind = "IDR" -> -1
                       [] h.kind \in RandomAccess -> s.irap.poc
                       [] OTHER -> s.before
           leading == \/ h.kind \in {"IDR", "CRA"}
                      \/ s.leading /\ h.kind \in {"RADL", "RASL"}
<1>1. /\ h.kind \in Kinds /\ h.poc \in 0..MaxPoc /\ h.level \in Levels
      /\ h.rpl \in Seq(Entry)
  BY FollowerHeader
<1>2. /\ s.dpb \subseteq Held /\ s.near \subseteq 0..MaxPoc /\ s.recent \subseteq 0..MaxPoc
      /\ s.used \subseteq 0..MaxPoc /\ s.irap \in [kind : Anchors, poc : 0..MaxPoc]
      /\ s.leading \in BOOLEAN /\ s.count \in 0..MaxPictures /\ s.before \in -1..MaxPoc
  BY DEF Coding
<1>3. Coded(s, h) = [dpb |-> kept \cup self, near |-> near, recent |-> recent,
                     used |-> used, irap |-> irap, before |-> before, leading |-> leading,
                     count |-> s.count + 1]
  BY DEF Coded
<1>4. kept \subseteq Held
  <2>2. ASSUME NEW d \in s.dpb PROVE moved(d) \in Held
    <3> DEFINE b == \E i \in DOMAIN h.rpl : h.rpl[i].poc = d.poc /\ h.rpl[i].lt
               c == IF h.kind \in Anchors THEN "old" ELSE d.class
    <3>1. d \in Held
      BY <1>2
    <3>2. b \in BOOLEAN
      OBVIOUS
    <3>3. c \in Classes
      BY <3>1 DEF Classes
    <3>4. moved(d) = [d EXCEPT !.lt = b, !.class = c]
      OBVIOUS
    <3> HIDE DEF b, c, moved
    <3>5. [d EXCEPT !.lt = b, !.class = c] \in Held
      BY <3>1, <3>2, <3>3
    <3> QED BY <3>4, <3>5
  <2> HIDE DEF moved, Held
  <2> QED BY <1>2, <2>2
<1>5. self \subseteq Held
  <2>1. ClassOf(h.kind) \in Classes
    BY <1>1 DEF ClassOf, Classes
  <2> DEFINE c == ClassOf(h.kind)
  <2> HIDE DEF c
  <2>2. [poc |-> h.poc, lt |-> FALSE, level |-> h.level, class |-> c] \in Held
    BY <1>1, <2>1 DEF c
  <2> QED BY <2>2 DEF c
<1>6. refs \subseteq 0..MaxPoc
  <2>1. ASSUME NEW i \in DOMAIN h.rpl PROVE h.rpl[i].poc \in 0..MaxPoc
    <3>1. h.rpl[i] \in Entry
      BY <1>1
    <3> QED BY <3>1 DEF Entry
  <2> QED BY <2>1
<1>7. near \subseteq 0..MaxPoc /\ recent \subseteq 0..MaxPoc /\ used \subseteq 0..MaxPoc
  BY <1>1, <1>2, <1>6
<1>8. irap \in [kind : Anchors, poc : 0..MaxPoc]
  BY <1>1, <1>2 DEF Anchors, Kinds
<1>9. leading \in BOOLEAN /\ s.count + 1 \in 0..MaxPictures /\ before \in -1..MaxPoc
  <2>1. MaxPictures \in Nat /\ MaxPoc \in Nat
    BY ReferenceAssumption
  <2>2. before \in {-1, s.irap.poc, s.before}
    OBVIOUS
  <2> QED BY <1>2, <2>1, <2>2
<1>10. kept \cup self \subseteq Held
  BY <1>4, <1>5
<1>11. near = IF IsTid0(h)
              THEN {h.poc} \cup (IF h.kind = "GDR" THEN refs ELSE {})
              ELSE s.near
  BY DEF IsTid0
<1> HIDE DEF kept, self, near, recent, used, irap, before, leading
<1>12. Coded(s, h) \in Coding
  BY <1>3, <1>7, <1>8, <1>9, <1>10 DEF Coding
<1> QED BY <1>3, <1>11, <1>12
-----------------------------------------------------------------------------
\* Reading a slice.

\* If the anchor is near, the POC is the picture's, less offset.
LEMMA AnchorPoc ==
    ASSUME prevTid0POC \in Int, offset \in Int, OffsetWhole,
           NEW poc \in Int, NEW kind, kind # "IDR", Bridged(poc, Anchor)
    PROVE  ParsedPoc(kind, Lsb(poc)) = poc - offset
<1>1. /\ MaxPocLsb \in Nat /\ MaxPocLsb \div 2 \in Nat
      /\ MaxPocLsb = 2 * (MaxPocLsb \div 2) /\ MaxPocLsb \div 2 >= 1
  BY LsbRange
<1>2. poc - (prevTid0POC + offset) \in (1 - (MaxPocLsb \div 2))..(MaxPocLsb \div 2)
  BY DEF Bridged, Anchor
<1>3. offset % MaxPocLsb = 0
  BY DEF OffsetWhole
<1>4. Derivable(MaxPocLsb, MaxPocLsb \div 2, poc, prevTid0POC, offset)
  BY <1>1, <1>2, <1>3 DEF Derivable
<1>5. Derived(MaxPocLsb, MaxPocLsb \div 2, poc, prevTid0POC) = poc - offset
  BY <1>4, PocFromLsb
<1> QED BY <1>5 DEF Derived, ParsedPoc, Lsb, Msb

\* Whatever the anchor, the LSBs are the picture's.
LEMMA ParsedLsb ==
    ASSUME prevTid0POC \in Int, NEW lsb \in 0..(MaxPocLsb - 1), NEW kind
    PROVE  ParsedPoc(kind, lsb) \in Int /\ Lsb(ParsedPoc(kind, lsb)) = lsb
<1> DEFINE prevLsb == Lsb(prevTid0POC)
           prevMsb == Msb(prevTid0POC)
           msb == IF kind = "IDR" THEN 0
               ELSE IF lsb < prevLsb /\ prevLsb - lsb >= MaxPocLsb \div 2
               THEN prevMsb + MaxPocLsb
               ELSE IF lsb > prevLsb /\ lsb - prevLsb > MaxPocLsb \div 2
               THEN prevMsb - MaxPocLsb
               ELSE prevMsb
<1>1. prevMsb \in Int /\ prevMsb % MaxPocLsb = 0 /\ MaxPocLsb \in Nat \ {0}
  BY LsbFacts, LsbRange
<1>2. (prevMsb + MaxPocLsb) % MaxPocLsb = 0 /\ (prevMsb - MaxPocLsb) % MaxPocLsb = 0
  <2>1. 0 \in 0..(MaxPocLsb - 1)
    BY <1>1
  <2> QED BY <1>1, <2>1, LsbOfSum
<1>3. 0 % MaxPocLsb = 0
  <2>1. 0 \in 0..(MaxPocLsb - 1)
    BY <1>1
  <2>2. Lsb(0) = 0
    BY <2>1, LsbFacts
  <2> QED BY <2>2 DEF Lsb
<1> HIDE DEF prevLsb, prevMsb
<1>4. msb \in Int /\ msb % MaxPocLsb = 0
  BY <1>1, <1>2, <1>3
<1>5. ParsedPoc(kind, lsb) = msb + lsb
  BY DEF ParsedPoc, prevLsb, prevMsb
<1> HIDE DEF msb
<1>6. Lsb(msb + lsb) = lsb
  BY <1>4, LsbOfSum
<1>7. msb + lsb \in Int
  BY <1>1, <1>4
<1> QED BY <1>5, <1>6, <1>7

\* offset after the slice.
NewOffset ==
    IF header.kind = "IDR" THEN 0
    ELSE IF header.kind \in RandomAccess /\ firstInSequence
    THEN Msb(header.poc) ELSE offset

LEMMA ReadPoc ==
    ASSUME PocInv, phase = "slice"
    PROVE  /\ SlicePoc(header) \in Int
           /\ NewOffset \in Int /\ NewOffset % MaxPocLsb = 0
           /\ PocRandomAccess(header) # None => SlicePoc(header) = header.poc - NewOffset
           /\ PocRandomAccess(header) = None => firstInSequence
           /\ header.kind \notin Anchors =>
                 NewOffset = offset /\ PocRandomAccess(header) = pocRandomAccess
<1> DEFINE parsed == ParsedPoc(header.kind, Lsb(header.poc))
<1>1. /\ prevTid0POC \in Int /\ offset \in Int /\ OffsetWhole
      /\ pocRandomAccess = None => firstInSequence
      /\ HeaderSound(coded, header)
      /\ Synced => header.kind = "IDR" \/ Bridged(header.poc, Anchor)
  BY DEF PocInv, PocTypes, Joined, PictureSound, AnchorNear, InPicture
<1>2. /\ MaxPoc \in Nat /\ MaxPocLsb \in Nat \ {0}
  BY LsbRange, ReferenceAssumption
<1>3. /\ header.poc \in 0..MaxPoc /\ header.poc \in Int
      /\ header.kind = "IDR" => header.poc < MaxPocLsb
  BY <1>1, <1>2 DEF HeaderSound
<1>4. /\ Lsb(header.poc) \in 0..(MaxPocLsb - 1) /\ Msb(header.poc) \in Int
      /\ header.poc = Msb(header.poc) + Lsb(header.poc)
      /\ Msb(header.poc) % MaxPocLsb = 0
      /\ header.poc \in 0..(MaxPocLsb - 1) => Lsb(header.poc) = header.poc
  BY <1>3, LsbFacts
<1>5. parsed \in Int /\ Lsb(parsed) = Lsb(header.poc)
  BY <1>1, <1>4, ParsedLsb
<1>6. SlicePoc(header) =
        IF header.kind \in RandomAccess /\ firstInSequence THEN Lsb(header.poc) ELSE parsed
  <2> HIDE DEF parsed
  <2>1. header.kind \in RandomAccess =>
           /\ LastNoOutputBeforeRecovery(header) = (firstInSequence \/ header.kind = "IDR")
           /\ header.kind # "IDR"
    BY DEF LastNoOutputBeforeRecovery, NoOutputBeforeRecovery, RandomAccess, Anchors
  <2> QED BY <1>5, <2>1 DEF SlicePoc, parsed
<1>7. 0 % MaxPocLsb = 0
  <2>1. 0 \in 0..(MaxPocLsb - 1)
    BY <1>2
  <2>2. Lsb(0) = 0
    BY <2>1, LsbFacts
  <2> QED BY <2>2 DEF Lsb
<1>8. NewOffset \in Int /\ NewOffset % MaxPocLsb = 0
  BY <1>1, <1>4, <1>7 DEF NewOffset, OffsetWhole
<1>9. SlicePoc(header) \in Int
  BY <1>4, <1>5, <1>6
<1>10. PocRandomAccess(header) = None => pocRandomAccess = None
  <2>1. Always # None
    BY <1>2 DEF Always, None
  <2> QED BY <2>1 DEF PocRandomAccess
<1>11. header.kind \notin Anchors =>
          NewOffset = offset /\ PocRandomAccess(header) = pocRandomAccess
  BY DEF NewOffset, PocRandomAccess, Anchors, RandomAccess
<1>12. ASSUME PocRandomAccess(header) # None
       PROVE  SlicePoc(header) = header.poc - NewOffset
  <2>1. CASE header.kind = "IDR"
    <3>1. parsed = 0 + Lsb(header.poc)
      BY <2>1 DEF ParsedPoc
    <3>2. Lsb(header.poc) = header.poc
      BY <1>2, <1>3, <1>4, <2>1
    <3>3. SlicePoc(header) = parsed /\ NewOffset = 0
      BY <1>6, <2>1 DEF NewOffset, RandomAccess
    <3> HIDE DEF parsed
    <3> QED BY <1>3, <3>1, <3>2, <3>3
  <2>2. CASE header.kind \in RandomAccess /\ firstInSequence
    <3>1. SlicePoc(header) = Lsb(header.poc) /\ NewOffset = Msb(header.poc)
      BY <1>6, <2>2 DEF NewOffset, RandomAccess
    <3> QED BY <1>3, <1>4, <3>1
  <2>3. CASE header.kind # "IDR" /\ ~(header.kind \in RandomAccess /\ firstInSequence)
    <3>1. SlicePoc(header) = parsed /\ NewOffset = offset
      BY <1>6, <2>3 DEF NewOffset
    <3>2. Synced
      BY <1>1, <1>12, <2>3 DEF PocRandomAccess, Synced
    <3>3. Bridged(header.poc, Anchor)
      BY <1>1, <2>3, <3>2
    <3>4. parsed = header.poc - offset
      BY <1>1, <1>3, <2>3, <3>3, AnchorPoc
    <3> QED BY <3>1, <3>4
  <2> QED BY <2>1, <2>2, <2>3
<1> QED BY <1>1, <1>8, <1>9, <1>10, <1>11, <1>12
\* EndSlice keeps what holds of the picture and of the anchor.
LEMMA EndSliceSound ==
    ASSUME EndSlice, HeaderSound(coded, header), slice \in 1..Len(header.active),
           coded' = coded
    PROVE  /\ phase' \in {"slice", "idle"}
           /\ PictureSound'
           /\ phase' = "slice" => header' = header /\ slice' > 1
<1>1. CASE slice < Len(header.active)
  <2>1. phase' = "slice" /\ slice' = slice + 1 /\ header' = header
    BY <1>1 DEF EndSlice
  <2>2. slice \in Nat /\ slice >= 1 /\ Len(header.active) \in Nat
    <3>1. header.active \in Seq(Nat)
      BY DEF HeaderSound
    <3> QED BY <3>1
  <2>3. slice + 1 \in 1..Len(header.active) /\ slice + 1 > 1
    BY <1>1, <2>2
  <2>4. HeaderSound(coded', header')
    BY <2>1
  <2> QED BY <2>1, <2>3, <2>4 DEF PictureSound, InPicture
<1>2. CASE ~(slice < Len(header.active))
  <2>1. phase' = "idle" /\ slice' = 1
    BY <1>2 DEF EndSlice
  <2> QED BY <2>1 DEF PictureSound, InPicture
<1> QED BY <1>1, <1>2

LEMMA NearSelf ==
    ASSUME NEW poc \in Int PROVE Bridged(poc, poc)
<1>1. MaxPocLsb \div 2 \in Nat /\ MaxPocLsb \div 2 >= 1
  BY LsbRange
<1>2. 0 \in (1 - (MaxPocLsb \div 2))..(MaxPocLsb \div 2)
  BY <1>1
<1> QED BY <1>2 DEF Bridged

\* The pictures that count for the next POC include every random access point.
LEMMA AnchorsCount ==
    ASSUME NEW s, NEW h, HeaderSound(s, h), h.kind \in Anchors
    PROVE  IsTid0(h)
BY DEF HeaderSound, IsTid0, Anchors

LEMMA PocReadSlice == PocInv /\ ReadSlice => PocInv'
<1> SUFFICES ASSUME PocInv, ReadSlice PROVE PocInv'
  OBVIOUS
<1>1. /\ phase = "slice"
      /\ prevTid0POC' = IF IsTid0(header) THEN SlicePoc(header) ELSE prevTid0POC
      /\ noOutputBeforeRecovery' = NoOutputBeforeRecovery(header)
      /\ pocRandomAccess' = PocRandomAccess(header)
      /\ offset' = NewOffset
      /\ coded' = coded /\ tunedIn' = tunedIn /\ firstInSequence' = firstInSequence
      /\ IF Skipped(header) THEN EndSlice
         ELSE /\ phase' = "check"
              /\ POC' = SlicePoc(header)
              /\ rpl' = ParsedRpl(header)
              /\ header' = header /\ slice' = slice
  BY DEF ReadSlice, NewOffset
<1>2. /\ prevTid0POC \in Int /\ offset \in Int /\ coded \in Coding
      /\ HeaderSound(coded, header) /\ slice \in 1..Len(header.active)
      /\ tunedIn
      /\ Synced => header.kind = "IDR" \/ Bridged(header.poc, Anchor)
      /\ Synced /\ ~IsTid0(header) => Anchor \in coded.near
  BY <1>1 DEF PocInv, PocTypes, Joined, PictureSound, AnchorNear, InPicture
<1>3. /\ SlicePoc(header) \in Int
      /\ NewOffset \in Int /\ NewOffset % MaxPocLsb = 0
      /\ PocRandomAccess(header) # None => SlicePoc(header) = header.poc - NewOffset
      /\ PocRandomAccess(header) = None => firstInSequence
      /\ header.kind \notin Anchors =>
            NewOffset = offset /\ PocRandomAccess(header) = pocRandomAccess
  BY <1>1, ReadPoc
<1>4. header.poc \in Int
  <2>1. MaxPoc \in Nat /\ header.poc \in 0..MaxPoc
    BY <1>2, ReferenceAssumption DEF HeaderSound
  <2> QED BY <2>1
<1>5. PocTypes' /\ OffsetWhole'
  BY <1>1, <1>2, <1>3 DEF PocTypes, OffsetWhole
<1>6. Synced' => /\ header.kind = "IDR" \/ Bridged(header.poc, Anchor')
                 /\ Anchor' \in coded.near
  <2> SUFFICES ASSUME Synced' PROVE /\ header.kind = "IDR" \/ Bridged(header.poc, Anchor')
                                    /\ Anchor' \in coded.near
    OBVIOUS
  <2>1. SlicePoc(header) = header.poc - NewOffset
    BY <1>1, <1>3 DEF Synced
  <2>2. CASE IsTid0(header)
    <3>1. Anchor' = header.poc
      BY <1>1, <1>3, <1>4, <2>1, <2>2 DEF Anchor
    <3> QED BY <1>2, <1>4, <2>2, <3>1, NearSelf DEF HeaderSound
  <2>3. CASE ~IsTid0(header)
    <3>1. header.kind \notin Anchors
      BY <1>2, <2>3, AnchorsCount
    <3>2. Anchor' = Anchor /\ Synced
      BY <1>1, <1>3, <2>3, <3>1 DEF Anchor, Synced
    <3> QED BY <1>2, <2>3, <3>2
  <2> QED BY <2>2, <2>3
<1>7. CASE Skipped(header)
  <2>1. /\ phase' \in {"slice", "idle"}
        /\ PictureSound'
        /\ phase' = "slice" => header' = header /\ slice' > 1
    BY <1>1, <1>2, <1>7, EndSliceSound
  <2>2. Joined'
    BY <1>1, <1>2, <1>3, <2>1 DEF Joined
  <2>3. AnchorNear'
    BY <1>1, <1>6, <2>1 DEF AnchorNear, InPicture
  <2>4. ParsedSound' /\ PocRecovered'
    BY <2>1 DEF ParsedSound, PocRecovered
  <2> QED BY <1>5, <2>1, <2>2, <2>3, <2>4 DEF PocInv
<1>8. CASE ~Skipped(header)
  <2>1. PocRandomAccess(header) # None
    BY <1>8 DEF Skipped
  <2>2. Joined'
    BY <1>1, <1>2, <1>3, <1>8, <2>1 DEF Joined, Synced
  <2>3. PictureSound'
    BY <1>1, <1>2, <1>8 DEF PictureSound, InPicture
  <2>4. AnchorNear'
    BY <1>1, <1>6, <1>8 DEF AnchorNear, InPicture
  <2>5. ParsedSound'
    <3>1. rpl' = ParsedRpl(header')
      BY <1>1, <1>8
    <3>2. header.kind \in RandomAccess /\ noOutputBeforeRecovery' => NewOffset = Msb(header.poc)
      BY <1>1 DEF NoOutputBeforeRecovery, NewOffset, RandomAccess, Anchors
    <3>3. header'.kind \in RandomAccess /\ noOutputBeforeRecovery' => offset' = Msb(header'.poc)
      BY <1>1, <1>8, <3>2
    <3> QED BY <3>1, <3>3 DEF ParsedSound
  <2>6. PocRecovered'
    BY <1>1, <1>3, <1>8, <2>1 DEF PocRecovered
  <2> QED BY <1>5, <2>2, <2>3, <2>4, <2>5, <2>6 DEF PocInv
<1> QED BY <1>7, <1>8
\* A picture that is made up for an entry of a GDR picture has the POC, in the
\* stream, that the entry names.
LEMMA LostPocSound ==
    ASSUME PocInv, phase = "check", LostPoc > 0, MayBeUnavailable
    PROVE  /\ LostPoc + offset \in coded.near
           /\ Bridged(header.poc, LostPoc + offset)
           /\ LostPoc \in Int
<1>1. /\ prevTid0POC \in Int /\ offset \in Int /\ coded \in Coding
      /\ HeaderSound(coded, header) /\ slice \in 1..Len(header.active)
      /\ rpl = ParsedRpl(header)
      /\ header.kind \in RandomAccess
      /\ offset = Msb(header.poc)
      /\ POC = header.poc - offset
  BY DEF PocInv, PocTypes, PictureSound, InPicture, ParsedSound, PocRecovered, MayBeUnavailable
<1>2. /\ header.rpl \in Seq(Entry) /\ header.poc \in Int /\ header.poc \in Nat
      /\ header.active \in Seq(Nat)
      /\ header.active[slice] \in Nat /\ header.active[slice] <= Len(header.rpl)
      /\ header.kind = "CRA" => header.active[slice] = 0
  <2>1. MaxPoc \in Nat
    BY ReferenceAssumption
  <2> QED BY <1>1, <2>1 DEF HeaderSound
<1>3. /\ rpl \in Seq([lt : BOOLEAN, id : Int, msb : BOOLEAN, cycle : Int])
      /\ Len(rpl) = Len(header.rpl)
      /\ \A i \in 1..Len(header.rpl) : ReadRight(header, i, rpl[i])
  BY <1>1, <1>2, ListReadRight
<1> DEFINE missing == Missing(Checked, ActiveEntries)
           long == {i \in missing : rpl[i].lt}
           chosen == IF long # {} THEN long ELSE missing
<1>4. missing # {} /\ header.kind # "IDR"
  <2>1. ~(header.kind = "IDR" \/ missing = {})
    BY DEF LostPoc
  <2> QED BY <2>1
<1>5. missing \subseteq 1..header.active[slice]
  <2>1. DOMAIN ActiveEntries = 1..header.active[slice]
    BY <1>2, <1>3 DEF ActiveEntries
  <2> QED BY <2>1 DEF Missing
<1> HIDE DEF missing
<1>6. chosen # {} /\ chosen \subseteq missing
  BY <1>4
<1> DEFINE i == Min(chosen)
<1>7. i \in chosen
  <2> HIDE DEF chosen
  <2>1. chosen \in SUBSET Nat
    BY <1>2, <1>5, <1>6
  <2>2. \E x \in chosen : \A y \in chosen : x <= y
    BY <1>6, <2>1, LeastNat
  <2> QED BY <2>2 DEF Min
<1>8. MissingEntry = rpl[i]
  BY DEF MissingEntry, missing
<1> HIDE DEF i, chosen
<1>9. i \in 1..header.active[slice] /\ i \in 1..Len(header.rpl)
  <2>1. i \in 1..header.active[slice]
    BY <1>5, <1>6, <1>7
  <2> QED BY <1>2, <2>1
<1>10. header.kind = "GDR"
  BY <1>1, <1>2, <1>9 DEF RandomAccess
<1> DEFINE ref == header.rpl[i].poc
<1>11. /\ Generable(header.poc, ref) /\ Bridged(header.poc, ref) /\ ref \in coded.near
       /\ ref \in Int
  <2>1. MaxPoc \in Nat /\ coded.near \subseteq 0..MaxPoc
    BY <1>1, ReferenceAssumption DEF Coding
  <2> QED BY <1>1, <1>9, <1>10, <2>1 DEF HeaderSound
<1>12. ref = Msb(ref) + Lsb(ref) /\ Msb(ref) = offset /\ Lsb(ref) \in Int
  <2>1. ref = Msb(ref) + Lsb(ref) /\ Lsb(ref) \in 0..(MaxPocLsb - 1)
    BY <1>11, LsbFacts
  <2> QED BY <1>1, <1>11, <2>1, LsbRange DEF Generable
<1>13. LostPoc = IF rpl[i].lt THEN rpl[i].id ELSE POC + rpl[i].id
  <2>1. LostPoc = IF MissingEntry.lt THEN MissingEntry.id ELSE RefPoc(MissingEntry)
    BY <1>4 DEF LostPoc, missing
  <2> QED BY <1>8, <2>1 DEF RefPoc
<1>14. rpl[i].id = IF rpl[i].lt THEN Lsb(ref) ELSE ref - header.poc
  BY <1>3, <1>9 DEF ReadRight
<1> HIDE DEF ref
<1>15. LostPoc + offset = ref /\ LostPoc \in Int
  <2>1. CASE rpl[i].lt
    <3>1. LostPoc = Lsb(ref)
      BY <1>13, <1>14, <2>1
    <3> QED BY <1>1, <1>11, <1>12, <3>1
  <2>2. CASE ~rpl[i].lt
    <3>1. LostPoc = (header.poc - offset) + (ref - header.poc)
      BY <1>1, <1>13, <1>14, <2>2
    <3>2. header.poc \in Int /\ offset \in Int /\ ref \in Int
      BY <1>1, <1>2, <1>11
    <3> QED BY ONLY <3>1, <3>2
  <2> QED BY <2>1, <2>2
<1> QED BY <1>11, <1>15

LEMMA PocInsertMissing == PocInv /\ InsertMissing => PocInv'
<1> SUFFICES ASSUME PocInv, InsertMissing PROVE PocInv'
  OBVIOUS
<1>1. /\ phase = "check" /\ LostPoc > 0
      /\ coded' = coded /\ tunedIn' = tunedIn /\ header' = header /\ slice' = slice
      /\ POC' = POC /\ rpl' = rpl /\ firstInSequence' = firstInSequence
      /\ noOutputBeforeRecovery' = noOutputBeforeRecovery
      /\ pocRandomAccess' = pocRandomAccess /\ offset' = offset
  BY DEF InsertMissing
<1>2. CASE MayBeUnavailable
  <2>1. prevTid0POC' = LostPoc /\ phase' = phase
    BY <1>2 DEF InsertMissing
  <2>2. /\ LostPoc + offset \in coded.near
        /\ Bridged(header.poc, LostPoc + offset)
        /\ LostPoc \in Int
    BY <1>1, <1>2, LostPocSound
  <2> HIDE DEF LostPoc, MayBeUnavailable
  <2>3. PocTypes' /\ OffsetWhole'
    BY <1>1, <2>1, <2>2 DEF PocInv, PocTypes, OffsetWhole
  <2>4. Joined' /\ PictureSound'
    BY <1>1, <2>1 DEF PocInv, Joined, PictureSound, Synced, InPicture
  <2>5. Anchor' = LostPoc + offset
    BY <1>1, <2>1 DEF Anchor
  <2>6. AnchorNear'
    BY <1>1, <2>1, <2>2, <2>5 DEF AnchorNear, InPicture
  <2>7. ParsedSound' /\ PocRecovered'
    BY <1>1, <2>1 DEF PocInv, ParsedSound, PocRecovered
  <2> QED BY <2>3, <2>4, <2>6, <2>7 DEF PocInv
<1>3. CASE ~MayBeUnavailable
  <2>1. prevTid0POC' = prevTid0POC /\ phase' = "failed"
    BY <1>3 DEF InsertMissing
  <2>2. PocTypes' /\ OffsetWhole'
    BY <1>1, <2>1 DEF PocInv, PocTypes, OffsetWhole
  <2>3. Joined'
    BY <1>1, <2>1 DEF PocInv, Joined, Synced
  <2>4. PictureSound' /\ AnchorNear' /\ ParsedSound' /\ PocRecovered'
    BY <2>1 DEF PictureSound, AnchorNear, ParsedSound, PocRecovered, InPicture
  <2> QED BY <2>2, <2>3, <2>4 DEF PocInv
<1> QED BY <1>2, <1>3

LEMMA PocActivate == PocInv /\ Activate => PocInv'
<1> SUFFICES ASSUME PocInv, Activate PROVE PocInv'
  OBVIOUS
<1>1. /\ phase = "check" /\ phase' \in {"failed", "decode"}
      /\ coded' = coded /\ tunedIn' = tunedIn /\ header' = header /\ slice' = slice
      /\ firstInSequence' = FALSE /\ prevTid0POC' = prevTid0POC
      /\ pocRandomAccess' = pocRandomAccess /\ offset' = offset
  BY DEF Activate
<1>2. PocTypes' /\ OffsetWhole'
  BY <1>1 DEF PocInv, PocTypes, OffsetWhole
<1>3. Joined' /\ PictureSound'
  BY <1>1 DEF PocInv, Joined, PictureSound, Synced, InPicture
<1>4. Anchor' = Anchor /\ (Synced' <=> Synced)
  BY <1>1 DEF Anchor, Synced
<1>5. AnchorNear'
  BY <1>1, <1>4 DEF PocInv, AnchorNear, InPicture
<1>6. ParsedSound' /\ PocRecovered'
  BY <1>1 DEF ParsedSound, PocRecovered
<1> QED BY <1>2, <1>3, <1>5, <1>6 DEF PocInv

LEMMA PocDecodeSlice == PocInv /\ DecodeSlice => PocInv'
<1> SUFFICES ASSUME PocInv, DecodeSlice PROVE PocInv'
  OBVIOUS
<1>1. /\ phase = "decode" /\ EndSlice
      /\ coded' = coded /\ tunedIn' = tunedIn
      /\ firstInSequence' = firstInSequence /\ prevTid0POC' = prevTid0POC
      /\ pocRandomAccess' = pocRandomAccess /\ offset' = offset
  BY DEF DecodeSlice
<1>2. /\ HeaderSound(coded, header) /\ slice \in 1..Len(header.active)
      /\ tunedIn
      /\ Synced => /\ header.kind = "IDR" \/ Bridged(header.poc, Anchor)
                   /\ Anchor \in coded.near
  BY <1>1 DEF PocInv, PictureSound, AnchorNear, Joined, InPicture
<1>3. /\ phase' \in {"slice", "idle"}
      /\ PictureSound'
      /\ phase' = "slice" => header' = header /\ slice' > 1
  BY <1>1, <1>2, EndSliceSound
<1>4. PocTypes' /\ OffsetWhole'
  BY <1>1 DEF PocInv, PocTypes, OffsetWhole
<1>5. Joined'
  BY <1>1, <1>2, <1>3 DEF PocInv, Joined, Synced
<1>6. Anchor' = Anchor /\ (Synced' <=> Synced)
  BY <1>1 DEF Anchor, Synced
<1>7. AnchorNear'
  BY <1>1, <1>2, <1>3, <1>6 DEF AnchorNear, InPicture
<1>8. ParsedSound' /\ PocRecovered'
  BY <1>3 DEF ParsedSound, PocRecovered
<1> QED BY <1>3, <1>4, <1>5, <1>7, <1>8 DEF PocInv
\* The stream sends a picture, or the decoder does not receive it.
LEMMA PocSend == PocInv /\ Send => PocInv'
<1> SUFFICES ASSUME PocInv, Send PROVE PocInv'
  OBVIOUS
<1>1. PICK h \in Followers(coded) :
         /\ coded' = Coded(coded, h)
         /\ IF tunedIn /\ ~(dropping /\ h.level = "upper")
            THEN phase' = "slice" /\ header' = h
            ELSE phase' = phase /\ header' = header
  BY DEF Send
<1>2. /\ phase = "idle" /\ coded.count < MaxPictures
      /\ tunedIn' = tunedIn /\ slice' = slice
      /\ firstInSequence' = firstInSequence /\ prevTid0POC' = prevTid0POC
      /\ pocRandomAccess' = pocRandomAccess /\ offset' = offset
  BY DEF Send, decoder
<1>3. /\ prevTid0POC \in Int /\ offset \in Int /\ coded \in Coding
      /\ slice = 1
      /\ pocRandomAccess = None => firstInSequence
      /\ ~tunedIn => ~Synced
      /\ Synced => Anchor \in coded.near
  BY <1>2 DEF PocInv, PocTypes, PictureSound, Joined, AnchorNear
<1>4. /\ h.kind \in Kinds /\ h.poc \in 0..MaxPoc /\ h.level \in Levels
      /\ MayFollow(coded, h)
      /\ h.rpl \in Seq(Entry) /\ Len(h.rpl) \in Nat
      /\ h.active \in Seq(Nat) /\ 1 \in 1..Len(h.active)
      /\ \A k \in 1..Len(h.active) : h.active[k] <= Len(h.rpl)
      /\ h.kind = "CRA" => \A k \in 1..Len(h.active) : h.active[k] = 0
      /\ \A i \in 1..Len(h.rpl) :
            h.kind = "GDR" => /\ Generable(h.poc, h.rpl[i].poc)
                              /\ Bridged(h.poc, h.rpl[i].poc)
  BY <1>3, FollowerHeader
<1>5. /\ coded' \in Coding
      /\ coded'.near = IF IsTid0(h)
                       THEN {h.poc} \cup (IF h.kind = "GDR"
                                          THEN {h.rpl[i].poc : i \in DOMAIN h.rpl} ELSE {})
                       ELSE coded.near
  BY <1>1, <1>2, <1>3, CodedType
<1>6. /\ h.kind = "IDR" => h.poc < MaxPocLsb
      /\ h.kind \in Anchors => h.level = "base"
      /\ h.kind # "IDR" => \A poc \in coded.near : Bridged(h.poc, poc)
  <2>1. /\ h.kind = "IDR" => h.poc <= MaxIdrPoc
        /\ h.kind \in Anchors => h.level = "base"
        /\ h.kind # "IDR" => \A poc \in coded.near : Bridged(h.poc, poc)
    BY <1>4 DEF MayFollow
  <2>2. MaxIdrPoc \in 0..(MaxPocLsb - 1) /\ MaxPocLsb \in Nat /\ h.poc \in Int
    <3>1. MaxPoc \in Nat /\ MaxIdrPoc \in 0..(MaxPocLsb - 1)
      BY ReferenceAssumption DEF MaxPocLsb
    <3> QED BY <1>4, <3>1, LsbRange
  <2> QED BY <2>1, <2>2
<1>7. IsTid0(h) => h.poc \in coded'.near
  BY <1>5
<1>8. h.kind = "GDR" => \A i \in 1..Len(h.rpl) : h.rpl[i].poc \in coded'.near
  <2>1. h.kind = "GDR" => IsTid0(h)
    BY <1>6 DEF IsTid0, Anchors
  <2>2. \A i \in 1..Len(h.rpl) : i \in DOMAIN h.rpl
    BY <1>4
  <2> QED BY <1>5, <2>1, <2>2
<1>9. HeaderSound(coded', h)
  BY <1>4, <1>6, <1>7, <1>8 DEF HeaderSound
<1>10. PocTypes' /\ OffsetWhole'
  BY <1>2, <1>3, <1>5 DEF PocInv, PocTypes, OffsetWhole
<1>11. Anchor' = Anchor /\ (Synced' <=> Synced)
  BY <1>2 DEF Anchor, Synced
<1>12. CASE tunedIn /\ ~(dropping /\ h.level = "upper")
  <2>1. phase' = "slice" /\ header' = h
    BY <1>1, <1>12
  <2>2. Joined'
    BY <1>2, <1>3, <1>12, <2>1 DEF Joined
  <2>3. PictureSound'
    BY <1>2, <1>3, <1>4, <1>9, <2>1 DEF PictureSound, InPicture
  <2>4. AnchorNear'
    BY <1>2, <1>3, <1>5, <1>6, <1>11, <2>1 DEF AnchorNear, InPicture
  <2>5. ParsedSound' /\ PocRecovered'
    BY <2>1 DEF ParsedSound, PocRecovered
  <2> QED BY <1>10, <2>2, <2>3, <2>4, <2>5 DEF PocInv
<1>13. CASE ~(tunedIn /\ ~(dropping /\ h.level = "upper"))
  <2>1. phase' = "idle"
    BY <1>1, <1>2, <1>13
  <2>2. Joined'
    BY <1>2, <1>3, <1>11, <2>1 DEF Joined, Synced
  <2>3. PictureSound'
    BY <1>2, <1>3, <2>1 DEF PictureSound, InPicture
  <2>4. Synced => coded'.near = coded.near
    BY <1>3, <1>5, <1>13 DEF IsTid0
  <2>5. AnchorNear'
    BY <1>3, <1>11, <2>1, <2>4 DEF AnchorNear, InPicture
  <2>6. ParsedSound' /\ PocRecovered'
    BY <2>1 DEF ParsedSound, PocRecovered
  <2> QED BY <1>10, <2>2, <2>3, <2>5, <2>6 DEF PocInv
<1> QED BY <1>12, <1>13

LEMMA PocUnchanged == PocInv /\ (TuneIn \/ UNCHANGED vars) => PocInv'
<1> SUFFICES ASSUME PocInv, TuneIn \/ UNCHANGED vars PROVE PocInv'
  OBVIOUS
<1>1. /\ coded' = coded /\ phase' = phase /\ header' = header /\ slice' = slice
      /\ POC' = POC /\ rpl' = rpl /\ firstInSequence' = firstInSequence
      /\ noOutputBeforeRecovery' = noOutputBeforeRecovery
      /\ pocRandomAccess' = pocRandomAccess /\ prevTid0POC' = prevTid0POC
      /\ offset' = offset /\ (tunedIn' = tunedIn \/ tunedIn' = TRUE)
  BY DEF TuneIn, vars, decoder
<1>2. PocTypes' /\ OffsetWhole'
  BY <1>1 DEF PocInv, PocTypes, OffsetWhole
<1>3. Joined' /\ PictureSound'
  BY <1>1 DEF PocInv, Joined, PictureSound, Synced, InPicture
<1>4. Anchor' = Anchor /\ (Synced' <=> Synced)
  BY <1>1 DEF Anchor, Synced
<1>5. AnchorNear'
  BY <1>1, <1>4 DEF PocInv, AnchorNear, InPicture
<1>6. ParsedSound' /\ PocRecovered'
  BY <1>1 DEF PocInv, ParsedSound, PocRecovered
<1> QED BY <1>2, <1>3, <1>5, <1>6 DEF PocInv

LEMMA PocInitial == Init => PocInv
<1> SUFFICES ASSUME Init PROVE PocInv
  OBVIOUS
<1>1. MaxPoc \in Nat /\ MaxPictures \in Nat /\ MaxPocLsb \in Nat \ {0}
  BY LsbRange, ReferenceAssumption
<1>2. coded \in Coding
  <2>1. [kind |-> "IDR", poc |-> 0] \in [kind : Anchors, poc : 0..MaxPoc]
    BY <1>1 DEF Anchors
  <2>2. 0 \in 0..MaxPictures /\ -1 \in -1..MaxPoc
    BY <1>1
  <2> QED BY <2>1, <2>2 DEF Init, Coding
<1>3. PocTypes
  BY <1>2 DEF Init, PocTypes
<1>4. OffsetWhole
  <2>1. 0 \in 0..(MaxPocLsb - 1)
    BY <1>1
  <2>2. Lsb(0) = 0
    BY <2>1, LsbFacts
  <2> QED BY <2>2 DEF Init, OffsetWhole, Lsb
<1>5. Joined /\ PictureSound /\ AnchorNear /\ ParsedSound /\ PocRecovered
  BY DEF Init, Joined, PictureSound, AnchorNear, ParsedSound, PocRecovered, InPicture, Synced
<1> QED BY <1>3, <1>4, <1>5 DEF PocInv

\* The decoder recovers the POC of every slice that it decodes, less the MSBs that
\* its CVS was entered with, in a stream of any pictures, lists and slices and
\* for every number of POC bits (parseSliceHeader, m_prevTid0POC).
THEOREM PocCorrect == Spec => []PocRecovered
<1>1. Init => PocInv
  BY PocInitial
<1>2. PocInv /\ [Next]_vars => PocInv'
  BY PocReadSlice, PocInsertMissing, PocActivate, PocDecodeSlice, PocSend, PocUnchanged
     DEF Next, Decode
<1>3. PocInv => PocRecovered
  BY DEF PocInv
<1> QED BY <1>1, <1>2, <1>3, PTL DEF Spec
-----------------------------------------------------------------------------
(***************************************************************************)
(* Reference pictures: what the decoder has of what the stream refers to.  *)
(***************************************************************************)
\* An IDR picture is about to start, and the pictures of the former CVS are
\* still in the list.
Stale == phase = "slice" /\ slice = 1 /\ header.kind = "IDR"

\* The last random access point is where the decoder entered the CVS.
Entered == pocRandomAccess # Always /\ coded.irap.poc = pocRandomAccess + offset

\* The picture is skipped; it has not, or has, marked the pictures; none is decoded.
Skips == header.kind \notin Anchors /\ (~Synced \/ (header.kind = "RASL" /\ Entered))
Fresh == phase \in {"slice", "check"} /\ slice = 1 /\ ~Skips
Begun == phase = "decode" \/ (phase \in {"slice", "check"} /\ slice > 1 /\ ~Skips)
Aside == phase = "idle" \/ (phase = "slice" /\ Skips)

\* The stream.
DpbKnown(s) ==
    /\ \A d \in s.dpb : d.poc \in s.used \cap s.recent
    /\ \A d, x \in s.dpb : d.poc = x.poc => d = x
    /\ s.count > 0 => s.irap.poc \in s.used /\ s.before < s.irap.poc
    /\ s.count = 0 => s.dpb = {} /\ s.used = {}

\* The header of the picture, and the stream behind it.
RefersApart(h) ==
    /\ \A i, j \in 1..Len(h.rpl) : i # j => h.rpl[i].poc # h.rpl[j].poc
    /\ \A i, j \in 1..Len(h.rpl) :
          i # j /\ h.rpl[i].lt /\ ~h.rpl[i].msb => Lsb(h.rpl[j].poc) # Lsb(h.rpl[i].poc)

RefersKnown(s, h) ==
    /\ s.count > 0 /\ h.poc \in s.used \cap s.recent
    /\ \A i \in 1..Len(h.rpl) : h.rpl[i].poc \in (s.used \cap s.recent) \ {h.poc}
    /\ h.kind = "IDR" => h.rpl = <<>>
    /\ h.kind = "CRA" => \A i \in 1..Len(h.rpl) : ~h.rpl[i].lt
    /\ h.kind = "GDR" => h.active[1] = Len(h.rpl)
    /\ h.kind \in Anchors => s.irap = [kind |-> h.kind, poc |-> h.poc]
    /\ h.kind = "RASL" => s.irap.kind = "CRA" /\ s.before < h.poc /\ h.poc < s.irap.poc
    /\ h.level = "upper" => ~dropping
    /\ \A d \in s.dpb :
          \/ d.poc = h.poc /\ ~d.lt
          \/ \E i \in 1..Len(h.rpl) : /\ d.poc = h.rpl[i].poc /\ d.lt = h.rpl[i].lt
                                      /\ h.kind \in Anchors => d.class = "old"

HeaderKnown == InPicture => RefersApart(header) /\ RefersKnown(coded, header)

\* Where the decoder entered.
AccessKnown ==
    /\ pocRandomAccess \in Int /\ offset \in 0..MaxPoc
    /\ (phase = "check" \/ Begun) /\ header.kind = "IDR" => offset = 0
    /\ Synced /\ ~Stale /\ pocRandomAccess # Always =>
          \/ coded.irap.poc = pocRandomAccess + offset
          \/ pocRandomAccess + offset <= coded.before
    /\ firstInSequence => ~Synced \/ (phase = "check" /\ slice = 1 /\ header.kind \in Anchors)
    /\ phase = "check" /\ header.kind \in RandomAccess =>
          (noOutputBeforeRecovery <=> firstInSequence)
    /\ phase = "check" /\ firstInSequence /\ header.kind \in RandomAccess => Entered
    /\ phase \in {"check", "decode"} => ~Skips

\* The pictures of the list, one of which was the last to be made up.
MadeUpLast(L) == L = {} \/ \E p \in L : \A q \in L : q.generated <= p.generated
PicsKnown ==
    /\ pics \subseteq Picture /\ MadeUpLast(pics)
    /\ ~Synced => pics = {}
    /\ ~Stale =>
         /\ \A p \in pics : p.poc = p.id - offset /\ p.id \in coded.used
         /\ \A p, q \in pics : p.id = q.id => p = q
         /\ \A p \in pics, d \in coded.dpb :
               p.generated > 0 /\ d.poc = p.id => d.class = "old" /\ coded.irap.kind = "GDR"

\* Before a picture is decoded: its references are there.  A picture that the
\* decoder enters at has none, and those of a GDR picture are made up.
Holds(p, e) == p.id = e.poc /\ p.referenced /\ (p.longTerm => e.lt)
FreshKnown ==
    Fresh =>
      /\ ~Stale => \A p \in pics : p.id # header.poc
      /\ (phase = "slice" /\ ~Synced) \/ (phase = "check" /\ header.kind \in {"IDR", "CRA"} /\ firstInSequence) => pics = {}
      /\ phase = "check" /\ header.kind = "IDR" => pics = {}
      /\ phase = "check" /\ header.kind = "GDR" /\ firstInSequence =>
            \A p \in pics : \E i \in 1..Len(header.rpl) :
               Holds(p, header.rpl[i]) /\ p.longTerm = header.rpl[i].lt
      /\ Synced /\ ~firstInSequence /\ header.kind # "IDR" =>
            /\ \A i \in 1..Len(header.rpl) :
                  \E p \in pics : Holds(p, header.rpl[i]) /\ p.generated = 0
            /\ \A i \in 1..Len(header.rpl), p \in pics :
                  /\ header.rpl[i].lt /\ ~header.rpl[i].msb
                  /\ p.referenced /\ p.id # header.rpl[i].poc
                  => Lsb(p.id) # Lsb(header.rpl[i].poc)

\* Once it is decoded: the pictures marked are its references and itself.
BegunKnown ==
    Begun =>
      /\ ~firstInSequence /\ Synced
      /\ \E p \in pics : p.id = header.poc /\ p.referenced /\ ~p.longTerm
      /\ \A p \in pics : p.referenced =>
            p.id = header.poc \/ \E i \in 1..Len(header.rpl) : p.id = header.rpl[i].poc
      /\ ~(Entered /\ header.kind = "CRA") =>
            \A i \in 1..Len(header.rpl) :
               \E p \in pics : /\ Holds(p, header.rpl[i]) /\ p.longTerm = header.rpl[i].lt
                               /\ p.generated > 0 => header.kind = "GDR"

\* Between pictures: the reference pictures of the stream that the decoder has
\* decoded are there.
Available(d) ==
    /\ d.level = "upper" => ~dropping
    /\ d.class \in {"rasl", "old"} => ~Entered
AsideKnown ==
    Aside /\ Synced =>
      /\ \A d \in coded.dpb : Available(d) =>
            \E p \in pics : p.id = d.poc /\ p.referenced /\ (p.longTerm => d.lt)
      /\ \A p \in pics : p.referenced => p.id \in coded.recent

ListsKnown == phase # "decode" => lists = <<>>

RefsInv ==
    /\ DpbKnown(coded) /\ HeaderKnown /\ AccessKnown /\ PicsKnown
    /\ FreshKnown /\ BegunKnown /\ AsideKnown /\ ListsKnown
    /\ RefsResolved /\ NeverGivesUp
-----------------------------------------------------------------------------
(***************************************************************************)
(* What an entry names.                                                    *)
(***************************************************************************)
\* The id that entry e of a header means.
Fits(e, id) == IF e.lt /\ ~e.msb THEN Lsb(id) = Lsb(e.poc) ELSE id = e.poc

\* Whole cycles do not change LSBs.
LEMMA WholeCycles ==
    ASSUME NEW a \in Int, NEW off \in Int, off % MaxPocLsb = 0
    PROVE  Lsb(a - off) = Lsb(a) /\ Msb(a - off) = Msb(a) - off
<1> DEFINE M == MaxPocLsb
           q == a \div M
           c == off \div M
<1>1. M \in Nat \ {0}
  BY LsbRange
<1>2. off % M = 0
  BY DEF M
<1> HIDE DEF M
<1>3. /\ a = M * q + (a % M) /\ a % M \in 0..(M - 1) /\ q \in Int
      /\ off = M * c + (off % M) /\ c \in Int
  BY <1>1, Division
<1> HIDE DEF q, c
<1>4. M * (q - c) = M * q - M * c /\ q - c \in Int /\ M * q \in Int /\ M * c \in Int
  BY <1>1, <1>3, Distribute
<1>5. (M * (q - c) + (a % M)) % M = a % M
  BY <1>1, <1>3, <1>4, DivisionUnique
<1>6. M * (q - c) + (a % M) = a - off
  <2> DEFINE x == a % M
             Y == M * q
             Z == M * c
             W == M * (q - c)
  <2>1. a = Y + x /\ off = Z + 0 /\ W = Y - Z /\ {x, Y, Z} \subseteq Int
    BY <1>1, <1>2, <1>3, <1>4
  <2> HIDE DEF x, Y, Z, W
  <2>2. W + x = a - off
    BY <2>1
  <2> QED BY <2>2 DEF x, W
<1>7. (a - off) % M = a % M
  BY <1>5, <1>6
<1>8. Lsb(a - off) = Lsb(a)
  BY <1>7 DEF Lsb, M
<1>9. Lsb(a) \in Int
  BY <1>3 DEF Lsb, M
<1> QED BY <1>8, <1>9 DEF Msb

LEMMA WholeDifference ==
    ASSUME NEW a \in Int, NEW b \in Int
    PROVE  /\ ((Msb(a) - Msb(b)) \div MaxPocLsb) * MaxPocLsb = Msb(a) - Msb(b)
           /\ (Msb(a) - Msb(b)) \div MaxPocLsb \in Int
<1> DEFINE M == MaxPocLsb
           q == a \div M
           c == b \div M
<1>1. M \in Nat \ {0} /\ 0 \in 0..(M - 1)
  BY LsbRange
<1> HIDE DEF M
<1>2. /\ a = M * q + (a % M) /\ a % M \in 0..(M - 1) /\ q \in Int
      /\ b = M * c + (b % M) /\ b % M \in 0..(M - 1) /\ c \in Int
  BY <1>1, Division
<1> HIDE DEF q, c
<1>3. Msb(a) = M * q /\ Msb(b) = M * c
  BY <1>1, <1>2 DEF Msb, Lsb, M
<1>4. M * (q - c) = M * q - M * c /\ q - c \in Int /\ M * q \in Int /\ M * c \in Int
  BY <1>1, <1>2, Distribute
<1>5. (M * (q - c) + 0) \div M = q - c
  BY <1>1, <1>4, DivisionUnique
<1>6. M * (q - c) + 0 = M * (q - c)
  BY <1>4
<1>7. (Msb(a) - Msb(b)) \div M = q - c
  BY <1>3, <1>4, <1>5, <1>6
<1>8. (q - c) * M = M * (q - c)
  BY <1>1, <1>4
<1> QED BY <1>3, <1>4, <1>7, <1>8 DEF M

\* The parsed entry names the pictures that the header's entry means.
LEMMA EntryNames ==
    ASSUME PocInv, phase = "check"
    PROVE  /\ header.rpl \in Seq(Entry) /\ Len(header.rpl) \in Nat /\ Len(rpl) = Len(header.rpl)
           /\ rpl \in Seq([lt : BOOLEAN, id : Int, msb : BOOLEAN, cycle : Int])
           /\ \A i \in 1..Len(header.rpl) :
                 /\ header.rpl[i] \in Entry /\ header.rpl[i].poc \in Int
                 /\ rpl[i].lt = header.rpl[i].lt
                 /\ RefPoc(rpl[i]) = IF rpl[i].lt /\ ~rpl[i].msb THEN Lsb(header.rpl[i].poc)
                                     ELSE header.rpl[i].poc - offset
                 /\ rpl[i].lt => rpl[i].id = Lsb(header.rpl[i].poc)
                 /\ \A p : p.id \in Int /\ p.poc = p.id - offset =>
                       (Names(rpl[i], p) <=> Fits(header.rpl[i], p.id))
<1>1. /\ prevTid0POC \in Int /\ offset \in Int /\ offset % MaxPocLsb = 0
      /\ HeaderSound(coded, header)
      /\ rpl = ParsedRpl(header)
      /\ POC = header.poc - offset
  BY DEF PocInv, PocTypes, PictureSound, InPicture, ParsedSound, PocRecovered, OffsetWhole
<1>2. header.rpl \in Seq(Entry) /\ header.poc \in Nat /\ header.poc \in Int
  <2>1. MaxPoc \in Nat
    BY ReferenceAssumption
  <2> QED BY <1>1, <2>1 DEF HeaderSound
<1>3. /\ rpl \in Seq([lt : BOOLEAN, id : Int, msb : BOOLEAN, cycle : Int])
      /\ Len(rpl) = Len(header.rpl)
      /\ \A i \in 1..Len(header.rpl) : ReadRight(header, i, rpl[i])
  BY <1>1, <1>2, ListReadRight
<1>4. Len(header.rpl) \in Nat /\ \A i \in 1..Len(header.rpl) : header.rpl[i] \in Entry
  BY <1>2
<1>5. ASSUME NEW i \in 1..Len(header.rpl)
      PROVE  /\ header.rpl[i].poc \in Int
             /\ rpl[i].lt = header.rpl[i].lt
             /\ rpl[i].lt => rpl[i].id = Lsb(header.rpl[i].poc)
             /\ RefPoc(rpl[i]) = IF rpl[i].lt /\ ~rpl[i].msb THEN Lsb(header.rpl[i].poc)
                                 ELSE header.rpl[i].poc - offset
             /\ \A p : p.id \in Int /\ p.poc = p.id - offset =>
                   (Names(rpl[i], p) <=> Fits(header.rpl[i], p.id))
  <2> DEFINE e == rpl[i]
             ref == header.rpl[i].poc
  <2>1. ref \in Int /\ header.rpl[i].lt \in BOOLEAN /\ header.rpl[i].msb \in BOOLEAN
    <3>1. MaxPoc \in Nat
      BY ReferenceAssumption
    <3> QED BY <1>4, <3>1 DEF Entry
  <2>2. /\ e.lt = header.rpl[i].lt /\ e.msb = header.rpl[i].msb
        /\ e.id = IF e.lt THEN Lsb(ref) ELSE ref - header.poc
        /\ e.msb => e.cycle = Cycle(header.poc, header.rpl[i])
    BY <1>3 DEF ReadRight
  <2>3. /\ Lsb(ref) \in Int /\ Msb(ref) \in Int /\ ref = Msb(ref) + Lsb(ref)
        /\ Msb(header.poc) \in Int /\ MaxPocLsb \in Int
    <3>1. Lsb(ref) \in 0..(MaxPocLsb - 1) /\ Msb(ref) \in Int /\ ref = Msb(ref) + Lsb(ref)
      BY <2>1, LsbFacts
    <3>2. Msb(header.poc) \in Int
      BY <1>2, LsbFacts
    <3>3. MaxPocLsb \in Nat
      BY LsbRange
    <3> QED BY <3>1, <3>2, <3>3
  <2>4. Msb(POC) = Msb(header.poc) - offset
    BY <1>1, <1>2, WholeCycles
  <2>5. e.msb => e.cycle * MaxPocLsb = Msb(header.poc) - Msb(ref)
    BY <1>2, <2>1, <2>2, WholeDifference DEF Cycle
  <2> HIDE DEF e, ref
  <2>6. RefPoc(e) = IF e.lt /\ ~e.msb THEN Lsb(ref) ELSE ref - offset
    <3>1. CASE ~e.lt
      BY <1>1, <1>2, <2>1, <2>2, <3>1 DEF RefPoc
    <3>2. CASE e.lt /\ e.msb
      <4>1. RefPoc(e) = e.id + Msb(POC) - e.cycle * MaxPocLsb
        BY <3>2 DEF RefPoc
      <4>2. e.id = Lsb(ref) /\ e.cycle * MaxPocLsb = Msb(header.poc) - Msb(ref)
        BY <2>2, <2>5, <3>2
      <4> QED BY <1>1, <2>3, <2>4, <3>2, <4>1, <4>2
    <3>3. CASE e.lt /\ ~e.msb
      BY <2>2, <3>3 DEF RefPoc
    <3> QED BY <3>1, <3>2, <3>3
  <2>7. ASSUME NEW p, p.id \in Int, p.poc = p.id - offset
        PROVE  Names(e, p) <=> Fits(header.rpl[i], p.id)
    <3>1. CASE e.lt /\ ~e.msb
      <4>1. Lsb(p.poc) = Lsb(p.id)
        BY <1>1, <2>7, WholeCycles
      <4>2. Names(e, p) <=> Lsb(p.poc) = Lsb(ref)
        BY <2>2, <3>1 DEF Names
      <4> QED BY <2>2, <3>1, <4>1, <4>2 DEF Fits, ref
    <3>2. CASE ~(e.lt /\ ~e.msb)
      <4>1. Names(e, p) <=> p.id - offset = ref - offset
        BY <2>6, <2>7, <3>2 DEF Names
      <4>2. p.id - offset = ref - offset <=> p.id = ref
        BY <1>1, <2>1, <2>7
      <4> QED BY <2>2, <3>2, <4>1, <4>2 DEF Fits, ref
    <3> QED BY <3>1, <3>2
  <2>8. e.lt => e.id = Lsb(ref)
    BY <2>2
  <2> QED BY <2>1, <2>2, <2>6, <2>7, <2>8 DEF e, ref
<1> QED BY <1>2, <1>3, <1>4, <1>5
-----------------------------------------------------------------------------
(***************************************************************************)
(* Marking.                                                                *)
(***************************************************************************)
\* Marking by one entry after the other, if the result of each is known.
LEMMA MarkSteps ==
    ASSUME NEW list, NEW es, Len(es) \in Nat, NEW g,
           DOMAIN g = 0..Len(es), g = [n \in 0..Len(es) |-> g[n]],
           g[0] = list,
           \A n \in 1..Len(es) : MarkLongTerm(g[n - 1], es[n]) = g[n]
    PROVE  MarkLongTerms(list, es) = g[Len(es)]
<1> DEFINE N == Len(es)
           marked[n \in 0..N] ==
               IF n = 0 THEN list ELSE MarkLongTerm(marked[n - 1], es[n])
<1>1. N \in Nat
  OBVIOUS
<1>2. MarkLongTerms(list, es) = marked[N]
  BY DEF MarkLongTerms
<1>3. \A n \in 0..N : g[n] = IF n = 0 THEN list ELSE MarkLongTerm(g[n - 1], es[n])
  <2>1. \A n \in 0..N : n = 0 \/ n \in 1..N
    BY <1>1
  <2> QED BY <2>1
<1> HIDE DEF N
<1>4. g = [n \in 0..N |-> IF n = 0 THEN list ELSE MarkLongTerm(g[n - 1], es[n])]
  <2>1. g = [n \in 0..N |-> g[n]]
    BY DEF N
  <2> QED BY <1>3, <2>1
<1>5. marked = [n \in 0..N |-> IF n = 0 THEN list ELSE MarkLongTerm(marked[n - 1], es[n])]
  BY <1>4
<1> HIDE DEF marked
<1>6. /\ 0 \in 0..N /\ marked[0] = list
      /\ \A n \in 1..N : n \in 0..N /\ marked[n] = MarkLongTerm(marked[n - 1], es[n])
  <2>1. 0 \in 0..N /\ \A n \in 1..N : n \in 0..N /\ n # 0
    BY <1>1
  <2> QED BY <1>5, <2>1
<1> DEFINE S == {n \in 0..N : marked[n] = g[n]}
<1>7. 0 \in S
  BY <1>6
<1>8. ASSUME NEW n \in 1..N, n - 1 \in S PROVE n \in S
  <2>1. marked[n - 1] = g[n - 1]
    BY <1>8
  <2>2. marked[n] = MarkLongTerm(g[n - 1], es[n])
    BY <1>6, <2>1
  <2>3. MarkLongTerm(g[n - 1], es[n]) = g[n]
    BY DEF N
  <2> QED BY <1>6, <2>2, <2>3
<1> HIDE DEF S
<1>9. 0..N \subseteq S
  BY <1>1, <1>7, <1>8, InductionTo
<1>10. N \in S
  <2>1. N \in 0..N
    BY <1>1
  <2> QED BY <1>9, <2>1
<1> QED BY <1>2, <1>10 DEF S, N

\* If no entry changes the list, all of them do not.
LEMMA MarkNothing ==
    ASSUME NEW list, NEW es, Len(es) \in Nat,
           \A n \in 1..Len(es) : MarkLongTerm(list, es[n]) = list
    PROVE  MarkLongTerms(list, es) = list
<1> DEFINE g == [n \in 0..Len(es) |-> list]
<1>1. \A n \in 0..Len(es) : g[n] = list
  OBVIOUS
<1>2. /\ DOMAIN g = 0..Len(es) /\ g = [n \in 0..Len(es) |-> g[n]]
      /\ 0 \in 0..Len(es) /\ Len(es) \in 0..Len(es)
      /\ \A n \in 1..Len(es) : n - 1 \in 0..Len(es) /\ n \in 0..Len(es)
  OBVIOUS
<1> HIDE DEF g
<1>3. g[0] = list /\ g[Len(es)] = list
  BY <1>1, <1>2
<1>4. \A n \in 1..Len(es) : MarkLongTerm(g[n - 1], es[n]) = g[n]
  BY <1>1, <1>2
<1>5. MarkLongTerms(list, es) = g[Len(es)]
  BY <1>2, <1>3, <1>4, MarkSteps
<1> QED BY <1>3, <1>5
-----------------------------------------------------------------------------
\* A list of pictures that ids tell apart, of the POCs that the decoder has.
Placed(L) == /\ L \subseteq Picture
             /\ \A p \in L : p.poc = p.id - offset
             /\ \A p, q \in L : p.id = q.id => p = q

\* LSBs name no reference picture of it but the one that is meant.
Clear(L) == \A i \in 1..Len(header.rpl), p \in L :
                /\ header.rpl[i].lt /\ ~header.rpl[i].msb
                /\ p.referenced /\ p.id # header.rpl[i].poc
                => Lsb(p.id) # Lsb(header.rpl[i].poc)

\* What the first n entries make of a picture.
Lengthen(p, n) ==
    IF p.referenced /\ \E i \in 1..n : header.rpl[i].lt /\ p.id = header.rpl[i].poc
    THEN [p EXCEPT !.longTerm = TRUE] ELSE p

LEMMA LengthenKeeps ==
    ASSUME NEW p \in Picture, NEW n
    PROVE  /\ Lengthen(p, n) \in Picture
           /\ Lengthen(p, n).id = p.id /\ Lengthen(p, n).poc = p.poc
           /\ Lengthen(p, n).referenced = p.referenced
           /\ Lengthen(p, n).generated = p.generated
           /\ Lengthen(p, n).longTerm <=>
                 \/ p.longTerm
                 \/ p.referenced /\ \E i \in 1..n : header.rpl[i].lt /\ p.id = header.rpl[i].poc
<1> DEFINE b == p.referenced /\ \E i \in 1..n : header.rpl[i].lt /\ p.id = header.rpl[i].poc
<1>1. Lengthen(p, n) = IF b THEN [p EXCEPT !.longTerm = TRUE] ELSE p
  BY DEF Lengthen
<1> HIDE DEF b
<1>2. /\ Lengthen(p, n) \in Picture
      /\ Lengthen(p, n).id = p.id /\ Lengthen(p, n).poc = p.poc
      /\ Lengthen(p, n).referenced = p.referenced
      /\ Lengthen(p, n).generated = p.generated
      /\ Lengthen(p, n).longTerm <=> p.longTerm \/ b
  BY <1>1 DEF Picture
<1> QED BY <1>2 DEF b

\* The picture as the entries leave it depends on nothing but these.
LEMMA LengthenSame ==
    ASSUME NEW p \in Picture, NEW n, NEW m,
           Lengthen(p, n).longTerm = Lengthen(p, m).longTerm
    PROVE  Lengthen(p, n) = Lengthen(p, m)
<1>1. /\ Lengthen(p, n) = p \/ Lengthen(p, n) = [p EXCEPT !.longTerm = TRUE]
      /\ Lengthen(p, m) = p \/ Lengthen(p, m) = [p EXCEPT !.longTerm = TRUE]
  BY DEF Lengthen
<1> HIDE DEF Lengthen
<1>2. p.longTerm = TRUE => p = [p EXCEPT !.longTerm = TRUE]
  BY DEF Picture
<1>3. [p EXCEPT !.longTerm = TRUE].longTerm = TRUE
  BY DEF Picture
<1> DEFINE x == [p EXCEPT !.longTerm = TRUE]
           a == Lengthen(p, n)
           b == Lengthen(p, m)
<1>4. /\ a = p \/ a = x
      /\ b = p \/ b = x
      /\ p.longTerm = TRUE => p = x
      /\ x.longTerm = TRUE
      /\ a.longTerm = b.longTerm
  BY <1>1, <1>2, <1>3
<1> HIDE DEF x, a, b
<1>5. a = b
  BY <1>4
<1> QED BY <1>5 DEF a, b

LEMMA LengthenPlaced ==
    ASSUME NEW L, Placed(L), NEW n
    PROVE  /\ Placed({Lengthen(p, n) : p \in L})
           /\ Clear(L) => Clear({Lengthen(p, n) : p \in L})
<1>1. /\ L \subseteq Picture
      /\ \A p \in L : p.poc = p.id - offset
      /\ \A p, q \in L : p.id = q.id => p = q
  BY DEF Placed
<1> DEFINE M == {Lengthen(p, n) : p \in L}
<1>2. ASSUME NEW q \in M
      PROVE  \E p \in L : /\ q = Lengthen(p, n) /\ q \in Picture /\ q.id = p.id
                          /\ q.poc = p.poc /\ q.referenced = p.referenced
  <2>1. PICK p \in L : q = Lengthen(p, n)
    OBVIOUS
  <2>2. p \in Picture
    BY <1>1
  <2> QED BY <2>1, <2>2, LengthenKeeps
<1> HIDE DEF M
<1>3. M \subseteq Picture /\ \A q \in M : q.poc = q.id - offset
  BY <1>1, <1>2
<1>4. ASSUME NEW q \in M, NEW r \in M, q.id = r.id PROVE q = r
  <2>1. PICK p \in L : q = Lengthen(p, n) /\ q.id = p.id
    BY <1>2
  <2>2. PICK o \in L : r = Lengthen(o, n) /\ r.id = o.id
    BY <1>2
  <2> QED BY <1>1, <1>4, <2>1, <2>2
<1>5. Placed(M)
  BY <1>3, <1>4 DEF Placed
<1>6. Clear(L) => Clear(M)
  BY <1>2 DEF Clear
<1> QED BY <1>5, <1>6 DEF M
-----------------------------------------------------------------------------
\* In such a list an entry names the one reference picture that it means.
LEMMA NamesOnly ==
    ASSUME PocInv, phase = "check", NEW L, Placed(L), Clear(L),
           NEW i \in 1..Len(header.rpl), NEW p \in L, p.referenced
    PROVE  Names(rpl[i], p) <=> p.id = header.rpl[i].poc
<1>1. p \in Picture /\ p.poc = p.id - offset
  BY DEF Placed
<1>2. p.id \in Int
  <2>1. MaxPoc \in Nat
    BY ReferenceAssumption
  <2> QED BY <1>1, <2>1 DEF Picture
<1>3. Names(rpl[i], p) <=> Fits(header.rpl[i], p.id)
  BY <1>1, <1>2, EntryNames
<1>4. header.rpl[i].lt /\ ~header.rpl[i].msb /\ p.id # header.rpl[i].poc
      => Lsb(p.id) # Lsb(header.rpl[i].poc)
  BY DEF Clear
<1> QED BY <1>3, <1>4 DEF Fits

\* What entry i makes of a picture.
One(p, i) ==
    IF p.referenced /\ header.rpl[i].lt /\ p.id = header.rpl[i].poc
    THEN [p EXCEPT !.longTerm = TRUE] ELSE p

LEMMA LengthenNext ==
    ASSUME NEW p \in Picture, NEW n \in Nat \ {0}
    PROVE  One(Lengthen(p, n - 1), n) = Lengthen(p, n)
<1> DEFINE x == [p EXCEPT !.longTerm = TRUE]
           A == p.referenced /\ \E i \in 1..(n - 1) : header.rpl[i].lt /\ p.id = header.rpl[i].poc
           B == p.referenced /\ header.rpl[n].lt /\ p.id = header.rpl[n].poc
           C == p.referenced /\ \E i \in 1..n : header.rpl[i].lt /\ p.id = header.rpl[i].poc
           q == IF A THEN x ELSE p
<1>1. C <=> A \/ B
  <2>1. \A i : i \in 1..n <=> i \in 1..(n - 1) \/ i = n
    OBVIOUS
  <2> QED BY <2>1
<1>2. x.referenced = p.referenced /\ x.id = p.id /\ [x EXCEPT !.longTerm = TRUE] = x
  BY DEF Picture
<1>3. Lengthen(p, n - 1) = q /\ Lengthen(p, n) = IF C THEN x ELSE p
  BY DEF Lengthen
<1>4. q.referenced = p.referenced /\ q.id = p.id
  BY <1>2
<1>5. One(q, n) = IF B THEN [q EXCEPT !.longTerm = TRUE] ELSE q
  BY <1>4 DEF One
<1>6. [q EXCEPT !.longTerm = TRUE] = x
  BY <1>2
<1> HIDE DEF A, B, C, x
<1>7. (IF B THEN [q EXCEPT !.longTerm = TRUE] ELSE q) = IF C THEN x ELSE p
  BY <1>1, <1>6
<1> QED BY <1>3, <1>5, <1>7

\* An entry changes at most the one picture that it names.
LEMMA MarkOne ==
    ASSUME PocInv, phase = "check", NEW L, Placed(L), Clear(L),
           NEW i \in 1..Len(header.rpl)
    PROVE  MarkLongTerm(L, rpl[i]) = {One(p, i) : p \in L}
<1> DEFINE e == rpl[i]
           ref == header.rpl[i].poc
           short == Named(L, e, FALSE)
<1>1. e.lt = header.rpl[i].lt
  BY EntryNames
<1>2. /\ L \subseteq Picture
      /\ \A p, q \in L : p.id = q.id => p = q
  BY DEF Placed
<1>3. ASSUME NEW t PROVE Named(L, e, t) = {p \in L : p.referenced /\ p.longTerm = t /\ p.id = ref}
  <2>1. \A p \in L : p.referenced => (Names(e, p) <=> p.id = ref)
    BY NamesOnly
  <2> HIDE DEF e, ref
  <2> QED BY <2>1 DEF Named
<1>4. MarkLongTerm(L, e) =
         IF ~e.lt \/ Named(L, e, TRUE) # {} \/ short = {} THEN L
         ELSE (L \ {FirstOf(short)}) \cup {[FirstOf(short) EXCEPT !.longTerm = TRUE]}
  BY DEF MarkLongTerm
<1> HIDE DEF e, ref, short
<1>5. \A p \in L : One(p, i) = IF p.referenced /\ e.lt /\ p.id = ref
                               THEN [p EXCEPT !.longTerm = TRUE] ELSE p
  BY <1>1 DEF One, ref
<1>6. CASE \E p \in L : p.referenced /\ e.lt /\ p.id = ref /\ p.longTerm = FALSE
  <2>1. PICK p \in L : p.referenced /\ e.lt /\ p.id = ref /\ p.longTerm = FALSE
    BY <1>6
  <2>2. Named(L, e, TRUE) = {}
    <3>1. ASSUME NEW q \in L, q.referenced, q.longTerm = TRUE, q.id = ref PROVE FALSE
      BY <1>2, <2>1, <3>1
    <3> QED BY <1>3, <3>1
  <2>3. short = {p}
    <3>1. \A q \in L : q.id = ref => q = p
      BY <1>2, <2>1
    <3>2. short = {q \in L : q.referenced /\ q.longTerm = FALSE /\ q.id = ref}
      BY <1>3 DEF short
    <3> QED BY <2>1, <3>1, <3>2
  <2>4. FirstOf(short) = p
    <3>1. p.poc <= p.poc
      <4>1. p.poc \in Int
        BY <1>2, <2>1 DEF Picture
      <4> QED BY <4>1
    <3> QED BY <2>3, <3>1 DEF FirstOf
  <2>5. MarkLongTerm(L, e) = (L \ {p}) \cup {[p EXCEPT !.longTerm = TRUE]}
    BY <1>4, <2>1, <2>2, <2>3, <2>4
  <2>6. One(p, i) = [p EXCEPT !.longTerm = TRUE] /\ \A q \in L \ {p} : One(q, i) = q
    BY <1>2, <1>5, <2>1
  <2> DEFINE x == [p EXCEPT !.longTerm = TRUE]
             M == {One(q, i) : q \in L}
  <2> HIDE DEF One, x
  <2>7. \A q \in L : One(q, i) = IF q = p THEN x ELSE q
    BY <2>6 DEF x
  <2>8. \A y : y \in M <=> \E q \in L : y = IF q = p THEN x ELSE q
    BY <2>7
  <2> HIDE DEF M
  <2>9. \A y : y \in M <=> y \in (L \ {p}) \cup {x}
    BY <2>1, <2>8
  <2>10. M = (L \ {p}) \cup {x}
    BY <2>9
  <2> QED BY <2>5, <2>10 DEF e, x, M
<1>7. CASE ~\E p \in L : p.referenced /\ e.lt /\ p.id = ref /\ p.longTerm = FALSE
  <2>1. \A p \in L : One(p, i) = p
    <3>1. ASSUME NEW p \in L, p.referenced, e.lt, p.id = ref
          PROVE  [p EXCEPT !.longTerm = TRUE] = p
      <4>1. p \in Picture
        BY <1>2, <3>1
      <4>2. p.longTerm = TRUE
        BY <1>7, <3>1, <4>1 DEF Picture
      <4> QED BY <4>1, <4>2 DEF Picture
    <3> QED BY <1>5, <3>1
  <2>2. e.lt => short = {}
    BY <1>3, <1>7 DEF short
  <2>3. MarkLongTerm(L, e) = L
    BY <1>4, <2>2
  <2> HIDE DEF One
  <2> QED BY <2>1, <2>3 DEF e
<1> QED BY <1>6, <1>7

\* The first entries of the list, one after the other.
LEMMA Lengthened ==
    ASSUME PocInv, phase = "check", NEW L, Placed(L), Clear(L),
           NEW es, Len(es) \in 0..Len(header.rpl), \A i \in 1..Len(es) : es[i] = rpl[i]
    PROVE  MarkLongTerms(L, es) = {Lengthen(p, Len(es)) : p \in L}
<1> DEFINE N == Len(es)
           g == [n \in 0..N |-> {Lengthen(p, n) : p \in L}]
<1>1. Len(header.rpl) \in Nat /\ N \in Nat /\ N <= Len(header.rpl)
  BY EntryNames
<1>2. L \subseteq Picture
  BY DEF Placed
<1> HIDE DEF N
<1>3. \A n \in 0..N : g[n] = {Lengthen(p, n) : p \in L}
  OBVIOUS
<1>4. DOMAIN g = 0..N /\ g = [n \in 0..N |-> g[n]]
  OBVIOUS
<1> HIDE DEF g
<1>5. g[0] = L
  <2>1. 0 \in 0..N
    BY <1>1
  <2>2. g[0] = {Lengthen(p, 0) : p \in L}
    BY <1>3, <2>1
  <2>3. \A p \in L : Lengthen(p, 0) = p
    <3>1. ~\E i \in 1..0 : TRUE
      OBVIOUS
    <3> QED BY <3>1 DEF Lengthen
  <2> HIDE DEF Lengthen
  <2> QED BY <2>2, <2>3
<1>6. ASSUME NEW n \in 1..N PROVE MarkLongTerm(g[n - 1], es[n]) = g[n]
  <2>1. n - 1 \in 0..N /\ n \in 0..N /\ n \in 1..Len(header.rpl) /\ n \in Nat \ {0}
    BY <1>1
  <2>2. g[n - 1] = {Lengthen(p, n - 1) : p \in L} /\ g[n] = {Lengthen(p, n) : p \in L}
    BY <1>3, <2>1
  <2>3. Placed(g[n - 1]) /\ Clear(g[n - 1])
    BY <2>2, LengthenPlaced
  <2>4. MarkLongTerm(g[n - 1], rpl[n]) = {One(q, n) : q \in g[n - 1]}
    BY <2>1, <2>3, MarkOne
  <2>5. {One(q, n) : q \in g[n - 1]} = {One(Lengthen(p, n - 1), n) : p \in L}
    BY <2>2
  <2>6. \A p \in L : One(Lengthen(p, n - 1), n) = Lengthen(p, n)
    BY <1>2, <2>1, LengthenNext
  <2>7. {One(Lengthen(p, n - 1), n) : p \in L} = {Lengthen(p, n) : p \in L}
    BY <2>6
  <2>8. es[n] = rpl[n]
    BY DEF N
  <2> QED BY <2>2, <2>4, <2>5, <2>7, <2>8
<1>7. MarkLongTerms(L, es) = g[N]
  BY <1>1, <1>4, <1>5, <1>6, MarkSteps DEF N
<1>8. N \in 0..N
  BY <1>1
<1> QED BY <1>3, <1>7, <1>8 DEF N
-----------------------------------------------------------------------------
LEMMA ActiveFacts ==
    ASSUME PocInv, phase = "check"
    PROVE  /\ header.active[slice] \in 0..Len(header.rpl)
           /\ Len(ActiveEntries) = header.active[slice]
           /\ DOMAIN ActiveEntries = 1..header.active[slice]
           /\ \A i \in 1..header.active[slice] :
                 ActiveEntries[i] = rpl[i] /\ i \in 1..Len(header.rpl)
           /\ header.kind = "CRA" => header.active[slice] = 0
           /\ Len(header.rpl) \in Nat /\ Len(rpl) = Len(header.rpl)
           /\ DOMAIN rpl = 1..Len(header.rpl)
           /\ slice \in Nat /\ slice >= 1
           /\ POC = header.poc - offset /\ POC \in Int /\ header.poc \in 0..MaxPoc
<1> DEFINE a == header.active[slice]
<1>1. /\ HeaderSound(coded, header) /\ slice \in 1..Len(header.active)
      /\ POC = header.poc - offset /\ offset \in Int
  BY DEF PocInv, PocTypes, PictureSound, InPicture, PocRecovered
<1>2. /\ header.active \in Seq(Nat)
      /\ \A k \in 1..Len(header.active) : header.active[k] <= Len(header.rpl)
      /\ header.kind = "CRA" => \A k \in 1..Len(header.active) : header.active[k] = 0
      /\ header.poc \in 0..MaxPoc
  BY <1>1 DEF HeaderSound
<1>3. /\ Len(header.rpl) \in Nat /\ Len(rpl) = Len(header.rpl)
      /\ rpl \in Seq([lt : BOOLEAN, id : Int, msb : BOOLEAN, cycle : Int])
  BY EntryNames
<1>4. a \in 0..Len(header.rpl)
  BY <1>1, <1>2, <1>3
<1> HIDE DEF a
<1>5. /\ Len(SubSeq(rpl, 1, a)) = a /\ DOMAIN SubSeq(rpl, 1, a) = 1..a
      /\ \A i \in 1..a : SubSeq(rpl, 1, a)[i] = rpl[i] /\ i \in 1..Len(header.rpl)
      /\ DOMAIN rpl = 1..Len(header.rpl)
  BY <1>3, <1>4
<1>6. POC \in Int
  <2>1. MaxPoc \in Nat
    BY ReferenceAssumption
  <2> QED BY <1>1, <1>2, <2>1
<1>7. slice \in Nat /\ slice >= 1
  BY <1>1, <1>2
<1> QED BY <1>1, <1>2, <1>3, <1>4, <1>5, <1>6, <1>7 DEF a, ActiveEntries

LEMMA LengthenMore ==
    ASSUME NEW p \in Picture, NEW n \in Nat, NEW m \in Nat, m <= n
    PROVE  Lengthen(Lengthen(p, m), n) = Lengthen(p, n)
<1> DEFINE x == [p EXCEPT !.longTerm = TRUE]
           A == p.referenced /\ \E i \in 1..m : header.rpl[i].lt /\ p.id = header.rpl[i].poc
           C == p.referenced /\ \E i \in 1..n : header.rpl[i].lt /\ p.id = header.rpl[i].poc
           q == IF A THEN x ELSE p
<1>1. A => C
  <2>1. \A i \in 1..m : i \in 1..n
    OBVIOUS
  <2> QED BY <2>1
<1>2. x.referenced = p.referenced /\ x.id = p.id /\ [x EXCEPT !.longTerm = TRUE] = x
  BY DEF Picture
<1>3. Lengthen(p, m) = q /\ Lengthen(p, n) = IF C THEN x ELSE p
  BY DEF Lengthen
<1>4. q.referenced = p.referenced /\ q.id = p.id
  BY <1>2
<1>5. Lengthen(q, n) = IF C THEN [q EXCEPT !.longTerm = TRUE] ELSE q
  BY <1>4 DEF Lengthen
<1>6. [q EXCEPT !.longTerm = TRUE] = x
  BY <1>2
<1> HIDE DEF A, C, x
<1>7. (IF C THEN [q EXCEPT !.longTerm = TRUE] ELSE q) = IF C THEN x ELSE p
  BY <1>1, <1>6
<1> QED BY <1>3, <1>5, <1>7

\* What the first slice makes of a picture: it remains a reference picture if an
\* entry means it, and is then what the entry says.
Settled(p, q) ==
    /\ q \in Picture /\ q.id = p.id /\ q.poc = p.poc /\ q.generated = p.generated
    /\ q.referenced => \E i \in 1..Len(header.rpl) : p.id = header.rpl[i].poc
    /\ \A i \in 1..Len(header.rpl) :
          p.referenced /\ p.id = header.rpl[i].poc
          => q.referenced /\ q.longTerm = header.rpl[i].lt

LEMMA RemarkSettles ==
    ASSUME PocInv, phase = "check", RefersApart(header), header.kind # "IDR",
           NEW L, Placed(L), Clear(L), \A p \in L : p.id # header.poc,
           NEW p \in L
    PROVE  Settled(p, Remark(Lengthen(p, Len(header.rpl))))
<1> DEFINE N == Len(header.rpl)
           q == Lengthen(p, N)
           M == {Lengthen(o, N) : o \in L}
<1>1. /\ N \in Nat /\ DOMAIN rpl = 1..N
      /\ \A i \in 1..N : rpl[i].lt = header.rpl[i].lt /\ header.rpl[i].lt \in BOOLEAN
      /\ POC = header.poc - offset /\ header.poc \in Int /\ offset \in Int
  <2>1. \A i \in 1..N : rpl[i].lt = header.rpl[i].lt /\ header.rpl[i].lt \in BOOLEAN
    BY EntryNames DEF Entry
  <2>2. MaxPoc \in Nat /\ offset \in Int
    BY ReferenceAssumption DEF PocInv, PocTypes
  <2> QED BY <2>1, <2>2, ActiveFacts
<1>2. p \in Picture /\ p.poc = p.id - offset /\ p.id \in Int /\ p.id # header.poc
  <2>1. MaxPoc \in Nat
    BY ReferenceAssumption
  <2>2. p \in Picture /\ p.poc = p.id - offset /\ p.id # header.poc
    BY DEF Placed
  <2> QED BY <2>1, <2>2 DEF Picture
<1>3. Placed(M) /\ Clear(M)
  BY LengthenPlaced
<1>4. /\ q \in M /\ q \in Picture /\ q.id = p.id /\ q.poc = p.poc
      /\ q.referenced = p.referenced /\ q.generated = p.generated
      /\ q.longTerm <=> \/ p.longTerm
                        \/ p.referenced /\ \E i \in 1..N : header.rpl[i].lt /\ p.id = header.rpl[i].poc
  BY <1>2, LengthenKeeps
<1>5. q.referenced => \A i \in 1..N : Names(rpl[i], q) <=> p.id = header.rpl[i].poc
  BY <1>3, <1>4, NamesOnly
<1>6. \A i, j \in 1..N : i # j => header.rpl[i].poc # header.rpl[j].poc
  BY DEF RefersApart
<1> HIDE DEF q, M, N
<1>7. q.referenced =>
        /\ NamedBy(q, FALSE) <=> \E i \in 1..N : ~header.rpl[i].lt /\ p.id = header.rpl[i].poc
        /\ NamedBy(q, TRUE) <=> \E i \in 1..N : header.rpl[i].lt /\ p.id = header.rpl[i].poc
  BY <1>1, <1>5 DEF NamedBy
<1>8. q.poc # POC
  BY <1>1, <1>2, <1>4
<1> DEFINE r == Remark(q)
<1>9. r = IF ~q.referenced THEN q
          ELSE IF NamedBy(q, FALSE) THEN [q EXCEPT !.longTerm = FALSE]
          ELSE IF q.longTerm /\ NamedBy(q, TRUE) THEN q
          ELSE [q EXCEPT !.referenced = FALSE, !.longTerm = FALSE]
  BY <1>8 DEF Remark
<1> HIDE DEF r
<1>10. CASE ~q.referenced
  <2>1. r = q
    BY <1>9, <1>10
  <2> QED BY <1>4, <1>10, <2>1 DEF Settled, N, q, r
<1>11. CASE q.referenced /\ \E i \in 1..N : ~header.rpl[i].lt /\ p.id = header.rpl[i].poc
  <2>1. PICK k \in 1..N : ~header.rpl[k].lt /\ p.id = header.rpl[k].poc
    BY <1>11
  <2>2. r = [q EXCEPT !.longTerm = FALSE]
    BY <1>7, <1>9, <1>11
  <2>3. /\ r \in Picture /\ r.id = p.id /\ r.poc = p.poc /\ r.generated = p.generated
        /\ r.referenced = q.referenced /\ r.longTerm = FALSE
    BY <1>4, <2>2 DEF Picture
  <2>4. \A i \in 1..N : p.id = header.rpl[i].poc => i = k
    BY <1>6, <2>1
  <2>5. header.rpl[k].lt = FALSE
    BY <1>1, <2>1
  <2>6. /\ \E i \in 1..N : p.id = header.rpl[i].poc
        /\ \A i \in 1..N : p.id = header.rpl[i].poc => r.referenced /\ r.longTerm = header.rpl[i].lt
    BY <1>11, <2>1, <2>3, <2>4, <2>5
  <2> QED BY <2>3, <2>6 DEF Settled, N, q, r
<1>12. CASE /\ q.referenced
            /\ ~\E i \in 1..N : ~header.rpl[i].lt /\ p.id = header.rpl[i].poc
            /\ \E i \in 1..N : header.rpl[i].lt /\ p.id = header.rpl[i].poc
  <2>1. r = q
    BY <1>4, <1>7, <1>9, <1>12
  <2>2. q.longTerm = TRUE
    BY <1>4, <1>12 DEF Picture
  <2>3. \A i \in 1..N : p.id = header.rpl[i].poc => header.rpl[i].lt = TRUE
    BY <1>1, <1>12
  <2>4. /\ \E i \in 1..N : p.id = header.rpl[i].poc
        /\ \A i \in 1..N : p.id = header.rpl[i].poc => q.referenced /\ q.longTerm = header.rpl[i].lt
    <3>1. q.referenced
      BY <1>12
    <3> QED BY <1>12, <2>2, <2>3, <3>1
  <2> QED BY <1>4, <2>1, <2>4 DEF Settled, N, q, r
<1>13. CASE /\ q.referenced
            /\ ~\E i \in 1..N : ~header.rpl[i].lt /\ p.id = header.rpl[i].poc
            /\ ~\E i \in 1..N : header.rpl[i].lt /\ p.id = header.rpl[i].poc
  <2>1. r = [q EXCEPT !.referenced = FALSE, !.longTerm = FALSE]
    BY <1>7, <1>9, <1>13
  <2>2. /\ r \in Picture /\ r.id = p.id /\ r.poc = p.poc /\ r.generated = p.generated
        /\ r.referenced = FALSE
    BY <1>4, <2>1 DEF Picture
  <2>3. \A i \in 1..N : p.id # header.rpl[i].poc
    BY <1>13
  <2> QED BY <2>2, <2>3 DEF Settled, N, q, r
<1> QED BY <1>10, <1>11, <1>12, <1>13
-----------------------------------------------------------------------------
\* A picture is about to be decoded with these in the list.
Ready(L) ==
    /\ Placed(L) /\ Clear(L)
    /\ \A p \in L : p.id # header.poc
    /\ header.kind = "IDR" => L = {} /\ header.rpl = <<>>

LEMMA CheckedLengthens ==
    ASSUME PocInv, phase = "check", Ready(pics)
    PROVE  /\ Checked = {Lengthen(p, header.active[slice]) : p \in pics}
           /\ MarkLongTerms(Checked, rpl) = {Lengthen(p, Len(header.rpl)) : p \in pics}
<1> DEFINE a == header.active[slice]
           N == Len(header.rpl)
           L == {Lengthen(p, a) : p \in pics}
<1>1. /\ a \in 0..N /\ Len(ActiveEntries) = a /\ N \in Nat /\ Len(rpl) = N
      /\ \A i \in 1..a : ActiveEntries[i] = rpl[i]
  BY ActiveFacts
<1>2. Placed(pics) /\ Clear(pics) /\ (header.kind = "IDR" => pics = {})
  BY DEF Ready
<1>3. MarkLongTerms(pics, ActiveEntries) = L
  BY <1>1, <1>2, Lengthened
<1>4. Checked = L
  BY <1>2, <1>3 DEF Checked
<1>5. Placed(L) /\ Clear(L)
  BY <1>2, LengthenPlaced
<1>6. MarkLongTerms(L, rpl) = {Lengthen(p, N) : p \in L}
  <2>1. Len(rpl) \in 0..N /\ \A i \in 1..Len(rpl) : rpl[i] = rpl[i]
    BY <1>1
  <2> HIDE DEF L
  <2> QED BY <1>1, <1>5, <2>1, Lengthened
<1>7. {Lengthen(p, N) : p \in L} = {Lengthen(Lengthen(p, a), N) : p \in pics}
  OBVIOUS
<1>8. \A p \in pics : Lengthen(Lengthen(p, a), N) = Lengthen(p, N)
  <2>1. a \in Nat /\ a <= N
    BY <1>1
  <2>2. pics \subseteq Picture
    BY <1>2 DEF Placed
  <2> QED BY <1>1, <2>1, <2>2, LengthenMore
<1>9. {Lengthen(Lengthen(p, a), N) : p \in pics} = {Lengthen(p, N) : p \in pics}
  BY <1>8
<1> HIDE DEF L, a, N
<1>10. MarkLongTerms(Checked, rpl) = {Lengthen(p, N) : p \in pics}
  BY <1>4, <1>6, <1>7, <1>9
<1> QED BY <1>4, <1>10 DEF L, a, N

\* The first slice marks the pictures and adds its own.
LEMMA FirstMarks ==
    ASSUME PocInv, phase = "check", slice = 1, RefersApart(header), Ready(pics), MadeUpLast(pics)
    PROVE  /\ CurrentPicture \in Present
           /\ \A q \in Present : q = CurrentPicture \/ \E p \in pics : Settled(p, q)
           /\ \A p \in pics : \E q \in Present : Settled(p, q)
           /\ Placed(Present) /\ MadeUpLast(Present)
<1> DEFINE N == Len(header.rpl)
           D == {Lengthen(p, N) : p \in pics}
           f(p) == Remark(Lengthen(p, N))
<1>1. MarkLongTerms(Checked, rpl) = D
  BY CheckedLengthens
<1>2. Present = {Remark(q) : q \in D} \cup {CurrentPicture}
  BY <1>1 DEF Present, Marked
<1>3. {Remark(q) : q \in D} = {f(p) : p \in pics}
  OBVIOUS
<1>4. /\ \A p \in pics : p.id # header.poc
      /\ Placed(pics) /\ Clear(pics)
      /\ header.kind = "IDR" => pics = {}
  BY DEF Ready
<1>5. \A p \in pics : Settled(p, f(p))
  <2> SUFFICES ASSUME NEW p \in pics PROVE Settled(p, f(p))
    OBVIOUS
  <2>1. header.kind # "IDR"
    BY <1>4
  <2> QED BY <1>4, <2>1, RemarkSettles
<1> HIDE DEF D, f
<1>6. Present = {f(p) : p \in pics} \cup {CurrentPicture}
  BY <1>2, <1>3
<1>7. /\ CurrentPicture \in Present
      /\ \A q \in Present : q = CurrentPicture \/ \E p \in pics : Settled(p, q)
      /\ \A p \in pics : \E q \in Present : Settled(p, q)
  BY <1>5, <1>6
<1>8. MadeUpLast(Present)
  <2>1. CurrentPicture.generated = 0 /\ \A p \in pics : p.generated \in Nat
    BY <1>4 DEF CurrentPicture, Placed, Picture
  <2>2. \A p \in pics : f(p).generated = p.generated
    BY <1>5 DEF Settled
  <2>3. CASE pics = {}
    BY <1>6, <2>1, <2>3 DEF MadeUpLast
  <2>4. CASE pics # {}
    <3>1. PICK p \in pics : \A q \in pics : q.generated <= p.generated
      BY <2>4 DEF MadeUpLast
    <3>2. f(p) \in Present /\ \A r \in Present : r.generated <= f(p).generated
      BY <1>6, <2>1, <2>2, <3>1
    <3> QED BY <3>2 DEF MadeUpLast
  <2> QED BY <2>3, <2>4
<1>9. /\ CurrentPicture \in Picture /\ CurrentPicture.id = header.poc
      /\ CurrentPicture.poc = header.poc - offset
  BY ActiveFacts DEF CurrentPicture, Picture
<1>10. /\ \A p \in pics : p.poc = p.id - offset
       /\ \A p, q \in pics : p.id = q.id => p = q
  BY <1>4 DEF Placed
<1>11. ASSUME NEW q \in Present PROVE q \in Picture /\ q.poc = q.id - offset
  <2>1. CASE q = CurrentPicture
    BY <1>9, <2>1
  <2>2. CASE \E p \in pics : Settled(p, q)
    BY <1>10, <2>2 DEF Settled
  <2> QED BY <1>7, <2>1, <2>2
<1>12. \A p \in pics : f(p).id = p.id
  BY <1>5 DEF Settled
<1>13. ASSUME NEW q \in Present, NEW r \in Present, q.id = r.id PROVE q = r
  <2>1. q = CurrentPicture \/ \E p \in pics : q = f(p)
    BY <1>6
  <2>2. r = CurrentPicture \/ \E p \in pics : r = f(p)
    BY <1>6
  <2> QED BY <1>4, <1>9, <1>10, <1>12, <1>13, <2>1, <2>2
<1>14. Placed(Present)
  BY <1>11, <1>13 DEF Placed
<1> QED BY <1>7, <1>8, <1>14
-----------------------------------------------------------------------------
\* Once it is decoded: what is marked is it and its references.
Done(L) ==
    /\ Placed(L)
    /\ \E p \in L : p.id = header.poc /\ p.referenced /\ ~p.longTerm
    /\ \A p \in L : p.referenced =>
          p.id = header.poc \/ \E i \in 1..Len(header.rpl) : p.id = header.rpl[i].poc

\* The picture that entry i leads to.
Led(L, i) ==
    \E p \in L : /\ p.id = header.rpl[i].poc /\ p.referenced
                 /\ p.longTerm = header.rpl[i].lt
                 /\ p.generated > 0 => header.kind = "GDR"

LEMMA CandidateOnly ==
    ASSUME PocInv, phase = "check", RefersApart(header),
           \A i \in 1..Len(header.rpl) : header.rpl[i].poc # header.poc,
           NEW L, Done(L), NEW i \in 1..Len(header.rpl), Led(L, i)
    PROVE  \E p \in L : /\ Candidates(L, rpl[i]) = {p}
                        /\ p.id = header.rpl[i].poc /\ p.referenced
                        /\ p.longTerm = header.rpl[i].lt /\ rpl[i].lt = header.rpl[i].lt
                        /\ p.generated > 0 => header.kind = "GDR"
<1> DEFINE N == Len(header.rpl)
           ref == header.rpl[i].poc
<1>1. PICK p \in L : /\ p.id = ref /\ p.referenced
                     /\ p.longTerm = header.rpl[i].lt
                     /\ p.generated > 0 => header.kind = "GDR"
  BY DEF Led
<1>2. /\ L \subseteq Picture
      /\ \A q \in L : q.poc = q.id - offset
      /\ \A q, r \in L : q.id = r.id => q = r
      /\ \A q \in L : q.referenced => q.id = header.poc \/ \E j \in 1..N : q.id = header.rpl[j].poc
  BY DEF Done, Placed
<1>3. /\ MaxPoc \in Nat /\ offset \in Int /\ header.poc \in 0..MaxPoc
      /\ POC = header.poc - offset
  BY ReferenceAssumption, ActiveFacts DEF PocInv, PocTypes
<1>4. \A q \in L : q.id \in Int /\ (q.poc = POC <=> q.id = header.poc)
  <2>1. \A q \in L : q.id \in Int /\ q.poc = q.id - offset
    BY <1>2, <1>3 DEF Picture
  <2> QED BY <1>3, <2>1
<1>5. /\ \A q \in L : Names(rpl[i], q) <=> Fits(header.rpl[i], q.id)
      /\ rpl[i].lt = header.rpl[i].lt
  BY <1>2, <1>4, EntryNames
<1>6. ref # header.poc
  OBVIOUS
<1>7. p \in Candidates(L, rpl[i])
  <2>1. Fits(header.rpl[i], p.id)
    BY <1>1 DEF Fits
  <2>2. Names(rpl[i], p) /\ p.poc # POC
    BY <1>1, <1>4, <1>5, <1>6, <2>1
  <2> QED BY <1>1, <2>2 DEF Candidates
<1>8. ASSUME NEW q \in Candidates(L, rpl[i]) PROVE q = p
  <2>1. q \in L /\ Names(rpl[i], q) /\ (rpl[i].lt => q.poc # POC /\ q.referenced)
    BY <1>8 DEF Candidates
  <2>2. Fits(header.rpl[i], q.id)
    BY <1>5, <2>1
  <2>3. q.id = ref
    <3>1. CASE ~(header.rpl[i].lt /\ ~header.rpl[i].msb)
      BY <2>2, <3>1 DEF Fits
    <3>2. CASE header.rpl[i].lt /\ ~header.rpl[i].msb
      <4>1. q.id # header.poc /\ q.referenced
        BY <1>4, <1>5, <2>1, <3>2
      <4>2. PICK j \in 1..N : q.id = header.rpl[j].poc
        BY <1>2, <2>1, <4>1
      <4>3. Lsb(header.rpl[j].poc) = Lsb(ref)
        BY <2>2, <3>2, <4>2 DEF Fits
      <4>4. j = i
        BY <3>2, <4>3 DEF RefersApart
      <4> QED BY <4>2, <4>4
    <3> QED BY <3>1, <3>2
  <2> QED BY <1>1, <1>2, <2>1, <2>3
<1>9. Candidates(L, rpl[i]) = {p}
  BY <1>7, <1>8
<1> QED BY <1>1, <1>5, <1>9
-----------------------------------------------------------------------------
\* With all its references in the list, the list of candidates is filled, no
\* mark changes, and no null pointer is used.
LEMMA ListFilled ==
    ASSUME PocInv, phase = "check", RefersApart(header),
           \A i \in 1..Len(header.rpl) : header.rpl[i].poc # header.poc,
           NEW L, Done(L),
           \/ header.kind = "CRA" /\ \A i \in 1..Len(header.rpl) : ~header.rpl[i].lt
           \/ \A i \in 1..Len(header.rpl) : Led(L, i)
    PROVE  /\ Constructed(L) = L
           /\ ~NullPointer(L)
           /\ \A i \in 1..header.active[slice] :
                 \E p \in L : /\ Candidates(L, rpl[i]) = {p}
                              /\ p.id = header.rpl[i].poc /\ p.referenced
                              /\ p.longTerm = header.rpl[i].lt
                              /\ p.generated > 0 => header.kind = "GDR"
<1> DEFINE N == Len(header.rpl)
<1>1. /\ N \in Nat /\ DOMAIN rpl = 1..N
      /\ header.active[slice] \in 0..N /\ \A i \in 1..header.active[slice] : i \in 1..N
      /\ header.kind = "CRA" => header.active[slice] = 0
  BY ActiveFacts
<1>2. \A i \in 1..N : rpl[i].lt = header.rpl[i].lt
  BY EntryNames
<1>3. L \subseteq Picture
  BY DEF Done, Placed
<1>4. CASE header.kind = "CRA" /\ \A i \in 1..N : ~header.rpl[i].lt
  <2>1. IsIntra
    BY <1>1, <1>4 DEF IsIntra
  <2>2. Constructed(L) = L
    BY <2>1 DEF Constructed
  <2>3. ~NullPointer(L)
    BY <1>1, <1>2, <1>4, <2>1 DEF NullPointer
  <2>4. ~\E i \in 1..header.active[slice] : TRUE
    BY <1>1, <1>4
  <2> QED BY <2>2, <2>3, <2>4
<1>5. CASE \A i \in 1..N : Led(L, i)
  <2>1. \A i \in 1..N :
           \E p \in L : /\ Candidates(L, rpl[i]) = {p}
                        /\ p.id = header.rpl[i].poc /\ p.referenced
                        /\ p.longTerm = header.rpl[i].lt /\ rpl[i].lt = header.rpl[i].lt
                        /\ p.generated > 0 => header.kind = "GDR"
    <3> SUFFICES ASSUME NEW i \in 1..N
                 PROVE  \E p \in L : /\ Candidates(L, rpl[i]) = {p}
                                     /\ p.id = header.rpl[i].poc /\ p.referenced
                                     /\ p.longTerm = header.rpl[i].lt /\ rpl[i].lt = header.rpl[i].lt
                                     /\ p.generated > 0 => header.kind = "GDR"
      OBVIOUS
    <3>1. Led(L, i)
      BY <1>5
    <3> QED BY <3>1, CandidateOnly
  <2>2. ~NullPointer(L)
    <3>1. \A i \in 1..N : Candidates(L, rpl[i]) # {}
      BY <2>1
    <3> QED BY <1>1, <3>1 DEF NullPointer
  <2>3. Constructed(L) = L
    <3> DEFINE of(p) == {i \in DOMAIN rpl : p \in Candidates(L, rpl[i])}
               g(p) == [p EXCEPT !.longTerm = IF of(p) = {} THEN @ ELSE rpl[Max(of(p))].lt]
    <3>1. Constructed(L) = IF IsIntra THEN L ELSE {g(p) : p \in L}
      BY DEF Constructed
    <3>2. ASSUME NEW p \in L PROVE g(p) = p
      <4>1. p \in Picture
        BY <1>3
      <4>2. ASSUME NEW i \in of(p) PROVE rpl[i].lt = p.longTerm
        BY <1>1, <2>1, <4>2
      <4>3. of(p) # {} => Max(of(p)) \in of(p)
        <5>1. of(p) \in SUBSET (0..N)
          BY <1>1
        <5> HIDE DEF of
        <5>2. ASSUME of(p) # {} PROVE \E x \in of(p) : \A y \in of(p) : x >= y
          BY <1>1, <5>1, <5>2, GreatestNat
        <5> QED BY <5>2 DEF Max
      <4> DEFINE t == IF of(p) = {} THEN p.longTerm ELSE rpl[Max(of(p))].lt
      <4>4. t = p.longTerm
        BY <4>2, <4>3
      <4>5. g(p) = [p EXCEPT !.longTerm = t]
        OBVIOUS
      <4> HIDE DEF t, g
      <4> QED BY <4>1, <4>4, <4>5 DEF Picture
    <3> HIDE DEF g
    <3> QED BY <3>1, <3>2
  <2> QED BY <1>1, <2>1, <2>2, <2>3
<1> QED BY <1>4, <1>5
-----------------------------------------------------------------------------
\* The search for missing pictures.

LEMMA NoneMissing ==
    ASSUME PocInv, phase = "check", NEW L,
           \A i \in 1..header.active[slice] :
              \E p \in L : /\ p \in Picture /\ p.poc = p.id - offset
                           /\ p.id = header.rpl[i].poc /\ p.referenced
                           /\ p.longTerm = header.rpl[i].lt
    PROVE  Missing(L, ActiveEntries) = {}
<1>1. /\ DOMAIN ActiveEntries = 1..header.active[slice]
      /\ \A i \in 1..header.active[slice] :
            ActiveEntries[i] = rpl[i] /\ i \in 1..Len(header.rpl)
  BY ActiveFacts
<1>2. ASSUME NEW i \in 1..header.active[slice]
      PROVE  Named(L, ActiveEntries[i], ActiveEntries[i].lt) # {}
  <2>1. PICK p \in L : /\ p \in Picture /\ p.poc = p.id - offset
                       /\ p.id = header.rpl[i].poc /\ p.referenced
                       /\ p.longTerm = header.rpl[i].lt
    OBVIOUS
  <2>2. p.id \in Int
    <3>1. MaxPoc \in Nat
      BY ReferenceAssumption
    <3> QED BY <2>1, <3>1 DEF Picture
  <2>3. rpl[i].lt = header.rpl[i].lt /\ (Names(rpl[i], p) <=> Fits(header.rpl[i], p.id))
    BY <1>1, <2>1, <2>2, EntryNames
  <2>4. Names(rpl[i], p)
    BY <2>1, <2>3 DEF Fits
  <2>5. p \in Named(L, rpl[i], rpl[i].lt)
    BY <2>1, <2>3, <2>4 DEF Named
  <2> QED BY <1>1, <2>5
<1> QED BY <1>1, <1>2 DEF Missing

LEMMA NoneLost ==
    ASSUME Missing(Checked, ActiveEntries) = {} PROVE LostPoc = 0
BY DEF LostPoc

\* In a slice that is not the first the pictures are already what they should be.
LEMMA LaterChecked ==
    ASSUME PocInv, phase = "check", Placed(pics),
           \A i \in 1..header.active[slice] : Led(pics, i)
    PROVE  Checked = pics /\ LostPoc = 0
<1>1. /\ Len(ActiveEntries) = header.active[slice] /\ header.active[slice] \in Nat
      /\ \A i \in 1..header.active[slice] :
            ActiveEntries[i] = rpl[i] /\ i \in 1..Len(header.rpl)
  BY ActiveFacts
<1>2. ASSUME NEW i \in 1..header.active[slice]
      PROVE  /\ MarkLongTerm(pics, ActiveEntries[i]) = pics
             /\ \E p \in pics : /\ p \in Picture /\ p.poc = p.id - offset
                                /\ p.id = header.rpl[i].poc /\ p.referenced
                                /\ p.longTerm = header.rpl[i].lt
  <2>1. PICK p \in pics : /\ p.id = header.rpl[i].poc /\ p.referenced
                          /\ p.longTerm = header.rpl[i].lt
    BY DEF Led
  <2>2. p \in Picture /\ p.poc = p.id - offset
    BY DEF Placed
  <2>3. p.id \in Int
    <3>1. MaxPoc \in Nat
      BY ReferenceAssumption
    <3> QED BY <2>2, <3>1 DEF Picture
  <2>4. rpl[i].lt = header.rpl[i].lt /\ (Names(rpl[i], p) <=> Fits(header.rpl[i], p.id))
    BY <1>1, <2>2, <2>3, EntryNames
  <2>5. Names(rpl[i], p)
    BY <2>1, <2>4 DEF Fits
  <2>6. rpl[i].lt => p \in Named(pics, rpl[i], TRUE)
    <3>1. rpl[i].lt => p.longTerm = TRUE
      BY <2>1, <2>2, <2>4 DEF Picture
    <3> QED BY <2>1, <2>5, <3>1 DEF Named
  <2>7. MarkLongTerm(pics, rpl[i]) = pics
    BY <2>6 DEF MarkLongTerm
  <2> QED BY <1>1, <2>1, <2>2, <2>7
<1>3. MarkLongTerms(pics, ActiveEntries) = pics
  BY <1>1, <1>2, MarkNothing
<1>4. Checked = pics
  BY <1>3 DEF Checked
<1>5. Missing(pics, ActiveEntries) = {}
  BY <1>2, NoneMissing
<1> QED BY <1>4, <1>5, NoneLost

\* In the first slice, if the references are there, they are found.
LEMMA FirstChecked ==
    ASSUME PocInv, phase = "check", Ready(pics), RefersApart(header),
           \A i \in 1..header.active[slice] : \E p \in pics : Holds(p, header.rpl[i])
    PROVE  LostPoc = 0
<1> DEFINE a == header.active[slice]
<1>1. Checked = {Lengthen(p, a) : p \in pics}
  BY CheckedLengthens
<1>2. /\ pics \subseteq Picture
      /\ \A p \in pics : p.poc = p.id - offset
  BY DEF Ready, Placed
<1>3. a \in 0..Len(header.rpl) /\ \A i \in 1..a : i \in 1..Len(header.rpl)
  BY ActiveFacts
<1>4. ASSUME NEW i \in 1..a
      PROVE  \E q \in Checked : /\ q \in Picture /\ q.poc = q.id - offset
                                /\ q.id = header.rpl[i].poc /\ q.referenced
                                /\ q.longTerm = header.rpl[i].lt
  <2>1. PICK p \in pics : Holds(p, header.rpl[i])
    OBVIOUS
  <2>2. p \in Picture /\ p.poc = p.id - offset
    BY <1>2
  <2> DEFINE q == Lengthen(p, a)
  <2>3. /\ q \in Picture /\ q.id = p.id /\ q.poc = p.poc
        /\ q.referenced = p.referenced
        /\ q.longTerm <=> \/ p.longTerm
                          \/ p.referenced /\ \E j \in 1..a : header.rpl[j].lt /\ p.id = header.rpl[j].poc
    BY <2>2, LengthenKeeps
  <2>4. q \in Checked
    BY <1>1
  <2> HIDE DEF q, a
  <2>5. p.id = header.rpl[i].poc /\ p.referenced /\ (p.longTerm => header.rpl[i].lt)
    BY <2>1 DEF Holds
  <2>6. \A j \in 1..a : p.id = header.rpl[j].poc => j = i
    BY <1>3, <2>5 DEF RefersApart
  <2>7. q.longTerm <=> header.rpl[i].lt
    BY <2>3, <2>5, <2>6
  <2>8. header.rpl[i].lt \in BOOLEAN /\ q.longTerm \in BOOLEAN
    BY <1>3, <2>3, EntryNames DEF Entry, Picture
  <2> QED BY <2>2, <2>3, <2>4, <2>5, <2>7, <2>8
<1>5. Missing(Checked, ActiveEntries) = {}
  BY <1>4, NoneMissing
<1> QED BY <1>5, NoneLost
-----------------------------------------------------------------------------
\* The decoder enters at a GDR picture: it has none of the pictures that the
\* entries name but those that it has made up.
Entering ==
    /\ header.kind = "GDR" /\ slice = 1 /\ noOutputBeforeRecovery
    /\ RefersApart(header) /\ header.active[1] = Len(header.rpl)
    /\ Ready(pics) /\ MadeUpLast(pics)
    /\ \A p \in pics : \E i \in 1..Len(header.rpl) :
          Holds(p, header.rpl[i]) /\ p.longTerm = header.rpl[i].lt

LEMMA EnteringChecked ==
    ASSUME PocInv, phase = "check", Entering
    PROVE  Checked = pics
<1> DEFINE a == header.active[slice]
<1>1. Checked = {Lengthen(p, a) : p \in pics}
  BY CheckedLengthens DEF Entering
<1>2. a \in 0..Len(header.rpl) /\ \A i \in 1..a : i \in 1..Len(header.rpl)
  BY ActiveFacts
<1>3. ASSUME NEW p \in pics PROVE Lengthen(p, a) = p
  <2>1. p \in Picture
    BY DEF Entering, Ready, Placed
  <2>2. PICK k \in 1..Len(header.rpl) : p.id = header.rpl[k].poc /\ p.longTerm = header.rpl[k].lt
    BY DEF Entering, Holds
  <2>3. ASSUME NEW i \in 1..a, header.rpl[i].lt, p.id = header.rpl[i].poc
        PROVE  p.longTerm = TRUE
    <3>1. i = k
      BY <1>2, <2>2, <2>3 DEF Entering, RefersApart
    <3> QED BY <2>1, <2>2, <2>3, <3>1 DEF Picture
  <2>4. p.longTerm = TRUE => [p EXCEPT !.longTerm = TRUE] = p
    BY <2>1 DEF Picture
  <2> QED BY <2>3, <2>4 DEF Lengthen
<1> QED BY <1>1, <1>3

\* The pictures that an entry leads to, as they are.
LEMMA EnteringNamed ==
    ASSUME PocInv, phase = "check", Entering, NEW i \in 1..header.active[slice]
    PROVE  Named(pics, ActiveEntries[i], ActiveEntries[i].lt)
              = {p \in pics : p.id = header.rpl[i].poc}
<1>1. i \in 1..Len(header.rpl) /\ ActiveEntries[i] = rpl[i]
  BY ActiveFacts
<1>2. rpl[i].lt = header.rpl[i].lt
  BY <1>1, EntryNames
<1>3. Placed(pics) /\ Clear(pics)
  BY DEF Entering, Ready
<1>4. ASSUME NEW p \in pics
      PROVE  p \in Named(pics, rpl[i], rpl[i].lt) <=> p.id = header.rpl[i].poc
  <2>1. PICK k \in 1..Len(header.rpl) : /\ p.id = header.rpl[k].poc /\ p.referenced
                                        /\ p.longTerm = header.rpl[k].lt
    BY DEF Entering, Holds
  <2>2. Names(rpl[i], p) <=> p.id = header.rpl[i].poc
    BY <1>1, <1>3, <2>1, NamesOnly
  <2>3. p.id = header.rpl[i].poc => k = i
    BY <1>1, <2>1 DEF Entering, RefersApart
  <2> QED BY <1>2, <2>1, <2>2, <2>3 DEF Named
<1>5. Named(pics, rpl[i], rpl[i].lt) \subseteq pics
  BY DEF Named
<1> QED BY <1>1, <1>4, <1>5

\* A picture is missing: the one that is made up has its POC, and none had.
LEMMA EnteringLost ==
    ASSUME PocInv, phase = "check", Entering, Missing(Checked, ActiveEntries) # {}
    PROVE  \E i \in 1..header.active[slice] :
              /\ i \in Missing(pics, ActiveEntries) /\ i \in 1..Len(header.rpl)
              /\ LostPoc > 0
              /\ MadeUp \in Picture /\ MadeUp.id = header.rpl[i].poc
              /\ MadeUp.poc = MadeUp.id - offset
              /\ MadeUp.referenced /\ MadeUp.longTerm = header.rpl[i].lt
              /\ MadeUp.generated > 0
              /\ \A p \in pics : p.generated <= MadeUp.generated /\ p.id # MadeUp.id
<1> DEFINE missing == Missing(Checked, ActiveEntries)
           long == {i \in missing : rpl[i].lt}
           chosen == IF long # {} THEN long ELSE missing
           i == Min(chosen)
<1>1. Checked = pics
  BY EnteringChecked
<1>2. /\ HeaderSound(coded, header) /\ offset \in Int
      /\ header.kind = "GDR" /\ offset = Msb(header.poc)
  BY DEF PocInv, PocTypes, PictureSound, InPicture, ParsedSound, Entering, RandomAccess
<1>3. /\ DOMAIN ActiveEntries = 1..header.active[slice]
      /\ \A k \in 1..header.active[slice] :
            ActiveEntries[k] = rpl[k] /\ k \in 1..Len(header.rpl)
      /\ header.active[slice] \in Nat
      /\ POC = header.poc - offset /\ header.poc \in 0..MaxPoc
  BY ActiveFacts
<1>4. missing \subseteq 1..header.active[slice]
  BY <1>3 DEF Missing
<1>5. chosen # {} /\ chosen \subseteq missing
  OBVIOUS
<1>6. LostPoc = IF MissingEntry.lt THEN MissingEntry.id ELSE RefPoc(MissingEntry)
  BY <1>2 DEF LostPoc
<1>7. MissingEntry = rpl[i]
  BY DEF MissingEntry
<1> HIDE DEF missing
<1>8. i \in chosen
  <2> HIDE DEF chosen
  <2>1. chosen \in SUBSET Nat
    BY <1>3, <1>4, <1>5
  <2>2. \E x \in chosen : \A y \in chosen : x <= y
    BY <1>5, <2>1, LeastNat
  <2> QED BY <2>2 DEF Min
<1> HIDE DEF i, chosen
<1>9. i \in missing /\ i \in 1..header.active[slice] /\ i \in 1..Len(header.rpl)
  BY <1>3, <1>4, <1>5, <1>8
<1> DEFINE ref == header.rpl[i].poc
<1>10. /\ header.rpl[i] \in Entry /\ ref \in Int /\ ref \in 0..MaxPoc /\ header.rpl[i].lt \in BOOLEAN
       /\ rpl[i].lt = header.rpl[i].lt
       /\ RefPoc(rpl[i]) = IF rpl[i].lt /\ ~rpl[i].msb THEN Lsb(ref) ELSE ref - offset
       /\ rpl[i].lt => rpl[i].id = Lsb(ref)
  <2>1. /\ header.rpl[i] \in Entry /\ ref \in Int
        /\ rpl[i].lt = header.rpl[i].lt
        /\ RefPoc(rpl[i]) = IF rpl[i].lt /\ ~rpl[i].msb THEN Lsb(ref) ELSE ref - offset
        /\ rpl[i].lt => rpl[i].id = Lsb(ref)
    BY <1>9, EntryNames
  <2> QED BY <2>1 DEF Entry
<1>11. Generable(header.poc, ref)
  BY <1>2, <1>9 DEF HeaderSound
<1>12. ref - offset = Lsb(ref) /\ Lsb(ref) > 0
  <2>1. ref = Msb(ref) + Lsb(ref) /\ Lsb(ref) \in 0..(MaxPocLsb - 1)
    BY <1>10, LsbFacts
  <2>2. MaxPocLsb \in Nat
    BY LsbRange
  <2>3. Msb(ref) = offset /\ Lsb(ref) > 0
    BY <1>2, <1>11 DEF Generable
  <2> QED BY <1>2, <1>10, <2>1, <2>2, <2>3
<1> HIDE DEF ref
<1>13. LostPoc = ref - offset /\ LostPoc > 0
  BY <1>6, <1>7, <1>10, <1>12
<1>14. LostPoc + offset = ref /\ LostPoc \in Int
  BY <1>2, <1>10, <1>13
<1> DEFINE S == {p.generated : p \in pics} \cup {0}
<1>15. Max(S) \in Nat /\ \A p \in pics : p.generated <= Max(S)
  <2>1. \A p \in pics : p.generated \in Nat
    BY DEF Entering, Ready, Placed, Picture
  <2>2. \E x \in S : \A y \in S : x >= y
    <3>1. CASE pics = {}
      BY <3>1
    <3>2. CASE pics # {}
      <4>1. PICK p \in pics : \A q \in pics : q.generated <= p.generated
        BY <3>2 DEF Entering, MadeUpLast
      <4>2. p.generated \in S /\ \A y \in S : p.generated >= y
        BY <2>1, <4>1
      <4> QED BY <4>2
    <3> QED BY <3>1, <3>2
  <2>3. S \subseteq Nat /\ \A p \in pics : p.generated \in S
    BY <2>1
  <2> HIDE DEF S
  <2>4. Max(S) \in S /\ \A y \in S : Max(S) >= y
    BY <2>2 DEF Max
  <2> QED BY <2>1, <2>3, <2>4
<1>16. MadeUp = [id |-> LostPoc + offset, poc |-> LostPoc, longTerm |-> MissingEntry.lt,
                 referenced |-> TRUE, generated |-> 1 + Max(S)]
  BY DEF MadeUp
<1> HIDE DEF S
<1>17. /\ MadeUp.id = ref /\ MadeUp.poc = ref - offset /\ MadeUp.referenced
       /\ MadeUp.longTerm = header.rpl[i].lt /\ MadeUp.generated = 1 + Max(S)
  BY <1>7, <1>10, <1>13, <1>14, <1>16
<1>18. MadeUp \in Picture
  <2> DEFINE g == 1 + Max(S)
  <2>1. g \in Nat
    BY <1>15
  <2> HIDE DEF g
  <2>2. MadeUp = [id |-> ref, poc |-> LostPoc, longTerm |-> header.rpl[i].lt,
                  referenced |-> TRUE, generated |-> g]
    BY <1>7, <1>10, <1>14, <1>16 DEF g
  <2> QED BY <1>10, <1>14, <2>1, <2>2 DEF Picture
<1>19. \A p \in pics : p.id # ref
  <2>1. Named(pics, ActiveEntries[i], ActiveEntries[i].lt) = {}
    BY <1>1, <1>9 DEF missing, Missing
  <2> QED BY <1>9, <2>1, EnteringNamed DEF ref
<1>20. \A p \in pics : p.generated \in Nat
  BY DEF Entering, Ready, Placed, Picture
<1>21. MadeUp.generated > 0 /\ \A p \in pics : p.generated <= MadeUp.generated
  BY <1>15, <1>17, <1>20
<1> QED BY <1>1, <1>9, <1>13, <1>17, <1>18, <1>19, <1>21 DEF missing, ref

\* No picture is missing: the entries lead to those made up.
LEMMA EnteringFound ==
    ASSUME PocInv, phase = "check", Entering, Missing(Checked, ActiveEntries) = {}
    PROVE  \A i \in 1..Len(header.rpl) : \E p \in pics :
              Holds(p, header.rpl[i]) /\ p.longTerm = header.rpl[i].lt
<1> SUFFICES ASSUME NEW i \in 1..Len(header.rpl)
             PROVE  \E p \in pics : Holds(p, header.rpl[i]) /\ p.longTerm = header.rpl[i].lt
  OBVIOUS
<1>1. i \in 1..header.active[slice] /\ DOMAIN ActiveEntries = 1..header.active[slice]
  BY ActiveFacts DEF Entering
<1>2. Named(pics, ActiveEntries[i], ActiveEntries[i].lt) # {}
  BY <1>1, EnteringChecked DEF Missing
<1>3. PICK p \in pics : p.id = header.rpl[i].poc
  BY <1>1, <1>2, EnteringNamed
<1>4. PICK k \in 1..Len(header.rpl) : Holds(p, header.rpl[k]) /\ p.longTerm = header.rpl[k].lt
  BY DEF Entering
<1>5. k = i
  <2>1. header.rpl[k].poc = header.rpl[i].poc
    BY <1>3, <1>4 DEF Holds
  <2>2. \A m, n \in 1..Len(header.rpl) : m # n => header.rpl[m].poc # header.rpl[n].poc
    BY DEF Entering, RefersApart
  <2> QED BY <2>1, <2>2
<1> QED BY <1>4, <1>5
-----------------------------------------------------------------------------
(***************************************************************************)
(* The pictures when a slice has been read.                                *)
(***************************************************************************)
\* Before the first slice is decoded: either the references are there, or the
\* decoder enters at this picture.
LEMMA FreshFacts ==
    ASSUME PocInv, RefsInv, phase = "check", slice = 1
    PROVE  /\ Ready(pics) /\ MadeUpLast(pics) /\ RefersApart(header)
           /\ \/ \A i \in 1..Len(header.rpl) :
                    \E p \in pics : Holds(p, header.rpl[i]) /\ p.generated = 0
              \/ header.kind = "CRA" /\ Entered
              \/ Entering /\ firstInSequence
<1>1. /\ Synced /\ HeaderSound(coded, header) /\ offset \in Int
  BY DEF PocInv, Joined, PictureSound, InPicture, PocTypes
<1>2. /\ RefersApart(header) /\ RefersKnown(coded, header)
      /\ HeaderKnown /\ AccessKnown /\ PicsKnown /\ FreshKnown
  BY DEF RefsInv, HeaderKnown, InPicture
<1>3. /\ firstInSequence => header.kind \in Anchors
      /\ header.kind \in RandomAccess => (noOutputBeforeRecovery <=> firstInSequence)
      /\ firstInSequence /\ header.kind \in RandomAccess => Entered
      /\ ~Skips
  BY <1>1, <1>2 DEF AccessKnown
<1>4. Fresh /\ ~Stale
  BY <1>3 DEF Fresh, Stale
<1>5. /\ pics \subseteq Picture /\ MadeUpLast(pics)
      /\ \A p \in pics : p.poc = p.id - offset
      /\ \A p, q \in pics : p.id = q.id => p = q
  BY <1>2, <1>4 DEF PicsKnown
<1>6. /\ \A p \in pics : p.id # header.poc
      /\ header.kind \in {"IDR", "CRA"} /\ firstInSequence => pics = {}
      /\ header.kind = "IDR" => pics = {}
      /\ header.kind = "GDR" /\ firstInSequence =>
            \A p \in pics : \E i \in 1..Len(header.rpl) :
               Holds(p, header.rpl[i]) /\ p.longTerm = header.rpl[i].lt
      /\ ~firstInSequence /\ header.kind # "IDR" =>
            /\ \A i \in 1..Len(header.rpl) :
                  \E p \in pics : Holds(p, header.rpl[i]) /\ p.generated = 0
            /\ \A i \in 1..Len(header.rpl), p \in pics :
                  /\ header.rpl[i].lt /\ ~header.rpl[i].msb
                  /\ p.referenced /\ p.id # header.rpl[i].poc
                  => Lsb(p.id) # Lsb(header.rpl[i].poc)
  BY <1>1, <1>2, <1>4 DEF FreshKnown
<1>7. header.kind = "IDR" => header.rpl = <<>>
  BY <1>2 DEF RefersKnown
<1>8. Placed(pics)
  BY <1>5 DEF Placed
<1>9. CASE ~firstInSequence /\ header.kind # "IDR"
  <2>1. Clear(pics)
    BY <1>6, <1>9 DEF Clear
  <2>2. Ready(pics)
    BY <1>6, <1>8, <1>9, <2>1 DEF Ready
  <2> QED BY <1>2, <1>5, <1>6, <1>9, <2>2
<1>10. CASE header.kind = "IDR"
  <2>1. pics = {} /\ Clear(pics)
    BY <1>6, <1>10 DEF Clear
  <2>2. Ready(pics)
    BY <1>6, <1>7, <1>8, <2>1 DEF Ready
  <2>3. Len(header.rpl) = 0
    BY <1>7, <1>10
  <2>4. ~\E i \in 1..Len(header.rpl) : TRUE
    BY <2>3
  <2> QED BY <1>2, <1>5, <2>2, <2>4
<1>11. CASE firstInSequence /\ header.kind = "CRA"
  <2>1. pics = {} /\ Clear(pics)
    BY <1>6, <1>11 DEF Clear
  <2>2. Ready(pics)
    BY <1>6, <1>8, <1>11, <2>1 DEF Ready
  <2>3. Entered
    BY <1>3, <1>11 DEF RandomAccess
  <2> QED BY <1>2, <1>5, <1>11, <2>2, <2>3
<1>12. CASE firstInSequence /\ header.kind = "GDR"
  <2>1. ASSUME NEW i \in 1..Len(header.rpl), NEW p \in pics,
               header.rpl[i].lt, ~header.rpl[i].msb, p.id # header.rpl[i].poc
        PROVE  Lsb(p.id) # Lsb(header.rpl[i].poc)
    <3>1. PICK k \in 1..Len(header.rpl) : Holds(p, header.rpl[k])
      BY <1>6, <1>12
    <3>2. p.id = header.rpl[k].poc /\ k # i
      BY <2>1, <3>1 DEF Holds
    <3> QED BY <1>2, <2>1, <3>2 DEF RefersApart
  <2>2. Clear(pics)
    BY <2>1 DEF Clear
  <2>3. Ready(pics)
    BY <1>6, <1>8, <1>12, <2>2 DEF Ready
  <2>4. header.active[1] = Len(header.rpl) /\ noOutputBeforeRecovery
    BY <1>2, <1>3, <1>12 DEF RefersKnown, RandomAccess
  <2>5. Entering
    BY <1>2, <1>5, <1>6, <1>12, <2>3, <2>4 DEF Entering
  <2> QED BY <1>2, <1>5, <1>12, <2>3, <2>5
<1> QED BY <1>3, <1>9, <1>10, <1>11, <1>12 DEF Anchors

\* In a later slice they are there.
LEMMA BegunFacts ==
    ASSUME PocInv, RefsInv, phase = "check", slice # 1
    PROVE  /\ Done(pics) /\ MadeUpLast(pics)
           /\ \/ \A i \in 1..Len(header.rpl) : Led(pics, i)
              \/ header.kind = "CRA" /\ Entered
           /\ Checked = pics /\ LostPoc = 0
<1>1. /\ slice \in Nat /\ slice >= 1
      /\ header.active[slice] \in 0..Len(header.rpl)
      /\ \A i \in 1..header.active[slice] : i \in 1..Len(header.rpl)
      /\ header.kind = "CRA" => header.active[slice] = 0
  BY ActiveFacts
<1>2. AccessKnown /\ PicsKnown /\ BegunKnown
  BY DEF RefsInv
<1>3. Begun /\ ~Stale
  BY <1>1, <1>2 DEF Begun, AccessKnown, Stale
<1>4. /\ pics \subseteq Picture /\ MadeUpLast(pics)
      /\ \A p \in pics : p.poc = p.id - offset
      /\ \A p, q \in pics : p.id = q.id => p = q
  BY <1>2, <1>3 DEF PicsKnown
<1>5. /\ \E p \in pics : p.id = header.poc /\ p.referenced /\ ~p.longTerm
      /\ \A p \in pics : p.referenced =>
            p.id = header.poc \/ \E i \in 1..Len(header.rpl) : p.id = header.rpl[i].poc
      /\ ~(Entered /\ header.kind = "CRA") =>
            \A i \in 1..Len(header.rpl) :
               \E p \in pics : /\ Holds(p, header.rpl[i]) /\ p.longTerm = header.rpl[i].lt
                               /\ p.generated > 0 => header.kind = "GDR"
  BY <1>2, <1>3 DEF BegunKnown
<1>6. Done(pics) /\ Placed(pics)
  BY <1>4, <1>5 DEF Done, Placed
<1>7. ~(Entered /\ header.kind = "CRA") => \A i \in 1..Len(header.rpl) : Led(pics, i)
  BY <1>5 DEF Holds, Led
<1>8. \A i \in 1..header.active[slice] : Led(pics, i)
  <2>1. CASE header.kind = "CRA"
    <3>1. ~\E i \in 1..header.active[slice] : TRUE
      BY <1>1, <2>1
    <3> QED BY <3>1
  <2>2. CASE header.kind # "CRA"
    BY <1>1, <1>7, <2>2
  <2> QED BY <2>1, <2>2
<1>9. Checked = pics /\ LostPoc = 0
  BY <1>6, <1>8, LaterChecked
<1> QED BY <1>4, <1>6, <1>7, <1>9

\* A picture is made up only in a GDR picture that the decoder enters at.
LEMMA OnlyEntering ==
    ASSUME PocInv, RefsInv, phase = "check", LostPoc > 0
    PROVE  Entering /\ firstInSequence /\ Missing(Checked, ActiveEntries) # {}
<1>1. Missing(Checked, ActiveEntries) # {}
  <2>1. LostPoc # 0
    OBVIOUS
  <2> QED BY <2>1, NoneLost
<1>2. slice = 1
  BY BegunFacts
<1>3. ASSUME \/ \A i \in 1..Len(header.rpl) :
                   \E p \in pics : Holds(p, header.rpl[i]) /\ p.generated = 0
             \/ header.kind = "CRA" /\ Entered
      PROVE  FALSE
  <2>1. Ready(pics) /\ RefersApart(header)
    BY <1>2, FreshFacts
  <2>2. \A i \in 1..header.active[slice] : \E p \in pics : Holds(p, header.rpl[i])
    <3>1. /\ \A i \in 1..header.active[slice] : i \in 1..Len(header.rpl)
          /\ header.kind = "CRA" => header.active[slice] = 0
      BY ActiveFacts
    <3>2. header.kind = "CRA" => ~\E i \in 1..header.active[slice] : TRUE
      BY <3>1
    <3> QED BY <1>3, <3>1, <3>2
  <2>3. LostPoc = 0
    BY <2>1, <2>2, FirstChecked
  <2> QED BY <2>3
<1> QED BY <1>1, <1>2, <1>3, FreshFacts
-----------------------------------------------------------------------------
\* What a round of the search adds.
LEMMA RoundFacts ==
    ASSUME PocInv, RefsInv, InsertMissing
    PROVE  /\ Entering /\ firstInSequence /\ phase = "check" /\ phase' = "check"
           /\ pics' = pics \cup {MadeUp}
           /\ \E i \in 1..header.active[slice] :
                 /\ i \in Missing(pics, ActiveEntries) /\ i \in 1..Len(header.rpl)
                 /\ MadeUp \in Picture /\ MadeUp.id = header.rpl[i].poc
                 /\ MadeUp.poc = MadeUp.id - offset
                 /\ MadeUp.referenced /\ MadeUp.longTerm = header.rpl[i].lt
                 /\ MadeUp.generated > 0
                 /\ \A p \in pics : p.generated <= MadeUp.generated /\ p.id # MadeUp.id
           /\ UNCHANGED <<coded, dropping, header, slice, POC, rpl, firstInSequence,
                          noOutputBeforeRecovery, pocRandomAccess, lists, offset>>
<1>1. /\ phase = "check" /\ LostPoc > 0
      /\ IF MayBeUnavailable THEN pics' = Checked \cup {MadeUp} /\ phase' = phase
         ELSE phase' = "failed" /\ pics' = pics
      /\ UNCHANGED <<coded, dropping, header, slice, POC, rpl, firstInSequence,
                     noOutputBeforeRecovery, pocRandomAccess, lists, offset>>
  BY DEF InsertMissing
<1>2. Entering /\ firstInSequence /\ Missing(Checked, ActiveEntries) # {}
  BY <1>1, OnlyEntering
<1>3. MayBeUnavailable
  BY <1>2 DEF Entering, MayBeUnavailable, RandomAccess
<1>4. pics' = pics \cup {MadeUp} /\ phase' = "check"
  BY <1>1, <1>2, <1>3, EnteringChecked
<1>5. \E i \in 1..header.active[slice] :
         /\ i \in Missing(pics, ActiveEntries) /\ i \in 1..Len(header.rpl)
         /\ MadeUp \in Picture /\ MadeUp.id = header.rpl[i].poc
         /\ MadeUp.poc = MadeUp.id - offset
         /\ MadeUp.referenced /\ MadeUp.longTerm = header.rpl[i].lt
         /\ MadeUp.generated > 0
         /\ \A p \in pics : p.generated <= MadeUp.generated /\ p.id # MadeUp.id
  BY <1>1, <1>2, EnteringLost
<1> QED BY <1>1, <1>2, <1>4, <1>5

LEMMA RefsInsertMissing == PocInv /\ RefsInv /\ InsertMissing => RefsInv'
<1> SUFFICES ASSUME PocInv, RefsInv, InsertMissing PROVE RefsInv'
  OBVIOUS
<1> DEFINE m == MadeUp
<1>1. /\ Entering /\ firstInSequence /\ phase = "check" /\ phase' = "check"
      /\ pics' = pics \cup {m}
      /\ coded' = coded /\ dropping' = dropping /\ header' = header /\ slice' = slice
      /\ firstInSequence' = firstInSequence
      /\ noOutputBeforeRecovery' = noOutputBeforeRecovery
      /\ pocRandomAccess' = pocRandomAccess /\ lists' = lists /\ offset' = offset
  BY RoundFacts
<1>2. PICK i \in 1..Len(header.rpl) :
         /\ m \in Picture /\ m.id = header.rpl[i].poc
         /\ m.poc = m.id - offset
         /\ m.referenced /\ m.longTerm = header.rpl[i].lt
         /\ m.generated > 0
         /\ \A p \in pics : p.generated <= m.generated /\ p.id # m.id
  BY RoundFacts
<1> HIDE DEF m
<1>3. /\ DpbKnown(coded) /\ HeaderKnown /\ AccessKnown /\ PicsKnown
      /\ FreshKnown /\ BegunKnown /\ AsideKnown /\ ListsKnown
      /\ RefsResolved /\ NeverGivesUp
  BY DEF RefsInv
<1>4. /\ header.kind = "GDR" /\ slice = 1
      /\ \A p \in pics : \E j \in 1..Len(header.rpl) :
            Holds(p, header.rpl[j]) /\ p.longTerm = header.rpl[j].lt
      /\ \A p \in pics : p.id # header.poc
      /\ pics \subseteq Picture
      /\ \A p \in pics : p.poc = p.id - offset
      /\ \A p, q \in pics : p.id = q.id => p = q
  BY <1>1 DEF Entering, Ready, Placed
<1>5. RefersKnown(coded, header)
  BY <1>1, <1>3 DEF HeaderKnown, InPicture
<1>6. /\ m.id \in coded.used /\ m.id # header.poc
      /\ coded.irap.kind = "GDR"
      /\ \A d \in coded.dpb : d.poc # header.poc => d.class = "old"
  BY <1>2, <1>4, <1>5 DEF RefersKnown, Anchors
<1>7. DpbKnown(coded') /\ HeaderKnown' /\ ListsKnown' /\ NeverGivesUp'
  BY <1>1, <1>3 DEF HeaderKnown, RefersKnown, RefersApart, InPicture, ListsKnown, NeverGivesUp
<1>8. (Synced' <=> Synced) /\ (Entered' <=> Entered) /\ (Skips' <=> Skips) /\ ~Stale /\ ~Stale'
      /\ ~Begun /\ ~Begun' /\ ~Aside'
  BY <1>1, <1>4 DEF Synced, Entered, Skips, Stale, Begun, Aside
<1>9. AccessKnown'
  BY <1>1, <1>3, <1>8 DEF AccessKnown
<1>10. RefsResolved'
  BY <1>1, <1>3 DEF RefsResolved
<1>11. BegunKnown' /\ AsideKnown'
  BY <1>8 DEF BegunKnown, AsideKnown
<1>12. Synced
  BY <1>1 DEF PocInv, Joined
<1>13. PicsKnown'
  <2>1. pics' \subseteq Picture
    BY <1>1, <1>2, <1>4
  <2>2. MadeUpLast(pics')
    <3>1. m \in pics' /\ \A q \in pics' : q.generated <= m.generated
      <4>1. m.generated <= m.generated
        BY <1>2 DEF Picture
      <4> QED BY <1>1, <1>2, <4>1
    <3> QED BY <3>1 DEF MadeUpLast
  <2>3. \A p \in pics' : p.poc = p.id - offset /\ p.id \in coded.used
    BY <1>1, <1>2, <1>3, <1>6, <1>8 DEF PicsKnown
  <2>4. \A p, q \in pics' : p.id = q.id => p = q
    BY <1>1, <1>2, <1>4
  <2>5. \A p \in pics', d \in coded.dpb :
           p.generated > 0 /\ d.poc = p.id => d.class = "old" /\ coded.irap.kind = "GDR"
    BY <1>1, <1>4, <1>6
  <2> QED BY <1>1, <1>8, <1>12, <2>1, <2>2, <2>3, <2>4, <2>5 DEF PicsKnown
<1>14. FreshKnown'
  <2>1. \A p \in pics' : p.id # header.poc
    BY <1>1, <1>4, <1>6
  <2>2. \A p \in pics' : \E j \in 1..Len(header.rpl) :
           Holds(p, header.rpl[j]) /\ p.longTerm = header.rpl[j].lt
    <3>1. Holds(m, header.rpl[i]) /\ m.longTerm = header.rpl[i].lt
      BY <1>2 DEF Holds
    <3> QED BY <1>1, <1>4, <3>1
  <2> QED BY <1>1, <1>4, <2>1, <2>2 DEF FreshKnown
<1> QED BY <1>7, <1>9, <1>10, <1>11, <1>13, <1>14 DEF RefsInv
-----------------------------------------------------------------------------
\* The slice is activated: the pictures are as they should be.
LEMMA PresentFacts ==
    ASSUME PocInv, RefsInv, phase = "check", LostPoc <= 0
    PROVE  /\ Done(Present) /\ MadeUpLast(Present)
           /\ \A q \in Present :
                 \/ q.id = header.poc /\ q.generated = 0
                 \/ \E p \in pics : q.id = p.id /\ q.generated = p.generated
           /\ \/ \A i \in 1..Len(header.rpl) : Led(Present, i)
              \/ header.kind = "CRA" /\ Entered
<1>1. CASE slice # 1
  <2>1. Present = pics
    BY <1>1, BegunFacts DEF Present
  <2> QED BY <1>1, <2>1, BegunFacts
<1>2. CASE slice = 1
  <2>1. /\ Ready(pics) /\ MadeUpLast(pics) /\ RefersApart(header)
        /\ \/ \A i \in 1..Len(header.rpl) :
                 \E p \in pics : Holds(p, header.rpl[i]) /\ p.generated = 0
           \/ header.kind = "CRA" /\ Entered
           \/ Entering /\ firstInSequence
    BY <1>2, FreshFacts
  <2>2. /\ CurrentPicture \in Present
        /\ \A q \in Present : q = CurrentPicture \/ \E p \in pics : Settled(p, q)
        /\ \A p \in pics : \E q \in Present : Settled(p, q)
        /\ Placed(Present) /\ MadeUpLast(Present)
    BY <1>2, <2>1, FirstMarks
  <2>3. /\ CurrentPicture.id = header.poc /\ CurrentPicture.referenced
        /\ CurrentPicture.longTerm = FALSE /\ CurrentPicture.generated = 0
    BY DEF CurrentPicture
  <2> HIDE DEF Present, CurrentPicture
  <2>4. \A q \in Present : q.referenced =>
           q.id = header.poc \/ \E i \in 1..Len(header.rpl) : q.id = header.rpl[i].poc
    BY <2>2, <2>3 DEF Settled
  <2>5. Done(Present)
    BY <2>2, <2>3, <2>4 DEF Done
  <2>6. \A q \in Present :
           \/ q.id = header.poc /\ q.generated = 0
           \/ \E p \in pics : q.id = p.id /\ q.generated = p.generated
    BY <2>2, <2>3 DEF Settled
  <2>7. ASSUME NEW i \in 1..Len(header.rpl), NEW p \in pics, Holds(p, header.rpl[i]),
               p.generated > 0 => header.kind = "GDR"
        PROVE  Led(Present, i)
    <3>1. PICK q \in Present : Settled(p, q)
      BY <2>2
    <3>2. p.referenced /\ p.id = header.rpl[i].poc
      BY <2>7 DEF Holds
    <3>3. q.referenced /\ q.longTerm = header.rpl[i].lt /\ q.id = p.id /\ q.generated = p.generated
      BY <3>1, <3>2 DEF Settled
    <3> QED BY <2>7, <3>2, <3>3 DEF Led
  <2>8. CASE \A i \in 1..Len(header.rpl) :
                \E p \in pics : Holds(p, header.rpl[i]) /\ p.generated = 0
    <3>1. \A i \in 1..Len(header.rpl) : Led(Present, i)
      BY <2>7, <2>8
    <3> QED BY <2>2, <2>5, <2>6, <3>1
  <2>9. CASE header.kind = "CRA" /\ Entered
    BY <2>2, <2>5, <2>6, <2>9
  <2>10. CASE Entering
    <3>1. Missing(Checked, ActiveEntries) = {}
      <4>1. SUFFICES ASSUME Missing(Checked, ActiveEntries) # {} PROVE FALSE
        OBVIOUS
      <4>2. \E i \in 1..header.active[slice] : LostPoc > 0
        BY <2>10, <4>1, EnteringLost
      <4>3. LostPoc > 0 /\ LostPoc <= 0
        BY <4>2
      <4>4. LostPoc \in Int
        BY <2>10, <4>3, LostPocSound DEF Entering, MayBeUnavailable, RandomAccess
      <4> QED BY <4>3, <4>4
    <3>2. \A i \in 1..Len(header.rpl) : \E p \in pics :
             Holds(p, header.rpl[i]) /\ p.longTerm = header.rpl[i].lt
      BY <2>10, <3>1, EnteringFound
    <3>3. header.kind = "GDR"
      BY <2>10 DEF Entering
    <3>4. \A i \in 1..Len(header.rpl) : Led(Present, i)
      BY <2>7, <3>2, <3>3
    <3> QED BY <2>2, <2>5, <2>6, <3>4
  <2> QED BY <2>1, <2>8, <2>9, <2>10
<1> QED BY <1>1, <1>2
-----------------------------------------------------------------------------
LEMMA RefsActivate == PocInv /\ RefsInv /\ Activate => RefsInv'
<1> SUFFICES ASSUME PocInv, RefsInv, Activate PROVE RefsInv'
  OBVIOUS
<1> DEFINE L == Present
           N == Len(header.rpl)
           a == header.active[slice]
<1>1. /\ phase = "check" /\ LostPoc <= 0
      /\ pics' = Constructed(L)
      /\ lists' = [i \in DOMAIN ActiveEntries |-> Candidates(Constructed(L), rpl[i])]
      /\ phase' = IF NullPointer(L) THEN "failed" ELSE "decode"
      /\ firstInSequence' = FALSE
      /\ coded' = coded /\ dropping' = dropping /\ header' = header /\ slice' = slice
      /\ noOutputBeforeRecovery' = noOutputBeforeRecovery
      /\ pocRandomAccess' = pocRandomAccess /\ offset' = offset
  BY DEF Activate
<1>2. /\ Done(L) /\ MadeUpLast(L)
      /\ \A q \in L :
            \/ q.id = header.poc /\ q.generated = 0
            \/ \E p \in pics : q.id = p.id /\ q.generated = p.generated
      /\ \/ \A i \in 1..N : Led(L, i)
         \/ header.kind = "CRA" /\ Entered
  BY <1>1, PresentFacts
<1>3. /\ DpbKnown(coded) /\ HeaderKnown /\ AccessKnown /\ PicsKnown
      /\ FreshKnown /\ BegunKnown /\ AsideKnown /\ ListsKnown
      /\ RefersApart(header) /\ RefersKnown(coded, header)
  BY <1>1 DEF RefsInv, HeaderKnown, InPicture
<1>4. /\ \A i \in 1..N : header.rpl[i].poc # header.poc
      /\ header.kind = "CRA" => \A i \in 1..N : ~header.rpl[i].lt
      /\ header.poc \in coded.used
  BY <1>3 DEF RefersKnown
<1> HIDE DEF L
<1>5. /\ Constructed(L) = L
      /\ ~NullPointer(L)
      /\ \A i \in 1..a :
            \E p \in L : /\ Candidates(L, rpl[i]) = {p}
                         /\ p.id = header.rpl[i].poc /\ p.referenced
                         /\ p.longTerm = header.rpl[i].lt
                         /\ p.generated > 0 => header.kind = "GDR"
  BY <1>1, <1>2, <1>3, <1>4, ListFilled
<1>6. /\ phase' = "decode" /\ pics' = L
      /\ lists' = [i \in 1..a |-> Candidates(L, rpl[i])]
  BY <1>1, <1>5, ActiveFacts
<1>7. /\ (Synced' <=> Synced) /\ (Entered' <=> Entered) /\ (Skips' <=> Skips)
      /\ ~Stale /\ ~Stale' /\ Begun' /\ ~Fresh' /\ ~Aside' /\ ~Skips
  BY <1>1, <1>3, <1>6 DEF Synced, Entered, Skips, Stale, Begun, Aside, Fresh, AccessKnown
<1>8. Synced
  BY <1>1 DEF PocInv, Joined
<1>9. /\ L \subseteq Picture
      /\ \A p \in L : p.poc = p.id - offset
      /\ \A p, q \in L : p.id = q.id => p = q
      /\ \E p \in L : p.id = header.poc /\ p.referenced /\ ~p.longTerm
      /\ \A p \in L : p.referenced =>
            p.id = header.poc \/ \E i \in 1..N : p.id = header.rpl[i].poc
  BY <1>2 DEF Done, Placed
<1>10. DpbKnown(coded') /\ HeaderKnown' /\ ListsKnown' /\ NeverGivesUp'
  BY <1>1, <1>3, <1>6 DEF HeaderKnown, RefersKnown, RefersApart, InPicture, ListsKnown, NeverGivesUp
<1>11. AccessKnown'
  BY <1>1, <1>3, <1>6, <1>7 DEF AccessKnown
<1>12. RefsResolved'
  <2>1. ASSUME NEW i \in 1..a
        PROVE  \E p \in lists'[i] : /\ lists'[i] = {p} /\ p.id = header.rpl[i].poc
                                    /\ p.longTerm = header.rpl[i].lt /\ p.referenced
                                    /\ p.generated > 0 => header.kind = "GDR"
    <3>1. lists'[i] = Candidates(L, rpl[i])
      BY <1>6
    <3> QED BY <1>5, <3>1
  <2>2. DOMAIN lists' = 1..a
    BY <1>6
  <2> QED BY <1>1, <2>1, <2>2 DEF RefsResolved
<1>13. PicsKnown'
  <2>1. \A p \in pics : p.id \in coded.used
    BY <1>3, <1>7 DEF PicsKnown
  <2>2. \A p \in L : p.id \in coded.used
    BY <1>2, <1>4, <2>1
  <2>3. \A p \in pics, d \in coded.dpb :
           p.generated > 0 /\ d.poc = p.id => d.class = "old" /\ coded.irap.kind = "GDR"
    BY <1>3, <1>7 DEF PicsKnown
  <2>4. \A p \in L, d \in coded.dpb :
           p.generated > 0 /\ d.poc = p.id => d.class = "old" /\ coded.irap.kind = "GDR"
    BY <1>2, <2>3
  <2> QED BY <1>1, <1>2, <1>6, <1>7, <1>8, <1>9, <2>2, <2>4 DEF PicsKnown
<1>14. FreshKnown' /\ AsideKnown'
  BY <1>7 DEF FreshKnown, AsideKnown
<1>15. BegunKnown'
  <2>1. ~(Entered /\ header.kind = "CRA") =>
            \A i \in 1..N :
               \E p \in L : /\ Holds(p, header.rpl[i]) /\ p.longTerm = header.rpl[i].lt
                            /\ p.generated > 0 => header.kind = "GDR"
    BY <1>2 DEF Led, Holds
  <2> QED BY <1>1, <1>6, <1>7, <1>8, <1>9, <2>1 DEF BegunKnown
<1> QED BY <1>10, <1>11, <1>12, <1>13, <1>14, <1>15 DEF RefsInv

\* The slice is done with.
LEMMA RefsDecodeSlice == PocInv /\ RefsInv /\ DecodeSlice => RefsInv'
<1> SUFFICES ASSUME PocInv, RefsInv, DecodeSlice PROVE RefsInv'
  OBVIOUS
<1>1. /\ phase = "decode" /\ EndSlice
      /\ coded' = coded /\ dropping' = dropping
      /\ firstInSequence' = firstInSequence
      /\ pocRandomAccess' = pocRandomAccess /\ pics' = pics /\ offset' = offset
  BY DEF DecodeSlice
<1>2. /\ HeaderSound(coded, header) /\ slice \in 1..Len(header.active)
  BY <1>1 DEF PocInv, PictureSound, InPicture
<1>3. /\ phase' \in {"slice", "idle"}
      /\ phase' = "slice" => header' = header /\ slice' > 1
      /\ lists' = <<>>
  BY <1>1, <1>2, EndSliceSound DEF EndSlice
<1>4. /\ DpbKnown(coded) /\ HeaderKnown /\ AccessKnown /\ PicsKnown
      /\ FreshKnown /\ BegunKnown /\ AsideKnown /\ ListsKnown
      /\ RefersApart(header) /\ RefersKnown(coded, header)
  BY <1>1 DEF RefsInv, HeaderKnown, InPicture
<1>5. Begun /\ ~Stale /\ ~Skips
  BY <1>1, <1>4 DEF Begun, Stale, AccessKnown
<1>6. (Synced' <=> Synced) /\ (Entered' <=> Entered)
  BY <1>1 DEF Synced, Entered
<1>7. /\ ~firstInSequence /\ Synced
      /\ \E p \in pics : p.id = header.poc /\ p.referenced /\ ~p.longTerm
      /\ \A p \in pics : p.referenced =>
            p.id = header.poc \/ \E i \in 1..Len(header.rpl) : p.id = header.rpl[i].poc
      /\ ~(Entered /\ header.kind = "CRA") =>
            \A i \in 1..Len(header.rpl) :
               \E p \in pics : /\ Holds(p, header.rpl[i]) /\ p.longTerm = header.rpl[i].lt
                               /\ p.generated > 0 => header.kind = "GDR"
  BY <1>4, <1>5 DEF BegunKnown
<1>8. ListsKnown' /\ RefsResolved' /\ NeverGivesUp' /\ DpbKnown(coded')
  <2>1. DOMAIN <<>> = {}
    OBVIOUS
  <2> QED BY <1>1, <1>3, <1>4, <2>1 DEF ListsKnown, RefsResolved, NeverGivesUp
<1>9. CASE phase' = "slice"
  <2>1. /\ header' = header /\ slice' > 1
    BY <1>3, <1>9
  <2>2. /\ ~Skips' /\ Begun' /\ ~Fresh' /\ ~Aside' /\ ~Stale'
    <3>1. slice' # 1
      BY <2>1
    <3> QED BY <1>5, <1>6, <1>9, <2>1, <3>1 DEF Skips, Begun, Fresh, Aside, Stale, Synced
  <2>3. HeaderKnown'
    BY <1>1, <1>4, <2>1 DEF HeaderKnown, RefersKnown, RefersApart, InPicture
  <2>4. AccessKnown'
    BY <1>1, <1>4, <1>5, <1>6, <1>7, <1>9, <2>1, <2>2 DEF AccessKnown
  <2>5. PicsKnown'
    BY <1>1, <1>4, <1>5, <1>6, <2>2 DEF PicsKnown
  <2>6. BegunKnown'
    BY <1>1, <1>6, <1>7, <2>1 DEF BegunKnown
  <2>7. FreshKnown' /\ AsideKnown'
    BY <2>2 DEF FreshKnown, AsideKnown
  <2> QED BY <1>8, <2>3, <2>4, <2>5, <2>6, <2>7 DEF RefsInv
<1>10. CASE phase' = "idle"
  <2>1. ~Begun' /\ ~Fresh' /\ Aside' /\ ~Stale'
    BY <1>10 DEF Begun, Fresh, Aside, Stale
  <2>2. HeaderKnown'
    BY <1>10 DEF HeaderKnown, InPicture
  <2>3. AccessKnown'
    BY <1>1, <1>4, <1>5, <1>6, <1>7, <1>10, <2>1 DEF AccessKnown
  <2>4. PicsKnown'
    BY <1>1, <1>4, <1>5, <1>6, <2>1 DEF PicsKnown
  <2>5. FreshKnown' /\ BegunKnown'
    BY <2>1 DEF FreshKnown, BegunKnown
  <2>6. ASSUME NEW d \in coded.dpb, d.class \in {"rasl", "old"} => ~Entered
        PROVE  \E p \in pics : p.id = d.poc /\ p.referenced /\ (p.longTerm => d.lt)
    <3>1. \/ d.poc = header.poc /\ ~d.lt
          \/ \E i \in 1..Len(header.rpl) :
                /\ d.poc = header.rpl[i].poc /\ d.lt = header.rpl[i].lt
                /\ header.kind \in Anchors => d.class = "old"
      BY <1>4 DEF RefersKnown
    <3>2. CASE d.poc = header.poc /\ ~d.lt
      BY <1>7, <3>2
    <3>3. CASE \E i \in 1..Len(header.rpl) :
                  /\ d.poc = header.rpl[i].poc /\ d.lt = header.rpl[i].lt
                  /\ header.kind \in Anchors => d.class = "old"
      <4>1. PICK i \in 1..Len(header.rpl) :
                  /\ d.poc = header.rpl[i].poc /\ d.lt = header.rpl[i].lt
                  /\ header.kind \in Anchors => d.class = "old"
        BY <3>3
      <4>2. ~(Entered /\ header.kind = "CRA")
        BY <2>6, <4>1 DEF Anchors
      <4>3. PICK p \in pics : Holds(p, header.rpl[i]) /\ p.longTerm = header.rpl[i].lt
        BY <1>7, <4>2
      <4> QED BY <4>1, <4>3 DEF Holds
    <3> QED BY <3>1, <3>2, <3>3
  <2>7. \A p \in pics : p.referenced => p.id \in coded.recent
    BY <1>4, <1>7 DEF RefersKnown
  <2>8. AsideKnown'
    BY <1>1, <1>6, <2>6, <2>7 DEF AsideKnown, Available
  <2> QED BY <1>8, <2>2, <2>3, <2>4, <2>5, <2>8 DEF RefsInv
<1> QED BY <1>3, <1>9, <1>10
-----------------------------------------------------------------------------
\* The POC of a random access picture that the decoder enters at is its LSBs.
LEMMA EntryPoc ==
    ASSUME PocInv, phase = "slice", header.kind \in RandomAccess, firstInSequence
    PROVE  SlicePoc(header) = Lsb(header.poc) /\ Lsb(header.poc) \in 0..MaxPoc
<1> DEFINE parsed == ParsedPoc(header.kind, Lsb(header.poc))
<1>1. prevTid0POC \in Int /\ HeaderSound(coded, header) /\ MaxPoc \in Nat
  BY ReferenceAssumption DEF PocInv, PocTypes, PictureSound, InPicture
<1>2. header.poc \in 0..MaxPoc /\ header.poc \in Int /\ header.poc >= 0
  BY <1>1 DEF HeaderSound
<1>3. Lsb(header.poc) \in 0..(MaxPocLsb - 1) /\ Lsb(header.poc) <= header.poc
  BY <1>2, LsbFacts
<1>4. Lsb(parsed) = Lsb(header.poc)
  BY <1>1, <1>3, ParsedLsb
<1> HIDE DEF parsed
<1>5. LastNoOutputBeforeRecovery(header)
  BY DEF LastNoOutputBeforeRecovery, NoOutputBeforeRecovery, RandomAccess, Anchors
<1>6. SlicePoc(header) = Lsb(header.poc)
  BY <1>4, <1>5 DEF SlicePoc, parsed
<1>7. Lsb(header.poc) \in 0..MaxPoc
  <2>1. MaxPocLsb \in Nat
    BY LsbRange
  <2> QED BY <1>1, <1>2, <1>3, <2>1
<1> QED BY <1>6, <1>7

\* What a slice header does to the point where the decoder entered.
LEMMA AccessAfter ==
    ASSUME PocInv, RefsInv, phase = "slice"
    PROVE  /\ firstInSequence => ~Synced
           /\ header.kind \notin Anchors =>
                 PocRandomAccess(header) = pocRandomAccess /\ NewOffset = offset
           /\ header.kind \in RandomAccess /\ ~firstInSequence =>
                 PocRandomAccess(header) = pocRandomAccess /\ NewOffset = offset /\ Synced
           /\ header.kind \in RandomAccess /\ firstInSequence =>
                 /\ PocRandomAccess(header) \in 0..MaxPoc
                 /\ NewOffset \in 0..MaxPoc
                 /\ PocRandomAccess(header) + NewOffset = header.poc
           /\ header.kind = "IDR" => PocRandomAccess(header) = Always /\ NewOffset = 0
<1>1. AccessKnown /\ Joined /\ HeaderSound(coded, header) /\ MaxPoc \in Nat
  BY ReferenceAssumption DEF RefsInv, PocInv, PictureSound, InPicture
<1>2. firstInSequence => ~Synced
  BY <1>1 DEF AccessKnown
<1>3. ~firstInSequence => Synced
  BY <1>1 DEF Joined, Synced
<1>4. header.kind \notin Anchors =>
         PocRandomAccess(header) = pocRandomAccess /\ NewOffset = offset
  BY ReadPoc
<1>5. header.kind \in RandomAccess /\ ~firstInSequence =>
         PocRandomAccess(header) = pocRandomAccess /\ NewOffset = offset /\ Synced
  BY <1>3 DEF PocRandomAccess, NewOffset, Synced, RandomAccess
<1>6. header.kind = "IDR" => PocRandomAccess(header) = Always /\ NewOffset = 0
  BY DEF PocRandomAccess, NewOffset
<1>7. ASSUME header.kind \in RandomAccess, firstInSequence
      PROVE  /\ PocRandomAccess(header) \in 0..MaxPoc
             /\ NewOffset \in 0..MaxPoc
             /\ PocRandomAccess(header) + NewOffset = header.poc
  <2>1. SlicePoc(header) = Lsb(header.poc) /\ Lsb(header.poc) \in 0..MaxPoc
    BY <1>7, EntryPoc
  <2>2. PocRandomAccess(header) = SlicePoc(header)
    BY <1>2, <1>7 DEF PocRandomAccess, Synced, RandomAccess
  <2>3. NewOffset = Msb(header.poc)
    BY <1>7 DEF NewOffset, RandomAccess
  <2>4. header.poc \in 0..MaxPoc /\ header.poc \in Int /\ header.poc >= 0
    BY <1>1 DEF HeaderSound
  <2>5. /\ header.poc = Msb(header.poc) + Lsb(header.poc) /\ Msb(header.poc) \in Int
        /\ Lsb(header.poc) <= header.poc
    BY <2>4, LsbFacts
  <2> QED BY <1>1, <2>1, <2>2, <2>3, <2>4, <2>5
<1> QED BY <1>2, <1>4, <1>5, <1>6, <1>7

\* The decoder skips what it should (isRandomAccessSkipPicture): nothing before
\* it entered, and the RASL pictures of the CRA picture that it entered at.
LEMMA SkipsRight ==
    ASSUME PocInv, RefsInv, phase = "slice"
    PROVE  Skipped(header) <=> Skips
<1>1. /\ AccessKnown /\ HeaderKnown /\ HeaderSound(coded, header) /\ MaxPoc \in Nat
      /\ offset \in Int /\ coded \in Coding
  BY ReferenceAssumption DEF RefsInv, PocInv, PictureSound, InPicture, PocTypes
<1>2. /\ firstInSequence => ~Synced
      /\ header.kind \notin Anchors =>
            PocRandomAccess(header) = pocRandomAccess /\ NewOffset = offset
      /\ header.kind \in RandomAccess /\ ~firstInSequence =>
            PocRandomAccess(header) = pocRandomAccess /\ Synced
      /\ header.kind \in RandomAccess /\ firstInSequence =>
            PocRandomAccess(header) \in 0..MaxPoc
      /\ header.kind = "IDR" => PocRandomAccess(header) = Always
  BY AccessAfter
<1>3. Always # None /\ None \notin 0..MaxPoc /\ None = MaxPoc + 1 /\ Always = -(MaxPoc + 1)
  BY <1>1 DEF Always, None
<1>4. CASE header.kind \in Anchors
  <2>1. PocRandomAccess(header) # None
    BY <1>2, <1>3, <1>4 DEF Anchors, RandomAccess, Synced
  <2>2. header.kind # "RASL"
    BY <1>4 DEF Anchors
  <2> QED BY <1>4, <2>1, <2>2 DEF Skipped, Skips
<1>5. CASE header.kind \notin Anchors /\ header.kind # "RASL"
  <2>1. Skipped(header) <=> pocRandomAccess = None
    BY <1>2, <1>5 DEF Skipped
  <2> QED BY <1>5, <2>1 DEF Skips, Synced
<1>6. CASE header.kind = "RASL" /\ ~Synced
  <2>1. header.kind \notin Anchors /\ pocRandomAccess = None
    BY <1>6 DEF Anchors, Synced
  <2> QED BY <1>2, <1>6, <2>1 DEF Skipped, Skips
<1>7. CASE header.kind = "RASL" /\ Synced
  <2>1. header.kind \notin Anchors /\ pocRandomAccess # None /\ ~Stale
    BY <1>7 DEF Anchors, Synced, Stale
  <2>2. SlicePoc(header) = header.poc - offset
    BY <1>2, <2>1, ReadPoc
  <2>3. Skipped(header) <=> header.poc - offset < pocRandomAccess
    BY <1>2, <1>7, <2>1, <2>2 DEF Skipped
  <2>4. Skips <=> Entered
    BY <1>7, <2>1 DEF Skips
  <2>5. coded.before < header.poc /\ header.poc < coded.irap.poc
    BY <1>1, <1>7 DEF HeaderKnown, RefersKnown, InPicture
  <2>6. /\ offset \in 0..MaxPoc /\ pocRandomAccess \in Int
        /\ pocRandomAccess # Always =>
              \/ coded.irap.poc = pocRandomAccess + offset
              \/ pocRandomAccess + offset <= coded.before
    BY <1>1, <1>7, <2>1 DEF AccessKnown
  <2>7. header.poc \in 0..MaxPoc /\ coded.irap.poc \in 0..MaxPoc /\ coded.before \in -1..MaxPoc
    BY <1>1 DEF HeaderSound, Coding
  <2>8. CASE pocRandomAccess = Always
    <3>1. ~(header.poc - offset < pocRandomAccess)
      BY <1>1, <1>3, <2>6, <2>7, <2>8
    <3> QED BY <2>3, <2>4, <2>8, <3>1 DEF Entered
  <2>9. CASE pocRandomAccess # Always
    <3>1. header.poc - offset < pocRandomAccess <=> coded.irap.poc = pocRandomAccess + offset
      BY <1>1, <2>5, <2>6, <2>7, <2>9
    <3> QED BY <2>3, <2>4, <2>9, <3>1 DEF Entered
  <2> QED BY <2>8, <2>9
<1> QED BY <1>4, <1>5, <1>6, <1>7
-----------------------------------------------------------------------------
LEMMA RefsReadSlice == PocInv /\ RefsInv /\ ReadSlice => RefsInv'
<1> SUFFICES ASSUME PocInv, RefsInv, ReadSlice PROVE RefsInv'
  OBVIOUS
<1>1. /\ phase = "slice"
      /\ noOutputBeforeRecovery' = NoOutputBeforeRecovery(header)
      /\ pocRandomAccess' = PocRandomAccess(header)
      /\ offset' = NewOffset
      /\ pics' = IF header.kind = "IDR" /\ slice = 1 THEN {} ELSE pics
      /\ coded' = coded /\ dropping' = dropping /\ firstInSequence' = firstInSequence
      /\ IF Skipped(header) THEN EndSlice
         ELSE /\ phase' = "check"
              /\ header' = header /\ slice' = slice /\ lists' = lists
  BY DEF ReadSlice, NewOffset
<1>2. /\ HeaderSound(coded, header) /\ slice \in 1..Len(header.active)
      /\ slice \in Nat /\ slice >= 1 /\ MaxPoc \in Nat /\ offset \in Int
  <2>1. /\ HeaderSound(coded, header) /\ slice \in 1..Len(header.active)
        /\ MaxPoc \in Nat /\ offset \in Int
    BY <1>1, ReferenceAssumption DEF PocInv, PictureSound, InPicture, PocTypes
  <2>2. Len(header.active) \in Nat
    <3>1. header.active \in Seq(Nat)
      BY <2>1 DEF HeaderSound
    <3> QED BY <3>1
  <2>3. slice \in Nat /\ slice >= 1
    BY <2>1, <2>2
  <2> QED BY <2>1, <2>3
<1>3. /\ DpbKnown(coded) /\ HeaderKnown /\ AccessKnown /\ PicsKnown
      /\ FreshKnown /\ BegunKnown /\ AsideKnown /\ ListsKnown
      /\ RefsResolved /\ NeverGivesUp
      /\ RefersApart(header) /\ RefersKnown(coded, header)
  BY <1>1 DEF RefsInv, HeaderKnown, InPicture
<1>4. /\ firstInSequence => ~Synced
      /\ header.kind \notin Anchors =>
            PocRandomAccess(header) = pocRandomAccess /\ NewOffset = offset
      /\ header.kind \in RandomAccess /\ ~firstInSequence =>
            PocRandomAccess(header) = pocRandomAccess /\ NewOffset = offset /\ Synced
      /\ header.kind \in RandomAccess /\ firstInSequence =>
            /\ PocRandomAccess(header) \in 0..MaxPoc
            /\ NewOffset \in 0..MaxPoc
            /\ PocRandomAccess(header) + NewOffset = header.poc
      /\ header.kind = "IDR" => PocRandomAccess(header) = Always /\ NewOffset = 0
  BY <1>1, AccessAfter
<1>5. Skipped(header) <=> Skips
  BY <1>1, SkipsRight
<1>6. lists = <<>> /\ DOMAIN <<>> = {}
  BY <1>1, <1>3 DEF ListsKnown
<1>7. CASE Skips
  <2>1. /\ header.kind \notin Anchors /\ EndSlice
        /\ pocRandomAccess' = pocRandomAccess /\ offset' = offset /\ pics' = pics
    BY <1>1, <1>4, <1>5, <1>7 DEF Skips, Anchors
  <2>2. /\ phase' \in {"slice", "idle"}
        /\ phase' = "slice" => header' = header /\ slice' > 1
        /\ lists' = <<>>
    BY <1>1, <1>2, <2>1, EndSliceSound DEF EndSlice
  <2>3. (Synced' <=> Synced) /\ (Entered' <=> Entered)
    BY <1>1, <2>1 DEF Synced, Entered
  <2>4. ~Begun /\ ~Fresh /\ Aside /\ ~Stale /\ header.kind # "IDR"
    BY <1>1, <1>7, <2>1 DEF Begun, Fresh, Aside, Stale, Anchors
  <2>5. ListsKnown' /\ RefsResolved' /\ NeverGivesUp' /\ DpbKnown(coded')
    BY <1>1, <1>3, <1>6, <2>2 DEF ListsKnown, RefsResolved, NeverGivesUp
  <2>6. HeaderKnown'
    BY <1>1, <1>3, <2>2 DEF HeaderKnown, RefersKnown, RefersApart, InPicture
  <2>7. ~Begun' /\ ~Fresh' /\ Aside' /\ ~Stale'
    <3>1. CASE phase' = "slice"
      <4>1. slice' # 1 /\ Skips'
        BY <1>7, <2>2, <2>3, <3>1 DEF Skips
      <4> QED BY <3>1, <4>1 DEF Begun, Fresh, Aside, Stale
    <3>2. CASE phase' = "idle"
      BY <3>2 DEF Begun, Fresh, Aside, Stale
    <3> QED BY <2>2, <3>1, <3>2
  <2>8. AccessKnown'
    BY <1>1, <1>3, <1>4, <2>1, <2>2, <2>3, <2>4, <2>7 DEF AccessKnown
  <2>9. PicsKnown'
    BY <1>1, <1>3, <2>1, <2>3, <2>4, <2>7 DEF PicsKnown
  <2>10. FreshKnown' /\ BegunKnown'
    BY <2>7 DEF FreshKnown, BegunKnown
  <2>11. AsideKnown'
    BY <1>1, <1>3, <2>1, <2>3, <2>4, <2>7 DEF AsideKnown, Available
  <2> QED BY <2>5, <2>6, <2>8, <2>9, <2>10, <2>11 DEF RefsInv
<1>8. CASE ~Skips
  <2>1. phase' = "check" /\ header' = header /\ slice' = slice /\ lists' = lists
    BY <1>1, <1>5, <1>8
  <2>2. slice # 1 => Begun
    BY <1>1, <1>2, <1>8 DEF Begun
  <2>3. slice = 1 => Fresh
    BY <1>1, <1>8 DEF Fresh
  <2>4. Begun => ~firstInSequence /\ Synced
    BY <1>3 DEF BegunKnown
  <2>5. firstInSequence => slice = 1 /\ header.kind \in Anchors
    <3>1. header.kind \notin Anchors => Synced
      BY <1>8 DEF Skips
    <3> QED BY <1>4, <2>2, <2>4, <3>1
  <2>6. Synced'
    <3>1. Joined'
      BY PocReadSlice DEF PocInv
    <3> QED BY <2>1, <3>1 DEF Joined
  <2>7. /\ ~Stale' /\ ~Aside'
        /\ header.kind \notin Anchors => (Entered' <=> Entered)
    BY <1>1, <1>4, <2>1 DEF Stale, Aside, Entered
  <2>8. ~Skips'
    BY <1>8, <2>1, <2>6, <2>7 DEF Skips
  <2>9. /\ Begun' <=> slice # 1
        /\ Fresh' <=> slice = 1
    BY <1>2, <2>1, <2>8 DEF Begun, Fresh
  <2>10. DpbKnown(coded') /\ HeaderKnown' /\ ListsKnown' /\ RefsResolved' /\ NeverGivesUp'
    BY <1>1, <1>3, <1>6, <2>1 DEF HeaderKnown, RefersKnown, RefersApart, InPicture, ListsKnown,
       RefsResolved, NeverGivesUp
  <2>11. header.kind \in RandomAccess /\ firstInSequence => Entered'
    <3> SUFFICES ASSUME header.kind \in RandomAccess, firstInSequence PROVE Entered'
      OBVIOUS
    <3>1. coded.irap = [kind |-> header.kind, poc |-> header.poc]
      BY <1>3 DEF RefersKnown, RandomAccess, Anchors
    <3>2. pocRandomAccess' \in 0..MaxPoc /\ pocRandomAccess' + offset' = header.poc
      BY <1>1, <1>4
    <3>3. pocRandomAccess' # Always
      BY <1>2, <3>2 DEF Always, None
    <3> QED BY <1>1, <3>1, <3>2, <3>3 DEF Entered
  <2>12. AccessKnown'
    <3>1. pocRandomAccess' \in Int /\ offset' \in 0..MaxPoc
      <4>1. pocRandomAccess \in Int /\ offset \in 0..MaxPoc /\ Always \in Int
        BY <1>2, <1>3 DEF AccessKnown, Always, None
      <4> QED BY <1>1, <1>2, <1>4, <4>1 DEF Anchors, RandomAccess
    <3>2. header.kind = "IDR" => offset' = 0
      BY <1>1, <1>4
    <3>3. pocRandomAccess' # Always =>
              \/ coded.irap.poc = pocRandomAccess' + offset'
              \/ pocRandomAccess' + offset' <= coded.before
      <4>1. CASE header.kind = "IDR"
        BY <1>1, <1>4, <4>1
      <4>2. CASE header.kind \in RandomAccess /\ firstInSequence
        BY <1>1, <2>11, <4>2 DEF Entered
      <4>3. CASE header.kind # "IDR" /\ ~(header.kind \in RandomAccess /\ firstInSequence)
        <5>1. pocRandomAccess' = pocRandomAccess /\ offset' = offset
          BY <1>1, <1>4, <4>3 DEF Anchors, RandomAccess
        <5>2. Synced /\ ~Stale
          BY <2>6, <4>3, <5>1 DEF Synced, Stale
        <5> QED BY <1>3, <5>1, <5>2 DEF AccessKnown
      <4> QED BY <4>1, <4>2, <4>3
    <3>4. firstInSequence' => phase' = "check" /\ slice' = 1 /\ header'.kind \in Anchors
      BY <1>1, <2>1, <2>5
    <3>5. header.kind \in RandomAccess => (noOutputBeforeRecovery' <=> firstInSequence)
      BY <1>1 DEF NoOutputBeforeRecovery, RandomAccess, Anchors
    <3>6. firstInSequence' /\ header'.kind \in RandomAccess => Entered'
      BY <1>1, <2>1, <2>11
    <3> QED BY <1>1, <2>1, <2>8, <3>1, <3>2, <3>3, <3>4, <3>5, <3>6 DEF AccessKnown
  <2>13. /\ pics' = pics \/ (pics' = {} /\ header.kind = "IDR" /\ slice = 1)
         /\ pics' # {} => offset' = offset /\ pics' = pics /\ ~Stale
    <3>1. ~Synced => pics = {}
      BY <1>3 DEF PicsKnown
    <3>2. CASE header.kind = "IDR" /\ slice = 1
      BY <1>1, <3>2
    <3>3. CASE header.kind = "IDR" /\ slice # 1
      <4>1. offset = 0 /\ ~Stale
        BY <1>3, <2>2, <3>3 DEF AccessKnown, Stale
      <4> QED BY <1>1, <1>4, <3>3, <4>1
    <3>4. CASE header.kind # "IDR"
      <4>1. pics' = pics /\ ~Stale
        BY <1>1, <3>4 DEF Stale
      <4>2. CASE firstInSequence
        BY <1>4, <3>1, <4>1, <4>2
      <4>3. CASE ~firstInSequence
        BY <1>1, <1>4, <3>4, <4>1, <4>3 DEF Anchors, RandomAccess
      <4> QED BY <4>1, <4>2, <4>3
    <3> QED BY <3>2, <3>3, <3>4
  <2>14. PicsKnown'
    <3>1. CASE pics' = {}
      BY <2>6, <3>1 DEF PicsKnown, MadeUpLast
    <3>2. CASE pics' # {}
      <4>1. offset' = offset /\ pics' = pics /\ ~Stale
        BY <2>13, <3>2
      <4> QED BY <1>1, <1>3, <2>6, <2>7, <4>1 DEF PicsKnown
    <3> QED BY <3>1, <3>2
  <2>15. FreshKnown'
    <3> SUFFICES ASSUME Fresh' PROVE FreshKnown'
      BY DEF FreshKnown
    <3>1. Fresh /\ slice = 1
      BY <2>3, <2>9
    <3>2. \A p \in pics' : p.id # header.poc
      BY <1>3, <2>13, <3>1 DEF FreshKnown
    <3>3. firstInSequence => pics = {} /\ pics' = {}
      BY <1>3, <1>4, <2>13 DEF PicsKnown
    <3>4. header.kind = "IDR" => pics' = {}
      BY <1>1, <3>1
    <3>5. ~firstInSequence /\ header.kind # "IDR" => pics' = pics /\ Synced
      BY <1>1, <2>1, <3>1 DEF PocInv, Joined, Synced
    <3> QED BY <1>1, <1>3, <2>1, <3>1, <3>2, <3>3, <3>4, <3>5 DEF FreshKnown
  <2>16. BegunKnown'
    <3> SUFFICES ASSUME Begun' PROVE BegunKnown'
      BY DEF BegunKnown
    <3>1. slice # 1 /\ Begun /\ pics' = pics /\ ~firstInSequence
      BY <1>1, <2>2, <2>4, <2>9
    <3>2. header.kind = "CRA" => (Entered' <=> Entered)
      BY <1>1, <1>4, <3>1 DEF Entered, RandomAccess
    <3> QED BY <1>1, <1>3, <2>1, <2>6, <3>1, <3>2 DEF BegunKnown
  <2>17. AsideKnown'
    BY <2>7 DEF AsideKnown
  <2> QED BY <2>10, <2>12, <2>14, <2>15, <2>16, <2>17 DEF RefsInv
<1> QED BY <1>7, <1>8
-----------------------------------------------------------------------------
(***************************************************************************)
(* What the stream sends next.                                             *)
(***************************************************************************)
\* An entry of picture g refers to a picture d that the decoder has if it is to
\* decode g, and is told apart from the others.
Refers(s, g, e) ==
    \E d \in s.dpb :
       /\ e.poc = d.poc
       /\ d.lt => e.lt
       /\ e.lt /\ ~e.msb => \A poc \in s.recent \ {d.poc} : Lsb(poc) # Lsb(d.poc)
       /\ Certain(g.kind, g.level, d)
       /\ g.kind # "IDR"
       /\ g.kind = "CRA" => ~e.lt

LEMMA EntryRefers ==
    ASSUME "inactive" \notin Allow, NEW s, NEW g, NEW isActive,
           NEW e \in EntriesFor(s, g, isActive)
    PROVE  Refers(s, g, e) /\ (g.kind = "GDR" => isActive)
<1>1. PICK d \in s.dpb : e \in EntriesOf(s, d) /\ EntryAllowed(g, d, e, isActive)
  BY DEF EntriesFor
<1>2. /\ e \in [poc : {d.poc}, lt : BOOLEAN, msb : BOOLEAN]
      /\ d.lt => e.lt
      /\ e.lt /\ ~e.msb => \A poc \in s.recent \ {d.poc} : Lsb(poc) # Lsb(d.poc)
  BY <1>1 DEF EntriesOf
<1>3. e.poc = d.poc
  BY <1>2
<1> QED BY <1>1, <1>2, <1>3 DEF Refers, EntryAllowed

LEMMA FollowerRefers ==
    ASSUME "inactive" \notin Allow, NEW s, NEW h \in Followers(s)
    PROVE  /\ Len(h.rpl) \in Nat
           /\ \A i \in 1..Len(h.rpl) : Refers(s, h, h.rpl[i])
           /\ \A i, j \in 1..Len(h.rpl) : i # j => h.rpl[i].poc # h.rpl[j].poc
           /\ h.kind = "GDR" => h.active[1] = Len(h.rpl)
           /\ h.kind = "IDR" => h.rpl = <<>>
<1>1. PICK g, list, active :
         /\ g \in Starts(s) /\ list \in ListsOf(s, g) /\ active \in Slices(g, list)
         /\ h = [kind |-> g.kind, poc |-> g.poc, level |-> g.level, rpl |-> list.rpl,
                 active |-> active]
  <2>1. PICK g \in Starts(s) : h \in UNION {HeadersFrom(g, list) : list \in ListsOf(s, g)}
    BY DEF Followers
  <2>2. PICK list \in ListsOf(s, g) : h \in HeadersFrom(g, list)
    BY <2>1
  <2>3. PICK active \in Slices(g, list) :
           h = [kind |-> g.kind, poc |-> g.poc, level |-> g.level, rpl |-> list.rpl,
                active |-> active]
    BY <2>2 DEF HeadersFrom
  <2> QED BY <2>1, <2>2, <2>3
<1>2. /\ h.kind = g.kind /\ h.level = g.level /\ h.rpl = list.rpl /\ h.active = active
  BY <1>1
<1>3. PICK a, o : /\ a \in BoundedSeq(EntriesFor(s, g, TRUE), MaxRefs)
                  /\ o \in BoundedSeq(EntriesFor(s, g, FALSE), MaxRefs - Len(a))
                  /\ list = [used |-> a, rpl |-> a \o o]
                  /\ \A i, j \in DOMAIN list.rpl : i # j => list.rpl[i].poc # list.rpl[j].poc
  <2> DEFINE with(a) == {[used |-> a, rpl |-> a \o o] :
                           o \in BoundedSeq(EntriesFor(s, g, FALSE), MaxRefs - Len(a))}
  <2>1. /\ list \in UNION {with(a) : a \in BoundedSeq(EntriesFor(s, g, TRUE), MaxRefs)}
        /\ \A i, j \in DOMAIN list.rpl : i # j => list.rpl[i].poc # list.rpl[j].poc
    BY <1>1 DEF ListsOf
  <2>2. PICK a \in BoundedSeq(EntriesFor(s, g, TRUE), MaxRefs) : list \in with(a)
    BY <2>1
  <2> QED BY <2>1, <2>2
<1>4. /\ Len(a) \in Nat /\ \A i \in 1..Len(a) : a[i] \in EntriesFor(s, g, TRUE)
      /\ a \in Seq(EntriesFor(s, g, TRUE))
  BY <1>3, BoundedSeqType
<1>5. /\ Len(o) \in Nat /\ \A i \in 1..Len(o) : o[i] \in EntriesFor(s, g, FALSE)
      /\ o \in Seq(EntriesFor(s, g, FALSE))
  BY <1>3, BoundedSeqType
<1>6. /\ \A i \in 1..Len(a) : Refers(s, g, a[i])
      /\ \A i \in 1..Len(o) : Refers(s, g, o[i])
      /\ g.kind = "GDR" => Len(o) = 0
  <2>1. \A i \in 1..Len(o) : g.kind = "GDR" => FALSE
    BY <1>5, EntryRefers
  <2>2. g.kind = "GDR" => Len(o) = 0
    <3>1. Len(o) # 0 => 1 \in 1..Len(o)
      BY <1>5
    <3> QED BY <2>1, <3>1
  <2> QED BY <1>4, <1>5, <2>2, EntryRefers
<1>7. /\ a \o o \in Seq(EntriesFor(s, g, TRUE) \cup EntriesFor(s, g, FALSE))
      /\ Len(a \o o) = Len(a) + Len(o) /\ DOMAIN (a \o o) = 1..(Len(a) + Len(o))
      /\ \A i \in 1..(Len(a) + Len(o)) :
            (a \o o)[i] = IF i <= Len(a) THEN a[i] ELSE o[i - Len(a)]
  <2> DEFINE T == EntriesFor(s, g, TRUE) \cup EntriesFor(s, g, FALSE)
  <2>1. (\A i \in 1..Len(a) : a[i] \in T) /\ (\A i \in 1..Len(o) : o[i] \in T)
    BY <1>4, <1>5
  <2> HIDE DEF T
  <2>2. a \in Seq(T) /\ o \in Seq(T)
    BY <1>4, <1>5, <2>1, SeqOfElements
  <2> QED BY <2>2 DEF T
<1>8. \A i \in 1..(Len(a) + Len(o)) : Refers(s, g, (a \o o)[i])
  <2>1. \A i \in 1..(Len(a) + Len(o)) : i <= Len(a) => i \in 1..Len(a)
    BY <1>4, <1>5
  <2>2. \A i \in 1..(Len(a) + Len(o)) : ~(i <= Len(a)) => i - Len(a) \in 1..Len(o)
    BY <1>4, <1>5
  <2> QED BY <1>6, <1>7, <2>1, <2>2
<1>9. h.rpl = a \o o /\ list.used = a /\ list.rpl = a \o o
  BY <1>2, <1>3
<1>10. Len(h.rpl) = Len(a) + Len(o) /\ Len(h.rpl) \in Nat
  BY <1>4, <1>5, <1>7, <1>9
<1>11. \A i \in 1..Len(h.rpl) : Refers(s, h, h.rpl[i])
  BY <1>2, <1>8, <1>9, <1>10 DEF Refers
<1>12. \A i, j \in 1..Len(h.rpl) : i # j => h.rpl[i].poc # h.rpl[j].poc
  <2>1. DOMAIN list.rpl = 1..Len(h.rpl)
    BY <1>7, <1>9, <1>10
  <2>2. \A i, j \in 1..Len(h.rpl) : i # j => list.rpl[i].poc # list.rpl[j].poc
    BY <1>3, <2>1
  <2> QED BY <2>2, <1>2
<1>13. h.kind = "GDR" => h.active[1] = Len(h.rpl)
  <2>1. g.kind = "GDR" => active[1] = Len(list.used)
    BY <1>1 DEF Slices
  <2> QED BY <1>2, <1>4, <1>6, <1>9, <1>10, <2>1
<1>14. h.kind = "IDR" => h.rpl = <<>>
  <2>1. h.kind = "IDR" => ~\E i \in 1..Len(h.rpl) : TRUE
    BY <1>11 DEF Refers
  <2>2. h.kind = "IDR" => Len(h.rpl) = 0
    BY <1>10, <2>1
  <2> QED BY <1>7, <1>9, <1>10, <2>2
<1> QED BY <1>10, <1>11, <1>12, <1>13, <1>14

\* The pictures of the stream after h: those that its list names, and h itself.
SelfOf(h, d) ==
    d.poc = h.poc /\ d.lt = FALSE /\ d.level = h.level /\ d.class = ClassOf(h.kind)
MovedFrom(h, d, x) ==
    /\ d.poc = x.poc /\ d.level = x.level
    /\ d.class = IF h.kind \in Anchors THEN "old" ELSE x.class
    /\ d.lt = \E k \in DOMAIN h.rpl : h.rpl[k].poc = x.poc /\ h.rpl[k].lt

LEMMA CodedPictures ==
    ASSUME NEW s, s.dpb \subseteq [poc : 0..MaxPoc, lt : BOOLEAN, level : Levels, class : Classes],
           NEW h, DOMAIN h.rpl = 1..Len(h.rpl),
           NEW d \in Coded(s, h).dpb
    PROVE  \/ SelfOf(h, d)
           \/ \E x \in s.dpb, i \in 1..Len(h.rpl) : MovedFrom(h, d, x) /\ h.rpl[i].poc = x.poc
<1> DEFINE moved(x) == [x EXCEPT !.lt = \E i \in DOMAIN h.rpl :
                                            h.rpl[i].poc = x.poc /\ h.rpl[i].lt,
                                 !.class = IF h.kind \in Anchors THEN "old" ELSE @]
           kept == {moved(x) :
                      x \in {y \in s.dpb : \E i \in DOMAIN h.rpl : h.rpl[i].poc = y.poc}}
           self == IF h.level = "nonRef" THEN {}
                   ELSE {[poc |-> h.poc, lt |-> FALSE, level |-> h.level,
                          class |-> ClassOf(h.kind)]}
<1>1. Coded(s, h).dpb = kept \cup self
  BY DEF Coded
<1>2. CASE d \in self
  <2>1. d = [poc |-> h.poc, lt |-> FALSE, level |-> h.level, class |-> ClassOf(h.kind)]
    BY <1>2
  <2>2. /\ d.poc = h.poc /\ d.lt = FALSE /\ d.level = h.level
        /\ d.class = ClassOf(h.kind)
    BY <2>1
  <2> QED BY <2>2 DEF SelfOf
<1>3. CASE d \in kept
  <2>1. PICK x \in s.dpb : (\E i \in DOMAIN h.rpl : h.rpl[i].poc = x.poc) /\ d = moved(x)
    BY <1>3
  <2>2. PICK i \in 1..Len(h.rpl) : h.rpl[i].poc = x.poc
    BY <2>1
  <2> DEFINE b == \E k \in DOMAIN h.rpl : h.rpl[k].poc = x.poc /\ h.rpl[k].lt
             c == IF h.kind \in Anchors THEN "old" ELSE x.class
  <2>3. d = [x EXCEPT !.lt = b, !.class = c]
    BY <2>1
  <2>4. x \in [poc : 0..MaxPoc, lt : BOOLEAN, level : Levels, class : Classes]
    OBVIOUS
  <2> HIDE DEF b, c
  <2>5. d.poc = x.poc /\ d.level = x.level /\ d.lt = b /\ d.class = c
    BY <2>3, <2>4
  <2> QED BY <2>2, <2>5 DEF b, c, MovedFrom
<1> HIDE DEF kept, self
<1> QED BY <1>1, <1>2, <1>3
-----------------------------------------------------------------------------
\* The fields of the stream after a picture.
LEMMA CodedFields ==
    ASSUME NEW s, NEW h
    PROVE  /\ h.poc \in Coded(s, h).used /\ h.poc \in Coded(s, h).recent
           /\ h.kind # "IDR" => Coded(s, h).used = {h.poc} \cup s.used
           /\ IsTid0(h) => \A i \in DOMAIN h.rpl : h.rpl[i].poc \in Coded(s, h).recent
           /\ ~IsTid0(h) => Coded(s, h).recent = {h.poc} \cup s.recent
           /\ h.kind \in Anchors => Coded(s, h).irap = [kind |-> h.kind, poc |-> h.poc]
           /\ h.kind \notin Anchors => Coded(s, h).irap = s.irap
           /\ h.kind = "IDR" => Coded(s, h).before = -1
           /\ h.kind \in RandomAccess => Coded(s, h).before = s.irap.poc
           /\ h.kind \notin Anchors => Coded(s, h).before = s.before
           /\ Coded(s, h).count = s.count + 1
<1>1. /\ Coded(s, h).used = {h.poc} \cup (IF h.kind = "IDR" THEN {} ELSE s.used)
      /\ Coded(s, h).recent =
           {h.poc} \cup (IF h.level = "base" /\ h.kind \notin {"RADL", "RASL"}
                         THEN {h.rpl[i].poc : i \in DOMAIN h.rpl} ELSE s.recent)
      /\ Coded(s, h).irap =
           IF h.kind \in Anchors THEN [kind |-> h.kind, poc |-> h.poc] ELSE s.irap
      /\ Coded(s, h).before = (CASE h.kind = "IDR" -> -1
                                 [] h.kind \in RandomAccess -> s.irap.poc
                                 [] OTHER -> s.before)
      /\ Coded(s, h).count = s.count + 1
  BY DEF Coded
<1>2. /\ h.kind = "IDR" => Coded(s, h).before = -1
      /\ h.kind \in RandomAccess => Coded(s, h).before = s.irap.poc
      /\ h.kind \notin Anchors => Coded(s, h).before = s.before
  BY <1>1 DEF RandomAccess, Anchors
<1>3. /\ IsTid0(h) => \A i \in DOMAIN h.rpl : h.rpl[i].poc \in Coded(s, h).recent
      /\ ~IsTid0(h) => Coded(s, h).recent = {h.poc} \cup s.recent
  BY <1>1 DEF IsTid0
<1>4. /\ h.poc \in Coded(s, h).used /\ h.poc \in Coded(s, h).recent
      /\ h.kind # "IDR" => Coded(s, h).used = {h.poc} \cup s.used
  BY <1>1
<1> QED BY <1>1, <1>2, <1>3, <1>4

\* The pictures that are sent follow in order.
LEMMA FollowerOrder ==
    ASSUME NEW s \in Coding, DpbKnown(s), NEW h \in Followers(s)
    PROVE  /\ h.kind # "IDR" => /\ h.poc \notin s.used /\ s.count > 0
                                /\ s.irap.poc \in s.used /\ s.before < s.irap.poc
           /\ h.kind \in RandomAccess => s.irap.poc < h.poc
           /\ h.kind = "RASL" => /\ s.irap.kind = "CRA"
                                 /\ s.before < h.poc /\ h.poc < s.irap.poc
           /\ h.kind \in Anchors => h.level = "base"
<1>1. MayFollow(s, h)
  BY FollowerHeader
<1>2. s.count \in Nat
  BY DEF Coding
<1>3. /\ s.count = 0 => h.kind = "IDR"
      /\ h.kind # "IDR" => h.poc \notin s.used /\ InOrder(s, h)
      /\ h.kind \in Anchors => h.level = "base"
  BY <1>1 DEF MayFollow
<1>4. /\ s.count > 0 => s.irap.poc \in s.used /\ s.before < s.irap.poc
  BY DEF DpbKnown
<1>5. h.kind # "IDR" => s.count > 0 /\ s.irap.poc \in s.used /\ s.before < s.irap.poc
  BY <1>2, <1>3, <1>4
<1>6. h.kind \in RandomAccess => h.kind # "IDR" /\ \A poc \in s.used : h.poc > poc
  BY <1>3 DEF RandomAccess, InOrder
<1>7. h.kind \in RandomAccess => s.irap.poc < h.poc
  <2>1. s.irap.poc \in Int /\ h.poc \in Int
    BY FollowerHeader, ReferenceAssumption DEF Coding
  <2> QED BY <1>5, <1>6, <2>1
<1>8. h.kind = "RASL" => /\ s.irap.kind = "CRA"
                         /\ s.before < h.poc /\ h.poc < s.irap.poc
  BY <1>3 DEF InOrder
<1> QED BY <1>3, <1>5, <1>7, <1>8

\* The pictures of the stream after h, in the terms of its list.
LEMMA CodedFrom ==
    ASSUME "inactive" \notin Allow, NEW s \in Coding, DpbKnown(s), NEW h \in Followers(s),
           NEW d \in Coded(s, h).dpb
    PROVE  \/ SelfOf(h, d)
           \/ \E x \in s.dpb, i \in 1..Len(h.rpl) :
                 /\ d.poc = x.poc /\ h.rpl[i].poc = x.poc /\ d.level = x.level
                 /\ d.class = (IF h.kind \in Anchors THEN "old" ELSE x.class)
                 /\ d.lt = h.rpl[i].lt
                 /\ x.lt => h.rpl[i].lt
                 /\ Certain(h.kind, h.level, x) /\ h.kind # "IDR"
                 /\ x.poc \in s.used /\ x.poc \in s.recent /\ x.poc # h.poc
<1>1. /\ Len(h.rpl) \in Nat /\ h.rpl \in Seq(Entry)
      /\ \A i \in 1..Len(h.rpl) : Refers(s, h, h.rpl[i])
      /\ \A i, j \in 1..Len(h.rpl) : i # j => h.rpl[i].poc # h.rpl[j].poc
  BY FollowerRefers, FollowerHeader
<1>2. /\ s.dpb \subseteq [poc : 0..MaxPoc, lt : BOOLEAN, level : Levels, class : Classes]
      /\ DOMAIN h.rpl = 1..Len(h.rpl)
      /\ \A i \in 1..Len(h.rpl) : h.rpl[i].lt \in BOOLEAN
  <2>1. s.dpb \subseteq [poc : 0..MaxPoc, lt : BOOLEAN, level : Levels, class : Classes]
    BY DEF Coding
  <2>2. DOMAIN h.rpl = 1..Len(h.rpl) /\ \A i \in 1..Len(h.rpl) : h.rpl[i] \in Entry
    BY <1>1
  <2> QED BY <2>1, <2>2 DEF Entry
<1>3. \/ SelfOf(h, d)
      \/ \E x \in s.dpb, i \in 1..Len(h.rpl) : MovedFrom(h, d, x) /\ h.rpl[i].poc = x.poc
  BY <1>2, CodedPictures
<1>4. CASE \E x \in s.dpb, i \in 1..Len(h.rpl) : MovedFrom(h, d, x) /\ h.rpl[i].poc = x.poc
  <2>1. PICK x \in s.dpb, i \in 1..Len(h.rpl) : MovedFrom(h, d, x) /\ h.rpl[i].poc = x.poc
    BY <1>4
  <2>2. d.lt = \E k \in 1..Len(h.rpl) : h.rpl[k].poc = x.poc /\ h.rpl[k].lt
    BY <1>2, <2>1 DEF MovedFrom
  <2>3. d.lt = h.rpl[i].lt
    <3> DEFINE b == \E k \in 1..Len(h.rpl) : h.rpl[k].poc = x.poc /\ h.rpl[k].lt
    <3>1. b \in BOOLEAN /\ d.lt = b
      BY <2>2
    <3>2. b <=> h.rpl[i].lt
      BY <1>1, <2>1
    <3> HIDE DEF b
    <3> QED BY <1>2, <3>1, <3>2
  <2>4. PICK y \in s.dpb : /\ h.rpl[i].poc = y.poc
                           /\ y.lt => h.rpl[i].lt
                           /\ Certain(h.kind, h.level, y) /\ h.kind # "IDR"
    BY <1>1 DEF Refers
  <2>5. y = x
    <3>1. \A u, v \in s.dpb : u.poc = v.poc => u = v
      BY DEF DpbKnown
    <3>2. y.poc = x.poc
      BY <2>1, <2>4
    <3> QED BY <3>1, <3>2
  <2>6. x.poc \in s.used /\ x.poc \in s.recent
    BY DEF DpbKnown
  <2>7. x.poc # h.poc
    BY <2>4, <2>6, FollowerOrder
  <2>8. /\ d.poc = x.poc /\ h.rpl[i].poc = x.poc /\ d.level = x.level
        /\ d.class = (IF h.kind \in Anchors THEN "old" ELSE x.class)
    BY <2>1 DEF MovedFrom
  <2> QED BY <2>3, <2>4, <2>5, <2>6, <2>7, <2>8
<1> QED BY <1>3, <1>4
-----------------------------------------------------------------------------
\* What the list of h names is of the stream, and not h.
LEMMA NamesStream ==
    ASSUME "inactive" \notin Allow, NEW s \in Coding, DpbKnown(s), NEW h \in Followers(s)
    PROVE  /\ \A i \in 1..Len(h.rpl) :
                 h.rpl[i].poc \in Coded(s, h).used /\ h.rpl[i].poc \in Coded(s, h).recent
                 /\ h.rpl[i].poc # h.poc
           /\ \A i \in 1..Len(h.rpl) : h.rpl[i].poc \in s.used /\ h.rpl[i].poc \in s.recent
           /\ h.poc \in Coded(s, h).used /\ h.poc \in Coded(s, h).recent
<1>1. h.poc \in Coded(s, h).used /\ h.poc \in Coded(s, h).recent
  BY CodedFields
<1>2. ASSUME NEW i \in 1..Len(h.rpl)
      PROVE  /\ h.rpl[i].poc \in Coded(s, h).used /\ h.rpl[i].poc \in Coded(s, h).recent
             /\ h.rpl[i].poc # h.poc
             /\ h.rpl[i].poc \in s.used /\ h.rpl[i].poc \in s.recent
  <2>1. Refers(s, h, h.rpl[i]) /\ h.rpl \in Seq(Entry) /\ Len(h.rpl) \in Nat
    BY FollowerRefers, FollowerHeader
  <2>2. PICK d \in s.dpb : h.rpl[i].poc = d.poc /\ h.kind # "IDR"
    BY <2>1 DEF Refers
  <2>3. d.poc \in s.used /\ d.poc \in s.recent
    BY DEF DpbKnown
  <2>4. h.poc \notin s.used
    BY <2>2, FollowerOrder
  <2>5. i \in DOMAIN h.rpl
    BY <2>1
  <2>6. h.rpl[i].poc \in {h.rpl[k].poc : k \in DOMAIN h.rpl}
    BY <2>5
  <2>7. s.used \subseteq Coded(s, h).used
    <3>1. Coded(s, h).used = {h.poc} \cup s.used
      BY <2>2, CodedFields
    <3> QED BY <3>1
  <2>8. h.rpl[i].poc \in Coded(s, h).recent
    <3>1. CASE IsTid0(h)
      BY <2>5, <3>1, CodedFields
    <3>2. CASE ~IsTid0(h)
      <4>1. Coded(s, h).recent = {h.poc} \cup s.recent
        BY <3>2, CodedFields
      <4> QED BY <2>2, <2>3, <4>1
    <3> QED BY <3>1, <3>2
  <2> QED BY <2>2, <2>3, <2>4, <2>7, <2>8
<1> QED BY <1>1, <1>2

\* The list tells its entries apart.
LEMMA ListApart ==
    ASSUME "inactive" \notin Allow, NEW s \in Coding, DpbKnown(s), NEW h \in Followers(s)
    PROVE  RefersApart(h)
<1>1. /\ \A i \in 1..Len(h.rpl) : Refers(s, h, h.rpl[i])
      /\ \A i, j \in 1..Len(h.rpl) : i # j => h.rpl[i].poc # h.rpl[j].poc
  BY FollowerRefers
<1>2. ASSUME NEW i \in 1..Len(h.rpl), NEW j \in 1..Len(h.rpl),
             i # j, h.rpl[i].lt, ~h.rpl[i].msb
      PROVE  Lsb(h.rpl[j].poc) # Lsb(h.rpl[i].poc)
  <2>1. PICK d \in s.dpb :
           /\ h.rpl[i].poc = d.poc
           /\ \A poc \in s.recent \ {d.poc} : Lsb(poc) # Lsb(d.poc)
    BY <1>1, <1>2 DEF Refers
  <2>2. h.rpl[j].poc \in s.recent
    BY NamesStream
  <2>3. h.rpl[j].poc \in s.recent \ {d.poc}
    BY <1>1, <1>2, <2>1, <2>2
  <2> QED BY <2>1, <2>3
<1> QED BY <1>1, <1>2 DEF RefersApart

LEMMA DpbGoesOn ==
    ASSUME "inactive" \notin Allow, NEW s \in Coding, DpbKnown(s), NEW h \in Followers(s),
           s.count < MaxPictures
    PROVE  DpbKnown(Coded(s, h))
<1> DEFINE t == Coded(s, h)
<1>1. t \in Coding
  BY CodedType
<1>2. ASSUME NEW d \in t.dpb PROVE d.poc \in t.used /\ d.poc \in t.recent
  <2>1. \/ SelfOf(h, d)
        \/ \E i \in 1..Len(h.rpl) : h.rpl[i].poc = d.poc
    BY CodedFrom
  <2> QED BY <2>1, NamesStream DEF SelfOf
<1>3. ASSUME NEW d \in t.dpb, NEW x \in t.dpb, d.poc = x.poc PROVE d = x
  <2>1. /\ d \in [poc : 0..MaxPoc, lt : BOOLEAN, level : Levels, class : Classes]
        /\ x \in [poc : 0..MaxPoc, lt : BOOLEAN, level : Levels, class : Classes]
    BY <1>1 DEF Coding
  <2>2. d.lt = x.lt /\ d.level = x.level /\ d.class = x.class
    <3>1. CASE SelfOf(h, d) /\ SelfOf(h, x)
      BY <3>1 DEF SelfOf
    <3>2. CASE ~SelfOf(h, d) /\ ~SelfOf(h, x)
      <4>1. PICK u \in s.dpb, i \in 1..Len(h.rpl) :
               /\ d.poc = u.poc /\ h.rpl[i].poc = u.poc /\ d.level = u.level
               /\ d.class = (IF h.kind \in Anchors THEN "old" ELSE u.class)
               /\ d.lt = h.rpl[i].lt
        BY <3>2, CodedFrom
      <4>2. PICK v \in s.dpb, j \in 1..Len(h.rpl) :
               /\ x.poc = v.poc /\ h.rpl[j].poc = v.poc /\ x.level = v.level
               /\ x.class = (IF h.kind \in Anchors THEN "old" ELSE v.class)
               /\ x.lt = h.rpl[j].lt
        BY <3>2, CodedFrom
      <4>3. u = v
        BY <1>3, <4>1, <4>2 DEF DpbKnown
      <4>4. i = j
        <5>1. h.rpl[i].poc = h.rpl[j].poc
          BY <1>3, <4>1, <4>2
        <5>2. \A m, n \in 1..Len(h.rpl) : m # n => h.rpl[m].poc # h.rpl[n].poc
          BY FollowerRefers
        <5> QED BY <5>1, <5>2
      <4> QED BY <4>1, <4>2, <4>3, <4>4
    <3>3. CASE SelfOf(h, d) /\ ~SelfOf(h, x)
      <4>1. x.poc # h.poc
        BY <3>3, CodedFrom
      <4> QED BY <1>3, <3>3, <4>1 DEF SelfOf
    <3>4. CASE ~SelfOf(h, d) /\ SelfOf(h, x)
      <4>1. d.poc # h.poc
        BY <3>4, CodedFrom
      <4> QED BY <1>3, <3>4, <4>1 DEF SelfOf
    <3> QED BY <3>1, <3>2, <3>3, <3>4
  <2> QED BY <1>3, <2>1, <2>2
<1>4. t.irap.poc \in t.used /\ t.before < t.irap.poc
  <2>1. CASE h.kind = "IDR"
    <3>1. t.irap = [kind |-> h.kind, poc |-> h.poc] /\ t.before = -1 /\ h.poc \in t.used
      BY <2>1, CodedFields DEF Anchors
    <3>2. h.poc \in 0..MaxPoc
      BY FollowerHeader
    <3> QED BY <3>1, <3>2, ReferenceAssumption
  <2>2. CASE h.kind \in RandomAccess
    <3>1. h.kind # "IDR" /\ h.kind \in Anchors
      BY <2>2 DEF RandomAccess, Anchors
    <3>2. t.irap = [kind |-> h.kind, poc |-> h.poc] /\ t.before = s.irap.poc /\ h.poc \in t.used
      BY <2>2, <3>1, CodedFields
    <3>3. s.irap.poc < h.poc
      BY <2>2, FollowerOrder
    <3> QED BY <3>2, <3>3
  <2>3. CASE h.kind \notin Anchors
    <3>1. h.kind # "IDR" /\ h.kind \notin RandomAccess
      BY <2>3 DEF RandomAccess, Anchors
    <3>2. t.irap = s.irap /\ t.before = s.before /\ t.used = {h.poc} \cup s.used
      BY <2>3, <3>1, CodedFields
    <3> QED BY <3>1, <3>2, FollowerOrder
  <2> QED BY <2>1, <2>2, <2>3 DEF RandomAccess, Anchors
<1>5. t.count # 0
  <2>1. s.count \in Nat
    BY DEF Coding
  <2>2. t.count = s.count + 1
    BY CodedFields
  <2> HIDE DEF t
  <2> QED BY <2>1, <2>2
<1> HIDE DEF t
<1> QED BY <1>2, <1>3, <1>4, <1>5 DEF DpbKnown, t

\* The header and the stream after it.
LEMMA StreamGoesOn ==
    ASSUME "inactive" \notin Allow, NEW s \in Coding, DpbKnown(s), NEW h \in Followers(s),
           s.count < MaxPictures, h.level = "upper" => ~dropping
    PROVE  RefersKnown(Coded(s, h), h)
<1> DEFINE t == Coded(s, h)
<1>1. t.count > 0
  <2>1. s.count \in Nat
    BY DEF Coding
  <2>2. t.count = s.count + 1
    BY CodedFields
  <2> HIDE DEF t
  <2> QED BY <2>1, <2>2
<1>2. /\ h.poc \in t.used \cap t.recent
      /\ \A i \in 1..Len(h.rpl) : h.rpl[i].poc \in (t.used \cap t.recent) \ {h.poc}
  BY NamesStream
<1>3. /\ h.kind = "IDR" => h.rpl = <<>>
      /\ h.kind = "GDR" => h.active[1] = Len(h.rpl)
      /\ h.kind = "CRA" => \A i \in 1..Len(h.rpl) : ~h.rpl[i].lt
  BY FollowerRefers DEF Refers
<1>4. h.kind \in Anchors => t.irap = [kind |-> h.kind, poc |-> h.poc]
  BY CodedFields
<1>5. h.kind = "RASL" => t.irap.kind = "CRA" /\ t.before < h.poc /\ h.poc < t.irap.poc
  <2>1. h.kind = "RASL" => t.irap = s.irap /\ t.before = s.before
    BY CodedFields DEF Anchors, RandomAccess
  <2> QED BY <2>1, FollowerOrder
<1>6. ASSUME NEW d \in t.dpb
      PROVE  \/ d.poc = h.poc /\ ~d.lt
             \/ \E i \in 1..Len(h.rpl) : /\ d.poc = h.rpl[i].poc /\ d.lt = h.rpl[i].lt
                                         /\ h.kind \in Anchors => d.class = "old"
  <2>1. \/ SelfOf(h, d)
        \/ \E i \in 1..Len(h.rpl) : /\ d.poc = h.rpl[i].poc /\ d.lt = h.rpl[i].lt
                                    /\ h.kind \in Anchors => d.class = "old"
    <3>1. ASSUME ~SelfOf(h, d)
          PROVE  \E i \in 1..Len(h.rpl) : /\ d.poc = h.rpl[i].poc /\ d.lt = h.rpl[i].lt
                                          /\ h.kind \in Anchors => d.class = "old"
      <4>1. PICK x \in s.dpb, i \in 1..Len(h.rpl) :
               /\ d.poc = x.poc /\ h.rpl[i].poc = x.poc
               /\ d.class = (IF h.kind \in Anchors THEN "old" ELSE x.class)
               /\ d.lt = h.rpl[i].lt
        BY <3>1, CodedFrom
      <4>2. h.kind \in Anchors => d.class = "old"
        BY <4>1
      <4> QED BY <4>1, <4>2
    <3> QED BY <3>1
  <2> QED BY <2>1 DEF SelfOf
<1> HIDE DEF t
<1> QED BY <1>1, <1>2, <1>3, <1>4, <1>5, <1>6 DEF RefersKnown, t
-----------------------------------------------------------------------------
\* A picture is available to one that the decoder is to decode.
LEMMA CertainAvailable ==
    ASSUME NEW h, NEW d, Certain(h.kind, h.level, d), h.level = "upper" => ~dropping,
           h.kind = "RASL" => ~Entered
    PROVE  Available(d) /\ (d.class = "old" => h.kind = "RASL")
<1>1. d.class \in Usable(h.kind) /\ (d.level = "upper" => h.level = "upper")
  BY DEF Certain
<1>2. d.class \in {"rasl", "old"} => h.kind = "RASL"
  BY <1>1 DEF Usable
<1> QED BY <1>1, <1>2 DEF Available

\* The stream goes on, and the decoder receives the picture or does not.
LEMMA RefsSend == "inactive" \notin Allow /\ PocInv /\ RefsInv /\ Send => RefsInv'
<1> SUFFICES ASSUME "inactive" \notin Allow, PocInv, RefsInv, Send PROVE RefsInv'
  OBVIOUS
<1>1. PICK h \in Followers(coded) :
         /\ coded' = Coded(coded, h)
         /\ IF tunedIn /\ ~(dropping /\ h.level = "upper")
            THEN phase' = "slice" /\ header' = h
            ELSE phase' = phase /\ header' = header
  BY DEF Send
<1>2. /\ phase = "idle" /\ coded.count < MaxPictures
      /\ dropping' = dropping /\ slice' = slice
      /\ firstInSequence' = firstInSequence /\ pocRandomAccess' = pocRandomAccess
      /\ offset' = offset /\ pics' = pics /\ lists' = lists
      /\ noOutputBeforeRecovery' = noOutputBeforeRecovery
  BY DEF Send, decoder
<1>3. /\ coded \in Coding /\ slice = 1 /\ offset \in Int
      /\ ~tunedIn => ~Synced
  BY <1>2 DEF PocInv, PocTypes, PictureSound, Joined
<1>4. /\ DpbKnown(coded) /\ AccessKnown /\ PicsKnown
      /\ AsideKnown /\ ListsKnown
      /\ RefsResolved /\ NeverGivesUp
  BY DEF RefsInv
<1> DEFINE received == tunedIn /\ ~(dropping /\ h.level = "upper")
<1>5. /\ ~Stale /\ Aside /\ lists = <<>> /\ (firstInSequence => ~Synced)
      /\ (Synced' <=> Synced)
  BY <1>2, <1>4 DEF Stale, Aside, ListsKnown, AccessKnown, Synced
<1>6. /\ h.kind # "IDR" => h.poc \notin coded.used /\ coded.irap.poc \in coded.used
                           /\ coded.before < coded.irap.poc
      /\ h.kind \in RandomAccess => coded.irap.poc < h.poc
      /\ h.kind = "RASL" => coded.irap.kind = "CRA"
      /\ h.kind \in Anchors => h.level = "base"
  BY <1>3, <1>4, FollowerOrder
<1>7. /\ Len(h.rpl) \in Nat /\ \A i \in 1..Len(h.rpl) : Refers(coded, h, h.rpl[i])
  BY FollowerRefers
<1>8. /\ h.kind # "IDR" => coded'.used = {h.poc} \cup coded.used
      /\ ~IsTid0(h) => coded'.recent = {h.poc} \cup coded.recent
      /\ h.kind \notin Anchors => coded'.irap = coded.irap /\ coded'.before = coded.before
      /\ h.kind \in RandomAccess => coded'.before = coded.irap.poc
  BY <1>1, CodedFields
<1>9. DpbKnown(coded')
  BY <1>1, <1>2, <1>3, <1>4, DpbGoesOn
<1>10. ASSUME NEW d \in coded'.dpb, ~SelfOf(h, d)
       PROVE  \E x \in coded.dpb, i \in 1..Len(h.rpl) :
                 /\ d.poc = x.poc /\ h.rpl[i].poc = x.poc /\ d.level = x.level
                 /\ d.class = (IF h.kind \in Anchors THEN "old" ELSE x.class)
                 /\ d.lt = h.rpl[i].lt
                 /\ x.lt => h.rpl[i].lt
                 /\ Certain(h.kind, h.level, x) /\ h.kind # "IDR"
                 /\ x.poc \in coded.used /\ x.poc \in coded.recent /\ x.poc # h.poc
  <2>1. d \in Coded(coded, h).dpb
    BY <1>1
  <2> QED BY <1>3, <1>4, <1>10, <2>1, CodedFrom
<1>11. HeaderKnown'
  <2>1. CASE received
    <3>1. header' = h /\ (h.level = "upper" => ~dropping)
      BY <1>1, <2>1
    <3>2. RefersApart(h)
      BY <1>3, <1>4, ListApart
    <3>3. RefersKnown(Coded(coded, h), h)
      BY <1>2, <1>3, <1>4, <3>1, StreamGoesOn
    <3>4. RefersKnown(coded', header')
      BY <1>1, <3>1, <3>3
    <3>5. RefersApart(header')
      BY <3>1, <3>2
    <3> QED BY <1>2, <3>4, <3>5 DEF HeaderKnown, RefersApart, RefersKnown
  <2>2. CASE ~received
    BY <1>1, <1>2, <2>2 DEF HeaderKnown, InPicture
  <2> QED BY <2>1, <2>2
<1>12. /\ phase' \in {"slice", "idle"} /\ (phase' = "slice" => received /\ header' = h)
       /\ (received => phase' = "slice") /\ slice' = 1
  BY <1>1, <1>2, <1>3
<1>13. Synced => tunedIn /\ (h.kind \in Anchors => received) /\ (h.kind = "IDR" => Stale')
  <2>1. Synced /\ h.kind \in Anchors => received
    BY <1>3, <1>6
  <2> QED BY <1>3, <1>12, <2>1 DEF Stale, Anchors
<1>14. h.kind \notin Anchors => (Entered' <=> Entered)
  BY <1>2, <1>8 DEF Entered
<1>15. ~Begun' /\ phase' \notin {"check", "decode"}
  BY <1>12 DEF Begun
<1>16. AccessKnown'
  <2>1. pocRandomAccess \in Int /\ offset \in 0..MaxPoc
    BY <1>4 DEF AccessKnown
  <2>2. ASSUME Synced, ~Stale', pocRandomAccess # Always
        PROVE  \/ coded'.irap.poc = pocRandomAccess + offset
               \/ pocRandomAccess + offset <= coded'.before
    <3>1. \/ coded.irap.poc = pocRandomAccess + offset
          \/ pocRandomAccess + offset <= coded.before
      BY <1>4, <1>5, <2>2 DEF AccessKnown
    <3>2. h.kind # "IDR"
      BY <1>13, <2>2
    <3>3. CASE h.kind \notin Anchors
      BY <1>8, <3>1, <3>3
    <3>4. CASE h.kind \in RandomAccess
      <4>1. coded'.before = coded.irap.poc /\ coded.before < coded.irap.poc
        BY <1>6, <1>8, <3>2, <3>4
      <4>2. coded.before \in Int /\ coded.irap.poc \in Int
        BY <1>3, ReferenceAssumption DEF Coding
      <4> QED BY <1>3, <2>1, <3>1, <4>1, <4>2
    <3> QED BY <3>2, <3>3, <3>4 DEF Anchors, RandomAccess
  <2>3. Always' = Always
    OBVIOUS
  <2> QED BY <1>2, <1>5, <1>15, <2>1, <2>2 DEF AccessKnown
<1>17. PicsKnown'
  <2>1. pics \subseteq Picture /\ MadeUpLast(pics) /\ (~Synced => pics = {})
    BY <1>4 DEF PicsKnown
  <2>2. ASSUME ~Stale', Synced
        PROVE  /\ \A p \in pics : p.poc = p.id - offset /\ p.id \in coded'.used
               /\ \A p, q \in pics : p.id = q.id => p = q
               /\ \A p \in pics, d \in coded'.dpb :
                     p.generated > 0 /\ d.poc = p.id
                     => d.class = "old" /\ coded'.irap.kind = "GDR"
    <3>1. h.kind # "IDR"
      BY <1>13, <2>2
    <3>2. /\ \A p \in pics : p.poc = p.id - offset /\ p.id \in coded.used
          /\ \A p, q \in pics : p.id = q.id => p = q
          /\ \A p \in pics, d \in coded.dpb :
                p.generated > 0 /\ d.poc = p.id
                => d.class = "old" /\ coded.irap.kind = "GDR"
      BY <1>4, <1>5 DEF PicsKnown
    <3>3. ASSUME NEW p \in pics, NEW d \in coded'.dpb, p.generated > 0, d.poc = p.id
          PROVE  d.class = "old" /\ coded'.irap.kind = "GDR"
      <4>1. ~SelfOf(h, d)
        BY <1>6, <3>1, <3>2, <3>3 DEF SelfOf
      <4>2. PICK x \in coded.dpb : /\ d.poc = x.poc
                                   /\ d.class = (IF h.kind \in Anchors THEN "old" ELSE x.class)
                                   /\ Certain(h.kind, h.level, x)
        BY <1>10, <4>1
      <4>3. x.class = "old" /\ coded.irap.kind = "GDR"
        BY <3>2, <3>3, <4>2
      <4>4. h.kind \notin Anchors
        BY <4>2, <4>3 DEF Certain, Usable, Anchors
      <4> QED BY <1>8, <4>2, <4>3, <4>4
    <3> QED BY <1>8, <3>1, <3>2, <3>3
  <2>3. ~Synced => pics' = {}
    BY <1>2, <2>1
  <2> QED BY <1>2, <1>5, <2>1, <2>2, <2>3 DEF PicsKnown
<1>18. FreshKnown'
  <2>1. ASSUME Fresh', ~Stale' PROVE \A p \in pics : p.id # h.poc
    <3>1. h.kind # "IDR"
      BY <1>12, <2>1 DEF Fresh, Stale
    <3> QED BY <1>4, <1>5, <1>6, <3>1 DEF PicsKnown
  <2>2. ~Synced => pics = {}
    BY <1>4 DEF PicsKnown
  <2>3. ASSUME Fresh', Synced, h.kind # "IDR"
        PROVE  /\ \A i \in 1..Len(h.rpl) :
                     \E p \in pics : Holds(p, h.rpl[i]) /\ p.generated = 0
               /\ \A i \in 1..Len(h.rpl), p \in pics :
                     h.rpl[i].lt /\ ~h.rpl[i].msb /\ p.referenced /\ p.id # h.rpl[i].poc
                     => Lsb(p.id) # Lsb(h.rpl[i].poc)
    <3>1. received /\ header' = h /\ ~Skips'
      BY <1>12, <2>3 DEF Fresh
    <3>2. h.kind = "RASL" => ~Entered
      BY <1>14, <3>1 DEF Skips, Anchors
    <3>3. /\ \A d \in coded.dpb : Available(d) =>
                \E p \in pics : p.id = d.poc /\ p.referenced /\ (p.longTerm => d.lt)
          /\ \A p \in pics : p.referenced => p.id \in coded.recent
      BY <1>4, <1>5, <2>3 DEF AsideKnown
    <3>4. ASSUME NEW i \in 1..Len(h.rpl)
          PROVE  /\ \E p \in pics : Holds(p, h.rpl[i]) /\ p.generated = 0
                 /\ \A p \in pics :
                     h.rpl[i].lt /\ ~h.rpl[i].msb /\ p.referenced /\ p.id # h.rpl[i].poc
                     => Lsb(p.id) # Lsb(h.rpl[i].poc)
      <4>1. PICK d \in coded.dpb :
               /\ h.rpl[i].poc = d.poc
               /\ d.lt => h.rpl[i].lt
               /\ h.rpl[i].lt /\ ~h.rpl[i].msb
                     => \A poc \in coded.recent \ {d.poc} : Lsb(poc) # Lsb(d.poc)
               /\ Certain(h.kind, h.level, d)
        BY <1>7 DEF Refers
      <4>2. Available(d) /\ (d.class = "old" => h.kind = "RASL")
        BY <3>1, <3>2, <4>1, CertainAvailable
      <4>3. PICK p \in pics : p.id = d.poc /\ p.referenced /\ (p.longTerm => d.lt)
        BY <3>3, <4>2
      <4>4. p.generated = 0
        <5>1. p.generated \in Nat
          BY <1>4 DEF PicsKnown, Picture
        <5>2. p.generated > 0 => d.class = "old" /\ coded.irap.kind = "GDR"
          BY <1>4, <1>5, <4>3 DEF PicsKnown
        <5> QED BY <1>6, <4>2, <5>1, <5>2
      <4>5. Holds(p, h.rpl[i])
        BY <4>1, <4>3 DEF Holds
      <4> QED BY <3>3, <4>1, <4>4, <4>5
    <3> QED BY <3>4
  <2>4. SUFFICES ASSUME Fresh' PROVE FreshKnown'
    BY DEF FreshKnown
  <2>5. header' = h
    BY <1>12, <2>4 DEF Fresh
  <2> QED BY <1>2, <1>5, <1>15, <2>1, <2>2, <2>3, <2>4, <2>5 DEF FreshKnown, Holds
<1>19. BegunKnown' /\ ListsKnown' /\ RefsResolved' /\ NeverGivesUp'
  <2>1. DOMAIN <<>> = {}
    OBVIOUS
  <2> QED BY <1>2, <1>5, <1>15, <1>12, <2>1
          DEF BegunKnown, ListsKnown, RefsResolved, NeverGivesUp
<1>20. AsideKnown'
  <2> SUFFICES ASSUME Aside', Synced' PROVE
         /\ \A d \in coded'.dpb : Available(d)' =>
               \E p \in pics : p.id = d.poc /\ p.referenced /\ (p.longTerm => d.lt)
         /\ \A p \in pics : p.referenced => p.id \in coded'.recent
    BY <1>2 DEF AsideKnown
  <2>1. Synced /\ tunedIn
    BY <1>3, <1>5
  <2>2. /\ \A d \in coded.dpb : Available(d) =>
              \E p \in pics : p.id = d.poc /\ p.referenced /\ (p.longTerm => d.lt)
        /\ \A p \in pics : p.referenced => p.id \in coded.recent
    BY <1>4, <1>5, <2>1 DEF AsideKnown
  <2>3. \/ ~received /\ dropping /\ h.level = "upper"
        \/ h.kind = "RASL" /\ Entered'
    <3>1. CASE received
      <4>1. header' = h /\ Skips'
        BY <1>12, <3>1 DEF Aside
      <4> QED BY <4>1 DEF Skips
    <3>2. CASE ~received
      BY <2>1, <3>2
    <3> QED BY <3>1, <3>2
  <2>4. h.kind \notin Anchors /\ ~IsTid0(h)
    BY <1>6, <2>3 DEF Anchors, IsTid0
  <2>5. (Entered' <=> Entered) /\ coded'.recent = {h.poc} \cup coded.recent
    BY <1>8, <1>14, <2>4
  <2>6. ASSUME NEW d \in coded'.dpb, Available(d)'
        PROVE  \E p \in pics : p.id = d.poc /\ p.referenced /\ (p.longTerm => d.lt)
    <3>1. /\ d.level = "upper" => ~dropping
          /\ d.class \in {"rasl", "old"} => ~Entered'
      BY <1>2, <2>6 DEF Available
    <3>2. ~SelfOf(h, d)
      BY <2>3, <3>1 DEF SelfOf, ClassOf
    <3>3. PICK x \in coded.dpb, i \in 1..Len(h.rpl) :
             /\ d.poc = x.poc /\ d.level = x.level
             /\ d.class = (IF h.kind \in Anchors THEN "old" ELSE x.class)
             /\ d.lt = h.rpl[i].lt
             /\ x.lt => h.rpl[i].lt
      BY <1>10, <3>2
    <3>4. Available(x)
      BY <2>4, <2>5, <3>1, <3>3 DEF Available
    <3>5. PICK p \in pics : p.id = x.poc /\ p.referenced /\ (p.longTerm => x.lt)
      BY <2>2, <3>4
    <3> QED BY <3>3, <3>5
  <2> QED BY <2>2, <2>5, <2>6
<1> QED BY <1>9, <1>11, <1>16, <1>17, <1>18, <1>19, <1>20 DEF RefsInv
-----------------------------------------------------------------------------
\* The decoder tunes in, or nothing happens.
LEMMA RefsUnchanged == RefsInv /\ (TuneIn \/ UNCHANGED vars) => RefsInv'
<1> SUFFICES ASSUME RefsInv, TuneIn \/ UNCHANGED vars PROVE RefsInv'
  OBVIOUS
<1>1. /\ coded' = coded /\ dropping' = dropping /\ phase' = phase /\ header' = header
      /\ slice' = slice /\ firstInSequence' = firstInSequence
      /\ noOutputBeforeRecovery' = noOutputBeforeRecovery
      /\ pocRandomAccess' = pocRandomAccess /\ pics' = pics /\ lists' = lists
      /\ offset' = offset
  BY DEF TuneIn, vars, decoder
<1>2. /\ Stale' = Stale /\ Entered' = Entered /\ Synced' = Synced /\ InPicture' = InPicture
  BY <1>1 DEF Stale, Entered, Synced, InPicture
<1>3. Skips' = Skips
  BY <1>1, <1>2 DEF Skips
<1>4. Fresh' = Fresh /\ Begun' = Begun /\ Aside' = Aside
  BY <1>1, <1>3 DEF Fresh, Begun, Aside
<1>5. DpbKnown(coded') /\ HeaderKnown'
  BY <1>1, <1>2 DEF RefsInv, HeaderKnown, RefersKnown, RefersApart
<1>6. AccessKnown'
  BY <1>1, <1>2, <1>3, <1>4 DEF RefsInv, AccessKnown
<1>7. PicsKnown'
  BY <1>1, <1>2 DEF RefsInv, PicsKnown
<1>8. FreshKnown'
  BY <1>1, <1>2, <1>4 DEF RefsInv, FreshKnown, Holds
<1>9. BegunKnown'
  BY <1>1, <1>2, <1>4 DEF RefsInv, BegunKnown, Holds
<1>10. AsideKnown'
  BY <1>1, <1>2, <1>4 DEF RefsInv, AsideKnown, Available
<1>11. ListsKnown' /\ RefsResolved' /\ NeverGivesUp'
  BY <1>1 DEF RefsInv, ListsKnown, RefsResolved, NeverGivesUp
<1> QED BY <1>5, <1>6, <1>7, <1>8, <1>9, <1>10, <1>11 DEF RefsInv

LEMMA RefsInitial == Init => RefsInv
<1> SUFFICES ASSUME Init PROVE RefsInv
  OBVIOUS
<1>1. MaxPoc \in Nat /\ None = MaxPoc + 1
  BY ReferenceAssumption DEF None
<1>2. /\ phase = "idle" /\ pics = {} /\ lists = <<>> /\ offset = 0
      /\ pocRandomAccess = None /\ coded.dpb = {} /\ coded.used = {} /\ coded.count = 0
  BY DEF Init
<1>3. /\ ~Stale /\ ~Fresh /\ ~Begun /\ ~Synced /\ ~InPicture
  BY <1>2 DEF Stale, Fresh, Begun, Synced, InPicture
<1>4. DpbKnown(coded) /\ HeaderKnown
  BY <1>2, <1>3 DEF DpbKnown, HeaderKnown
<1>5. AccessKnown
  BY <1>1, <1>2, <1>3 DEF AccessKnown
<1>6. PicsKnown
  BY <1>2 DEF PicsKnown, MadeUpLast
<1>7. FreshKnown /\ BegunKnown /\ AsideKnown
  BY <1>3 DEF FreshKnown, BegunKnown, AsideKnown
<1>8. ListsKnown /\ RefsResolved /\ NeverGivesUp
  <2>1. DOMAIN <<>> = {}
    OBVIOUS
  <2> QED BY <1>2, <2>1 DEF ListsKnown, RefsResolved, NeverGivesUp
<1> QED BY <1>4, <1>5, <1>6, <1>7, <1>8 DEF RefsInv

\* What holds of the decoder's pictures holds from the first picture on.
LEMMA RefsInductive ==
    ASSUME "inactive" \notin Allow
    PROVE  /\ Init => PocInv /\ RefsInv
           /\ PocInv /\ RefsInv /\ [Next]_vars => (PocInv /\ RefsInv)'
<1>1. Init => PocInv /\ RefsInv
  BY PocInitial, RefsInitial
<1>2. PocInv /\ RefsInv /\ [Next]_vars => PocInv'
  BY PocReadSlice, PocInsertMissing, PocActivate, PocDecodeSlice, PocSend, PocUnchanged
     DEF Next, Decode
<1>3. PocInv /\ RefsInv /\ [Next]_vars => RefsInv'
  BY RefsReadSlice, RefsInsertMissing, RefsActivate, RefsDecodeSlice, RefsSend, RefsUnchanged
     DEF Next, Decode
<1> QED BY <1>1, <1>2, <1>3

\* Every active entry of every slice leads to one picture: the one that the
\* encoder used, or one made up for it in a GDR picture, with the entry's mark, for
\* every number of POC bits, pictures, entries and slices, wherever the decoder
\* tuned in and whether or not it drops the upper sublayer (constructRefPicList).
THEOREM ReferencesResolved ==
    ASSUME "inactive" \notin Allow PROVE Spec => []RefsResolved
<1>1. Init => PocInv /\ RefsInv
  BY RefsInductive
<1>2. PocInv /\ RefsInv /\ [Next]_vars => (PocInv /\ RefsInv)'
  BY RefsInductive
<1>3. PocInv /\ RefsInv => RefsResolved
  BY DEF RefsInv
<1> QED BY <1>1, <1>2, <1>3, PTL DEF Spec

\* No reference picture counts as lost and no null pointer is used, in any such
\* stream whose inactive entries name pictures that the decoder has as well
\* (xCreateLostPicture, checkRPL).
THEOREM DecoderGoesOn ==
    ASSUME "inactive" \notin Allow PROVE Spec => []NeverGivesUp
<1>1. Init => PocInv /\ RefsInv
  BY RefsInductive
<1>2. PocInv /\ RefsInv /\ [Next]_vars => (PocInv /\ RefsInv)'
  BY RefsInductive
<1>3. PocInv /\ RefsInv => NeverGivesUp
  BY DEF RefsInv
<1> QED BY <1>1, <1>2, <1>3, PTL DEF Spec
-----------------------------------------------------------------------------
\* The entries whose pictures the decoder has yet to make up.
Lacking == {i \in 1..header.active[slice] : \A p \in pics : p.id # header.rpl[i].poc}

\* In the picture that the decoder enters at, they are the missing ones.
LEMMA SearchFinds ==
    PocInv /\ RefsInv /\ phase = "check" /\ slice = 1 /\ header.kind = "GDR" /\ firstInSequence
    => Missing(Checked, ActiveEntries) = Lacking
<1> SUFFICES ASSUME PocInv, RefsInv, phase = "check", slice = 1, header.kind = "GDR",
                    firstInSequence
             PROVE  Missing(Checked, ActiveEntries) = Lacking
  OBVIOUS
<1>1. Ready(pics) /\ MadeUpLast(pics) /\ RefersApart(header)
  BY FreshFacts
<1>2. /\ Synced /\ RefersKnown(coded, header) /\ AccessKnown /\ FreshKnown
  BY DEF RefsInv, HeaderKnown, InPicture, PocInv, Joined
<1>3. noOutputBeforeRecovery /\ header.active[1] = Len(header.rpl) /\ ~Skips
  BY <1>2 DEF AccessKnown, RefersKnown, RandomAccess
<1>4. \A p \in pics : \E i \in 1..Len(header.rpl) :
         Holds(p, header.rpl[i]) /\ p.longTerm = header.rpl[i].lt
  BY <1>3, <1>2 DEF FreshKnown, Fresh
<1>5. Entering
  BY <1>1, <1>3, <1>4 DEF Entering
<1>6. Checked = pics
  BY <1>5, EnteringChecked
<1>7. DOMAIN ActiveEntries = 1..header.active[slice]
  BY ActiveFacts
<1>8. ASSUME NEW i \in 1..header.active[slice]
      PROVE  Named(pics, ActiveEntries[i], ActiveEntries[i].lt) = {}
                <=> \A p \in pics : p.id # header.rpl[i].poc
  <2>1. Named(pics, ActiveEntries[i], ActiveEntries[i].lt)
           = {p \in pics : p.id = header.rpl[i].poc}
    BY <1>5, EnteringNamed
  <2> QED BY <2>1
<1> QED BY <1>6, <1>7, <1>8 DEF Missing, Lacking

\* Each round of the search leaves fewer entries without a picture.
LEMMA RoundShrinks ==
    ASSUME PocInv, RefsInv, InsertMissing
    PROVE  /\ Lacking' \subseteq Lacking /\ Lacking' # Lacking
           /\ IsFiniteSet(Lacking)
           /\ phase = "check" /\ slice = 1 /\ header.kind = "GDR" /\ firstInSequence
           /\ phase' = "check" /\ slice' = 1 /\ header'.kind = "GDR" /\ firstInSequence'
<1>1. /\ Entering /\ firstInSequence /\ phase = "check" /\ phase' = "check"
      /\ pics' = pics \cup {MadeUp}
      /\ header' = header /\ slice' = slice /\ firstInSequence' = firstInSequence
  BY RoundFacts
<1>2. PICK i \in 1..header.active[slice] : /\ i \in Missing(pics, ActiveEntries)
                                           /\ MadeUp.id = header.rpl[i].poc
                                           /\ \A p \in pics : p.id # MadeUp.id
  BY RoundFacts
<1>3. i \in Lacking
  BY <1>2 DEF Lacking
<1>4. i \notin Lacking'
  BY <1>1, <1>2 DEF Lacking
<1>5. Lacking' \subseteq Lacking
  BY <1>1 DEF Lacking
<1>6. IsFiniteSet(Lacking)
  <2>1. header.active[slice] \in Int
    BY <1>1, ActiveFacts
  <2>2. IsFiniteSet(1..header.active[slice])
    BY <2>1, FS_Interval
  <2>3. Lacking \subseteq 1..header.active[slice]
    BY DEF Lacking
  <2> QED BY <2>2, <2>3, FS_Subset
<1> QED BY <1>1, <1>3, <1>4, <1>5, <1>6 DEF Entering

\* A round of the search for missing pictures.
LEMMA SearchRound ==
    ASSUME "inactive" \notin Allow
    PROVE  PocInv /\ RefsInv /\ InsertMissing => Unresolved' < Unresolved
<1>1. PocInv /\ RefsInv /\ phase = "check" /\ slice = 1 /\ header.kind = "GDR" /\ firstInSequence
      => Missing(Checked, ActiveEntries) = Lacking
  BY SearchFinds
<1>2. (PocInv /\ RefsInv /\ phase = "check" /\ slice = 1 /\ header.kind = "GDR"
          /\ firstInSequence => Missing(Checked, ActiveEntries) = Lacking)'
  BY <1>1, PTL
<1>3. PocInv /\ RefsInv /\ InsertMissing => (PocInv /\ RefsInv)'
  BY PocInsertMissing, RefsInsertMissing
<1> SUFFICES ASSUME PocInv, RefsInv, InsertMissing PROVE Unresolved' < Unresolved
  OBVIOUS
<1>4. /\ Lacking' \subseteq Lacking /\ Lacking' # Lacking
      /\ IsFiniteSet(Lacking)
      /\ phase = "check" /\ slice = 1 /\ header.kind = "GDR" /\ firstInSequence
      /\ phase' = "check" /\ slice' = 1 /\ header'.kind = "GDR" /\ firstInSequence'
  BY RoundShrinks
<1>5. Missing(Checked, ActiveEntries) = Lacking
  BY <1>1, <1>4
<1>6. Missing(Checked, ActiveEntries)' = Lacking'
  BY <1>2, <1>3, <1>4
<1>7. Cardinality(Lacking') <= Cardinality(Lacking) /\ Cardinality(Lacking') # Cardinality(Lacking)
      /\ IsFiniteSet(Lacking')
  BY <1>4, FS_Subset
<1>8. Cardinality(Lacking') \in Nat /\ Cardinality(Lacking) \in Nat
  BY <1>4, <1>7, FS_CardinalityType
<1>9. Cardinality(Lacking') < Cardinality(Lacking)
  BY <1>7, <1>8
<1> QED BY <1>5, <1>6, <1>9 DEF Unresolved

\* Each round of the search for missing pictures leaves fewer entries without one,
\* of any number of entries: the while loop of xDecodeSlice around
\* xCreateUnavailablePicture ends.
THEOREM SearchEnds ==
    ASSUME "inactive" \notin Allow PROVE Spec => SearchAdvances
<1> DEFINE Advance == phase = "check" /\ phase' = "check" => Unresolved' < Unresolved
<1>1. Init => PocInv /\ RefsInv
  BY RefsInductive
<1>2. PocInv /\ RefsInv /\ [Next]_vars => (PocInv /\ RefsInv)'
  BY RefsInductive
<1>3. PocInv /\ RefsInv /\ [Next]_vars => [Advance]_vars
  <2> SUFFICES ASSUME PocInv, RefsInv, [Next]_vars, vars' # vars, phase = "check",
                      phase' = "check"
               PROVE  Unresolved' < Unresolved
    OBVIOUS
  <2>1. InsertMissing
    <3>1. Next
      OBVIOUS
    <3>2. tunedIn
      BY DEF PocInv, Joined
    <3>3. ~Send /\ ~TuneIn /\ ~ReadSlice /\ ~DecodeSlice /\ ~Activate
      BY <3>2 DEF Send, TuneIn, ReadSlice, DecodeSlice, Activate
    <3> QED BY <3>1, <3>3 DEF Next, Decode
  <2> QED BY <2>1, SearchRound
<1> QED BY <1>1, <1>2, <1>3, PTL DEF Spec, SearchAdvances, Advance
-----------------------------------------------------------------------------
(***************************************************************************)
(* Types.  The cycles of a list rise, so that none is read as negative.    *)
(***************************************************************************)
LEMMA FollowerType ==
    ASSUME NEW s \in Coding, NEW h \in Followers(s)
    PROVE  h \in Header /\ Rising(h.poc, h.rpl) /\ 1 \in DOMAIN h.active
<1>1. /\ h.kind \in Kinds /\ h.poc \in 0..MaxPoc /\ h.level \in Levels
      /\ h.rpl \in Seq(Entry) /\ h.active \in Seq(Nat) /\ 1 \in 1..Len(h.active)
  BY FollowerHeader
<1>2. PICK g, list, active :
         /\ g \in Starts(s) /\ list \in ListsOf(s, g)
         /\ h = [kind |-> g.kind, poc |-> g.poc, level |-> g.level, rpl |-> list.rpl,
                 active |-> active]
  <2>1. PICK g \in Starts(s) : h \in UNION {HeadersFrom(g, list) : list \in ListsOf(s, g)}
    BY DEF Followers
  <2>2. PICK list \in ListsOf(s, g) : h \in HeadersFrom(g, list)
    BY <2>1
  <2>3. PICK active \in Slices(g, list) :
           h = [kind |-> g.kind, poc |-> g.poc, level |-> g.level, rpl |-> list.rpl,
                active |-> active]
    BY <2>2 DEF HeadersFrom
  <2> QED BY <2>1, <2>2, <2>3
<1>3. h.poc = g.poc /\ h.rpl = list.rpl
  BY <1>2
<1>4. Rising(g.poc, list.rpl)
  BY <1>2 DEF ListsOf
<1>5. h = [kind |-> h.kind, poc |-> h.poc, level |-> h.level, rpl |-> h.rpl,
           active |-> h.active]
  BY <1>2
<1>6. h \in Header
  BY <1>1, <1>5 DEF Header
<1> QED BY <1>1, <1>3, <1>4, <1>6

LEMMA LastValueNat ==
    ASSUME NEW N \in Nat, NEW values, NEW S \in SUBSET (1..N), NEW n \in Nat,
           \A j \in S : values[j] \in Nat
    PROVE  LastValue(values, S, n) \in Nat
<1> DEFINE before == {j \in S : j < n}
<1>1. CASE before = {}
  BY <1>1 DEF LastValue
<1>2. CASE before # {}
  <2>1. before \in SUBSET (0..N) /\ before \subseteq S
    <3>1. \A j \in before : j \in S
      OBVIOUS
    <3>2. \A j \in S : j \in 0..N
      OBVIOUS
    <3> HIDE DEF before
    <3> QED BY <3>1, <3>2
  <2>2. \E x \in before : \A y \in before : x >= y
    BY <1>2, <2>1, GreatestNat
  <2> HIDE DEF before
  <2>3. Max(before) \in before
    BY <2>2 DEF Max
  <2>4. values[Max(before)] \in Nat
    BY <2>1, <2>3
  <2> QED BY <1>2, <2>4 DEF LastValue, before
<1> QED BY <1>1, <1>2

LEMMA ParsedType ==
    ASSUME NEW h, h.rpl \in Seq(Entry), h.poc \in Nat, Rising(h.poc, h.rpl)
    PROVE  ParsedRpl(h) \in Seq(ParsedEntry)
<1> DEFINE far == {j \in DOMAIN h.rpl : h.rpl[j].msb}
           cycles == [j \in DOMAIN h.rpl |-> Cycle(h.poc, h.rpl[j])]
           R == ParsedRpl(h)
           N == Len(h.rpl)
<1>1. /\ R \in Seq([lt : BOOLEAN, id : Int, msb : BOOLEAN, cycle : Int])
      /\ Len(R) = N
      /\ \A i \in 1..N : R[i].cycle = CycleSoFar(h, i)
  BY ListReadRight
<1>2. /\ N \in Nat /\ DOMAIN h.rpl = 1..N
      /\ \A i \in 1..N : Cycle(h.poc, h.rpl[i]) \in Int
  BY SyntaxType
<1>3. \A j \in far : cycles[j] \in Nat
  <2>1. \A j \in far : Cycle(h.poc, h.rpl[j]) >= 0
    BY DEF Rising
  <2>2. \A j \in far : j \in 1..N /\ cycles[j] = Cycle(h.poc, h.rpl[j])
    BY <1>2
  <2> HIDE DEF far, cycles
  <2> QED BY <1>2, <2>1, <2>2
<1>4. far \in SUBSET (1..N)
  BY <1>2
<1>5. \A i : CycleSoFar(h, i) = LastValue(cycles, far, i + 1)
  BY DEF CycleSoFar
<1> HIDE DEF R, N, far, cycles
<1>6. ASSUME NEW i \in 1..N PROVE R[i] \in ParsedEntry
  <2>1. i + 1 \in Nat
    BY <1>2
  <2>2. LastValue(cycles, far, i + 1) \in Nat
    BY <1>2, <1>3, <1>4, <2>1, LastValueNat
  <2>3. R[i].cycle \in Nat
    BY <1>1, <1>5, <2>2
  <2>4. R[i] \in [lt : BOOLEAN, id : Int, msb : BOOLEAN, cycle : Int]
    <3> DEFINE Read == [lt : BOOLEAN, id : Int, msb : BOOLEAN, cycle : Int]
    <3>1. R \in Seq(Read) /\ i \in 1..Len(R)
      BY <1>1
    <3> HIDE DEF Read
    <3>2. R[i] \in Read
      BY <3>1
    <3> QED BY <3>2 DEF Read
  <2> QED BY <2>3, <2>4 DEF ParsedEntry
<1>7. \A i \in 1..Len(R) : R[i] \in ParsedEntry
  BY <1>1, <1>6
<1>8. R \in Seq(ParsedEntry)
  BY <1>1, <1>7, SeqOfElements
<1> QED BY <1>8 DEF R

\* What TypeOK leaves to the streams' rules.
Typed == TypeOK /\ Rising(header.poc, header.rpl)

LEMMA NoHeaderTyped == NoHeader \in Header /\ Rising(NoHeader.poc, NoHeader.rpl)
                       /\ 1 \in DOMAIN NoHeader.active
<1>1. MaxPoc \in Nat
  BY ReferenceAssumption
<1>2. <<>> \in Seq(Entry) /\ <<0>> \in Seq(Nat) /\ 1 \in DOMAIN <<0>> /\ DOMAIN <<>> = {}
  OBVIOUS
<1>3. NoHeader \in Header
  BY <1>1, <1>2 DEF NoHeader, Header, Kinds, Levels
<1>4. NoHeader.poc = 0 /\ NoHeader.rpl = <<>> /\ NoHeader.active = <<0>>
  BY DEF NoHeader
<1>5. Rising(0, <<>>)
  BY <1>2 DEF Rising
<1> QED BY <1>2, <1>3, <1>4, <1>5

LEMMA EndSliceTyped ==
    ASSUME Typed, EndSlice
    PROVE  /\ header' \in Header /\ Rising(header'.poc, header'.rpl)
           /\ slice' \in DOMAIN header'.active
           /\ phase' \in {"slice", "idle"} /\ POC' = 0 /\ rpl' = <<>> /\ lists' = <<>>
<1>1. POC' = 0 /\ rpl' = <<>> /\ lists' = <<>>
  BY DEF EndSlice
<1>2. header \in Header /\ Rising(header.poc, header.rpl) /\ slice \in DOMAIN header.active
  BY DEF Typed, TypeOK
<1>3. CASE slice < Len(header.active)
  <2>1. phase' = "slice" /\ slice' = slice + 1 /\ header' = header
    BY <1>3 DEF EndSlice
  <2>2. header.active \in Seq(Nat)
    BY <1>2 DEF Header
  <2>3. slice + 1 \in DOMAIN header.active
    BY <1>2, <1>3, <2>2
  <2> QED BY <1>1, <1>2, <2>1, <2>3
<1>4. CASE ~(slice < Len(header.active))
  <2>1. phase' = "idle" /\ slice' = 1 /\ header' = NoHeader
    BY <1>4 DEF EndSlice
  <2> QED BY <1>1, <2>1, NoHeaderTyped
<1> QED BY <1>3, <1>4

LEMMA TypedInitial == Init => Typed
<1> SUFFICES ASSUME Init PROVE Typed
  OBVIOUS
<1>1. coded \in Coding
  BY PocInitial DEF PocInv, PocTypes
<1>2. None \in Int /\ 0 \in Int
  BY ReferenceAssumption DEF None
<1>3. <<>> \in Seq(ParsedEntry) /\ <<>> \in Seq(SUBSET Picture)
  OBVIOUS
<1>4. /\ tunedIn = FALSE /\ dropping \in BOOLEAN /\ phase = "idle" /\ header = NoHeader
      /\ slice = 1 /\ POC = 0 /\ rpl = <<>> /\ firstInSequence = TRUE
      /\ noOutputBeforeRecovery = FALSE /\ lastNoOutputBeforeRecovery = FALSE
      /\ pocRandomAccess = None /\ prevTid0POC = 0 /\ pics = {} /\ lists = <<>> /\ offset = 0
  BY DEF Init
<1> QED BY <1>1, <1>2, <1>3, <1>4, NoHeaderTyped DEF Typed, TypeOK
-----------------------------------------------------------------------------
LEMMA TypedSend == PocInv /\ Typed /\ PocInv' /\ RefsInv' /\ Send => Typed'
<1> SUFFICES ASSUME PocInv, Typed, PocInv', RefsInv', Send PROVE Typed'
  OBVIOUS
<1>1. PICK h \in Followers(coded) :
         /\ coded' = Coded(coded, h)
         /\ IF tunedIn /\ ~(dropping /\ h.level = "upper")
            THEN phase' = "slice" /\ header' = h
            ELSE phase' = phase /\ header' = header
  BY DEF Send
<1>2. coded \in Coding /\ phase = "idle" /\ slice = 1
  BY DEF PocInv, PocTypes, PictureSound, Send
<1>3. h \in Header /\ Rising(h.poc, h.rpl) /\ 1 \in DOMAIN h.active
  BY <1>2, FollowerType
<1>4. /\ tunedIn' = tunedIn /\ dropping' = dropping /\ slice' = slice
      /\ POC' = POC /\ rpl' = rpl
      /\ firstInSequence' = firstInSequence
      /\ noOutputBeforeRecovery' = noOutputBeforeRecovery
      /\ lastNoOutputBeforeRecovery' = lastNoOutputBeforeRecovery
      /\ pocRandomAccess' = pocRandomAccess /\ prevTid0POC' = prevTid0POC
      /\ pics' = pics /\ lists' = lists /\ offset' = offset
  BY DEF Send, decoder
<1>5. coded' \in Coding
  BY DEF PocInv, PocTypes
<1>6. /\ header' \in Header /\ Rising(header'.poc, header'.rpl)
      /\ slice' \in DOMAIN header'.active /\ phase' \in {"slice", "idle"}
  BY <1>1, <1>2, <1>3, <1>4 DEF Typed, TypeOK
<1> QED BY <1>4, <1>5, <1>6 DEF Typed, TypeOK

LEMMA TypedReadSlice == PocInv /\ Typed /\ PocInv' /\ RefsInv' /\ ReadSlice => Typed'
<1> SUFFICES ASSUME PocInv, Typed, PocInv', RefsInv', ReadSlice PROVE Typed'
  OBVIOUS
<1>1. /\ phase = "slice"
      /\ noOutputBeforeRecovery' = NoOutputBeforeRecovery(header)
      /\ lastNoOutputBeforeRecovery' = LastNoOutputBeforeRecovery(header)
      /\ IF Skipped(header) THEN EndSlice
         ELSE /\ phase' = "check" /\ POC' = SlicePoc(header) /\ rpl' = ParsedRpl(header)
              /\ header' = header /\ slice' = slice /\ lists' = lists
      /\ tunedIn' = tunedIn /\ dropping' = dropping /\ firstInSequence' = firstInSequence
  BY DEF ReadSlice
<1>2. /\ coded' \in Coding /\ prevTid0POC' \in Int /\ offset' \in Int
      /\ pocRandomAccess' \in Int /\ pics' \subseteq Picture
  BY DEF PocInv, PocTypes, RefsInv, AccessKnown, PicsKnown
<1>3. /\ tunedIn \in BOOLEAN /\ dropping \in BOOLEAN /\ firstInSequence \in BOOLEAN
      /\ noOutputBeforeRecovery \in BOOLEAN /\ lastNoOutputBeforeRecovery \in BOOLEAN
      /\ header \in Header /\ Rising(header.poc, header.rpl) /\ slice \in DOMAIN header.active
      /\ lists \in Seq(SUBSET Picture)
  BY DEF Typed, TypeOK
<1>4. NoOutputBeforeRecovery(header) \in BOOLEAN
  BY <1>3 DEF NoOutputBeforeRecovery
<1>5. LastNoOutputBeforeRecovery(header) \in BOOLEAN
  BY <1>3, <1>4 DEF LastNoOutputBeforeRecovery
<1>6. SlicePoc(header) \in Int
  BY <1>1, ReadPoc
<1>7. ParsedRpl(header) \in Seq(ParsedEntry)
  <2>1. header.rpl \in Seq(Entry) /\ header.poc \in Nat
    BY <1>3, ReferenceAssumption DEF Header
  <2> QED BY <1>3, <2>1, ParsedType
<1>8. <<>> \in Seq(ParsedEntry) /\ <<>> \in Seq(SUBSET Picture) /\ 0 \in Int
  OBVIOUS
<1>9. /\ header' \in Header /\ Rising(header'.poc, header'.rpl)
      /\ slice' \in DOMAIN header'.active
      /\ phase' \in {"slice", "idle", "check"} /\ POC' \in Int
      /\ rpl' \in Seq(ParsedEntry) /\ lists' \in Seq(SUBSET Picture)
  <2>1. CASE Skipped(header)
    BY <1>1, <1>8, <2>1, EndSliceTyped
  <2>2. CASE ~Skipped(header)
    BY <1>1, <1>3, <1>6, <1>7, <2>2
  <2> QED BY <2>1, <2>2
<1>10. /\ tunedIn' \in BOOLEAN /\ dropping' \in BOOLEAN /\ firstInSequence' \in BOOLEAN
       /\ noOutputBeforeRecovery' \in BOOLEAN /\ lastNoOutputBeforeRecovery' \in BOOLEAN
  BY <1>1, <1>3, <1>4, <1>5
<1> QED BY <1>2, <1>9, <1>10 DEF Typed, TypeOK

LEMMA TypedInsertMissing ==
    PocInv /\ Typed /\ PocInv' /\ RefsInv' /\ InsertMissing => Typed'
<1> SUFFICES ASSUME PocInv, Typed, PocInv', RefsInv', InsertMissing PROVE Typed'
  OBVIOUS
<1>1. /\ phase' = "check" \/ phase' = "failed"
      /\ UNCHANGED <<coded, tunedIn, dropping, header, slice, POC, rpl,
                     firstInSequence, noOutputBeforeRecovery,
                     lastNoOutputBeforeRecovery, pocRandomAccess, lists, offset>>
  BY DEF InsertMissing
<1>2. prevTid0POC' \in Int /\ pics' \subseteq Picture
  BY DEF PocInv, PocTypes, RefsInv, PicsKnown
<1> QED BY <1>1, <1>2 DEF Typed, TypeOK

LEMMA TypedActivate == PocInv /\ Typed /\ PocInv' /\ RefsInv' /\ Activate => Typed'
<1> SUFFICES ASSUME PocInv, Typed, PocInv', RefsInv', Activate PROVE Typed'
  OBVIOUS
<1>1. /\ phase = "check"
      /\ pics' = Constructed(Present)
      /\ lists' = [i \in DOMAIN ActiveEntries |-> Candidates(Constructed(Present), rpl[i])]
      /\ phase' = "failed" \/ phase' = "decode"
      /\ firstInSequence' = FALSE
      /\ UNCHANGED <<coded, tunedIn, dropping, header, slice, POC, rpl,
                     noOutputBeforeRecovery, lastNoOutputBeforeRecovery,
                     pocRandomAccess, prevTid0POC, offset>>
  BY DEF Activate
<1>2. pics' \subseteq Picture
  BY DEF RefsInv, PicsKnown
<1>3. \A e : Candidates(pics', e) \subseteq pics'
  BY DEF Candidates
<1>4. /\ DOMAIN ActiveEntries = 1..header.active[slice]
      /\ header.active[slice] \in Nat
  BY <1>1, ActiveFacts
<1>5. \A i \in 1..header.active[slice] :
         Candidates(Constructed(Present), rpl[i]) \in SUBSET Picture
  BY <1>1, <1>2, <1>3
<1>6. lists' \in [1..header.active[slice] -> SUBSET Picture]
  BY <1>1, <1>4, <1>5
<1>7. lists' \in Seq(SUBSET Picture)
  BY <1>4, <1>6
<1> QED BY <1>1, <1>2, <1>7 DEF Typed, TypeOK

LEMMA TypedDecodeSlice == PocInv /\ Typed /\ DecodeSlice => Typed'
<1> SUFFICES ASSUME PocInv, Typed, DecodeSlice PROVE Typed'
  OBVIOUS
<1>1. /\ EndSlice
      /\ UNCHANGED <<coded, tunedIn, dropping, firstInSequence,
                     noOutputBeforeRecovery, lastNoOutputBeforeRecovery,
                     pocRandomAccess, prevTid0POC, pics, offset>>
  BY DEF DecodeSlice
<1>2. <<>> \in Seq(ParsedEntry) /\ <<>> \in Seq(SUBSET Picture) /\ 0 \in Int
  OBVIOUS
<1>3. /\ header' \in Header /\ Rising(header'.poc, header'.rpl)
      /\ slice' \in DOMAIN header'.active
      /\ phase' \in {"slice", "idle"} /\ POC' \in Int
      /\ rpl' \in Seq(ParsedEntry) /\ lists' \in Seq(SUBSET Picture)
  BY <1>1, <1>2, EndSliceTyped
<1> QED BY <1>1, <1>3 DEF Typed, TypeOK

LEMMA TypedUnchanged == Typed /\ (TuneIn \/ UNCHANGED vars) => Typed'
<1> SUFFICES ASSUME Typed, TuneIn \/ UNCHANGED vars PROVE Typed'
  OBVIOUS
<1>1. /\ coded' = coded /\ dropping' = dropping /\ phase' = phase /\ header' = header
      /\ slice' = slice /\ POC' = POC /\ rpl' = rpl /\ firstInSequence' = firstInSequence
      /\ noOutputBeforeRecovery' = noOutputBeforeRecovery
      /\ lastNoOutputBeforeRecovery' = lastNoOutputBeforeRecovery
      /\ pocRandomAccess' = pocRandomAccess /\ prevTid0POC' = prevTid0POC
      /\ pics' = pics /\ lists' = lists
      /\ offset' = offset /\ (tunedIn' = tunedIn \/ tunedIn' = TRUE)
  BY DEF TuneIn, vars, decoder
<1> QED BY <1>1 DEF Typed, TypeOK

\* Every variable has its type: of the parsed entries, that no cycle is negative,
\* and of the pictures made up, that they have POCs of the stream (parseRefPicList,
\* xCreateUnavailablePicture).
THEOREM ReferenceTypes == ASSUME "inactive" \notin Allow PROVE Spec => []TypeOK
<1> DEFINE Inv == PocInv /\ RefsInv /\ Typed
<1>1. Init => Inv
  BY RefsInductive, TypedInitial
<1>2. Inv /\ [Next]_vars => Inv'
  <2> SUFFICES ASSUME Inv, [Next]_vars PROVE Inv'
    OBVIOUS
  <2>1. PocInv' /\ RefsInv'
    BY RefsInductive
  <2>2. Typed'
    BY <2>1, TypedSend, TypedReadSlice, TypedInsertMissing, TypedActivate,
       TypedDecodeSlice, TypedUnchanged DEF Next, Decode
  <2> QED BY <2>1, <2>2
<1>3. Inv => TypeOK
  BY DEF Typed
<1> HIDE DEF Inv
<1> QED BY <1>1, <1>2, <1>3, PTL DEF Spec
=============================================================================
