--------------------------- MODULE NalChannel_proofs ---------------------------
(***************************************************************************)
(* What NAL units look like in a file, for all units that there may be:    *)
(* no byte of a unit is taken for a part of a start code, and the payload  *)
(* is read back without emulation prevention as it was written.  So the    *)
(* decoder always stands in front of the next unit; the sizes of the       *)
(* substreams, which count the emulation prevention, cut them where they   *)
(* were joined; it gets the units of the encoder, one by one, and finds    *)
(* where pictures begin.                                                   *)
(***************************************************************************)
EXTENDS NalChannel, IntegerFacts, SequenceTheorems, FiniteSetTheorems

-----------------------------------------------------------------------------
(* Sequences of bytes. *)
LEMMA Wider ==
    ASSUME NEW S, NEW T, S \subseteq T, NEW s \in Seq(S)
    PROVE  s \in Seq(T)
OBVIOUS

\* s has none of the three bytes that a unit must not have.
Clean(s) == \A i \in 1..(Len(s) - 2) : ~(s[i] = 0 /\ s[i + 1] = 0 /\ s[i + 2] <= 2)

\* s does not end in a zero.
Ended(s) == Len(s) > 0 => s[Len(s)] # 0

\* s ends in exactly z zeros.
Behind(s, z) ==
    /\ z \in 0..2 /\ z <= Len(s)
    /\ z = 0 => Ended(s)
    /\ z = 1 => s[Len(s)] = 0 /\ (Len(s) > 1 => s[Len(s) - 1] # 0)
    /\ z = 2 => s[Len(s)] = 0 /\ s[Len(s) - 1] = 0

LEMMA OneMore ==
    ASSUME NEW s \in Seq(Nat), NEW z, NEW v \in Nat, Clean(s), Behind(s, z), z = 2 => v > 2
    PROVE  LET t == Append(s, v) IN
           t \in Seq(Nat) /\ Clean(t) /\ Behind(t, IF v # 0 THEN 0 ELSE z + 1)
<1> DEFINE t == Append(s, v)
<1>1. /\ t \in Seq(Nat) /\ Len(t) = Len(s) + 1 /\ Len(s) \in Nat
      /\ t[Len(s) + 1] = v /\ \A i \in 1..Len(s) : t[i] = s[i]
  OBVIOUS
<1>2. z \in 0..2
  BY DEF Behind
<1> HIDE DEF t
<1>3. Clean(t)
  <2> SUFFICES ASSUME NEW i \in 1..(Len(t) - 2), t[i] = 0, t[i + 1] = 0, t[i + 2] <= 2
               PROVE  FALSE
    BY DEF Clean
  <2>1. CASE i <= Len(s) - 2
    <3>1. /\ i \in 1..(Len(s) - 2)
          /\ i \in 1..Len(s) /\ i + 1 \in 1..Len(s) /\ i + 2 \in 1..Len(s)
      BY <1>1, <2>1
    <3>2. t[i] = s[i] /\ t[i + 1] = s[i + 1] /\ t[i + 2] = s[i + 2]
      BY <1>1, <3>1
    <3> QED BY <3>1, <3>2 DEF Clean
  <2>2. CASE i = Len(s) - 1
    <3>1. s[Len(s)] = 0 /\ s[Len(s) - 1] = 0 /\ Len(s) > 1 /\ v <= 2
      BY <1>1, <2>2
    <3>2. z = 2
      BY <1>2, <3>1 DEF Behind, Ended
    <3> QED BY <3>1, <3>2
  <2> QED BY <1>1, <2>1, <2>2
<1>4. ASSUME v # 0 PROVE Behind(t, 0)
  BY <1>1, <1>4 DEF Behind, Ended
<1>5. ASSUME v = 0 PROVE Behind(t, z + 1)
  <2>1. CASE z = 0
    <3>1. Len(s) > 0 => Len(s) \in 1..Len(s) /\ s[Len(s)] # 0
      BY <1>1, <2>1 DEF Behind, Ended
    <3>2. Len(t) > 1 => t[Len(t) - 1] # 0
      BY <1>1, <3>1
    <3> QED BY <1>1, <1>5, <2>1, <3>2 DEF Behind
  <2>2. CASE z = 1
    <3>1. Len(s) \in 1..Len(s) /\ s[Len(s)] = 0
      BY <1>1, <2>2 DEF Behind
    <3>2. t[Len(t) - 1] = 0
      BY <1>1, <3>1
    <3> QED BY <1>1, <1>5, <2>2, <3>2 DEF Behind
  <2> QED BY <1>2, <1>5, <2>1, <2>2
<1>6. Behind(t, IF v # 0 THEN 0 ELSE z + 1)
  BY <1>4, <1>5
<1> QED BY <1>1, <1>3, <1>6 DEF t

LEMMA Joined ==
    ASSUME NEW a \in Seq(Nat), NEW b \in Seq(Nat)
    PROVE  /\ a \o b \in Seq(Nat) /\ Len(a \o b) = Len(a) + Len(b)
           /\ \A i \in 1..Len(a) : (a \o b)[i] = a[i]
           /\ \A i \in (Len(a) + 1)..(Len(a) + Len(b)) : (a \o b)[i] = b[i - Len(a)]
BY ConcatProperties

LEMMA Appended ==
    ASSUME NEW s \in Seq(Nat), NEW v \in Nat
    PROVE  /\ Append(s, v) \in Seq(Nat) /\ Len(Append(s, v)) = Len(s) + 1
           /\ Append(s, v)[Len(s) + 1] = v
           /\ \A i \in 1..Len(s) : Append(s, v)[i] = s[i]
OBVIOUS

LEMMA CleanJoin ==
    ASSUME NEW a \in Seq(Nat), NEW b \in Seq(Nat), Clean(a), Clean(b), Ended(a)
    PROVE  a \o b \in Seq(Nat) /\ Clean(a \o b) /\ (Ended(b) => Ended(a \o b))
<1> DEFINE t == a \o b
<1>1. /\ t \in Seq(Nat) /\ Len(t) = Len(a) + Len(b) /\ Len(a) \in Nat /\ Len(b) \in Nat
      /\ \A i \in 1..Len(a) : t[i] = a[i]
      /\ \A i \in (Len(a) + 1)..Len(t) : t[i] = b[i - Len(a)]
  BY ConcatProperties
<1> HIDE DEF t
<1>0. Len(t) = Len(a) + Len(b) /\ Len(a) \in Nat /\ Len(b) \in Nat
  BY <1>1
<1>2. Clean(t)
  <2> SUFFICES ASSUME NEW i \in 1..(Len(t) - 2), t[i] = 0, t[i + 1] = 0, t[i + 2] <= 2
               PROVE  FALSE
    BY DEF Clean
  <2>1. CASE i <= Len(a) - 2
    <3>1. /\ i \in 1..(Len(a) - 2)
          /\ i \in 1..Len(a) /\ i + 1 \in 1..Len(a) /\ i + 2 \in 1..Len(a)
      BY <1>0, <2>1
    <3>2. t[i] = a[i] /\ t[i + 1] = a[i + 1] /\ t[i + 2] = a[i + 2]
      BY <1>1, <3>1
    <3> QED BY <3>1, <3>2 DEF Clean
  <2>2. CASE i = Len(a) - 1 \/ i = Len(a)
    <3>1. Len(a) \in 1..Len(a) /\ Len(a) > 0 /\ (i = Len(a) \/ i + 1 = Len(a))
      BY <1>0, <2>2
    <3>2. t[Len(a)] = a[Len(a)] /\ t[Len(a)] = 0
      BY <1>1, <3>1
    <3> QED BY <3>1, <3>2 DEF Ended
  <2>3. CASE i > Len(a)
    <3> DEFINE j == i - Len(a)
    <3>1. /\ i \in (Len(a) + 1)..Len(t) /\ i + 1 \in (Len(a) + 1)..Len(t)
          /\ i + 2 \in (Len(a) + 1)..Len(t) /\ j \in 1..(Len(b) - 2)
          /\ (i + 1) - Len(a) = j + 1 /\ (i + 2) - Len(a) = j + 2
      BY <1>1, <2>3
    <3>2. t[i] = b[j] /\ t[i + 1] = b[j + 1] /\ t[i + 2] = b[j + 2]
      BY <1>1, <3>1
    <3> HIDE DEF j
    <3> QED BY <3>1, <3>2 DEF Clean
  <2> QED BY <1>1, <2>1, <2>2, <2>3
<1>3. ASSUME Ended(b) PROVE Ended(t)
  <2>1. CASE Len(b) = 0
    <3>1. Len(t) = Len(a) /\ (Len(a) > 0 => Len(a) \in 1..Len(a))
      BY <1>1, <2>1
    <3> QED BY <1>1, <3>1 DEF Ended
  <2>2. CASE Len(b) > 0
    <3>1. Len(t) \in (Len(a) + 1)..Len(t) /\ Len(t) - Len(a) = Len(b)
      BY <1>1, <2>2
    <3>2. t[Len(t)] = b[Len(b)]
      BY <1>1, <3>1
    <3> QED BY <1>3, <2>2, <3>2 DEF Ended
  <2> QED BY <1>1, <2>1, <2>2
<1> QED BY <1>1, <1>2, <1>3 DEF t

-----------------------------------------------------------------------------
(* Emulation prevention, written. *)
Writing == [out : Seq(Nat), zeroCount : 0..2]

PutSound(w) == w \in Writing /\ Clean(w.out) /\ Behind(w.out, w.zeroCount)

LEMMA PutAppends ==
    ASSUME NEW w \in Writing, NEW v \in Nat
    PROVE  Put(w, v) =
               IF w.zeroCount = 2 /\ v <= 3
               THEN [out |-> Append(Append(w.out, 3), v), zeroCount |-> IF v # 0 THEN 0 ELSE 1]
               ELSE [out |-> Append(w.out, v),
                     zeroCount |-> IF v # 0 THEN 0 ELSE w.zeroCount + 1]
<1> DEFINE s == w.out
<1>1. s \in Seq(Nat)
  BY DEF Writing
<1>2. Put(w, v) = [out |-> s \o (IF w.zeroCount = 2 /\ v <= 3 THEN <<3, v>> ELSE <<v>>),
                   zeroCount |-> IF v # 0 THEN 0
                                 ELSE (IF w.zeroCount = 2 /\ v <= 3 THEN 0 ELSE w.zeroCount) + 1]
  BY DEF Put
<1> HIDE DEF s
<1>3. s \o <<v>> = Append(s, v)
  BY <1>1
<1>4. s \o <<3, v>> = Append(Append(s, 3), v)
  BY <1>1
<1>5. CASE w.zeroCount = 2 /\ v <= 3
  <2>1. Put(w, v) = [out |-> s \o <<3, v>>, zeroCount |-> IF v # 0 THEN 0 ELSE 1]
    BY <1>2, <1>5
  <2> QED BY <1>4, <1>5, <2>1 DEF s
<1>6. CASE ~(w.zeroCount = 2 /\ v <= 3)
  BY <1>2, <1>3, <1>6 DEF s
<1> QED BY <1>5, <1>6

LEMMA PutKeeps ==
    ASSUME NEW w, PutSound(w), NEW v \in Nat
    PROVE  PutSound(Put(w, v))
<1>1. w \in Writing /\ w.out \in Seq(Nat) /\ Clean(w.out) /\ Behind(w.out, w.zeroCount)
  BY DEF PutSound, Writing
<1>2. CASE w.zeroCount = 2 /\ v <= 3
  <2> DEFINE a == Append(w.out, 3)
             t == Append(a, v)
  <2>1. a \in Seq(Nat) /\ Clean(a) /\ Behind(a, 0)
    BY <1>1, OneMore
  <2> HIDE DEF a
  <2>2. t \in Seq(Nat) /\ Clean(t) /\ Behind(t, IF v # 0 THEN 0 ELSE 0 + 1)
    BY <2>1, OneMore
  <2>3. Put(w, v) = [out |-> t, zeroCount |-> IF v # 0 THEN 0 ELSE 1]
    BY <1>1, <1>2, PutAppends DEF a
  <2> HIDE DEF t
  <2> QED BY <2>2, <2>3 DEF PutSound, Writing
<1>3. CASE ~(w.zeroCount = 2 /\ v <= 3)
  <2> DEFINE t == Append(w.out, v)
             z == IF v # 0 THEN 0 ELSE w.zeroCount + 1
  <2>1. w.zeroCount = 2 => v > 2
    BY <1>3
  <2>2. t \in Seq(Nat) /\ Clean(t) /\ Behind(t, z)
    BY <1>1, <2>1, OneMore
  <2>3. Put(w, v) = [out |-> t, zeroCount |-> z]
    BY <1>1, <1>3, PutAppends
  <2> HIDE DEF t, z
  <2>4. z \in 0..2
    BY <2>2 DEF Behind
  <2> QED BY <2>2, <2>3, <2>4 DEF PutSound, Writing
<1> QED BY <1>2, <1>3

LEMMA PutType ==
    ASSUME NEW w \in Writing, NEW v \in Nat
    PROVE  Put(w, v) \in Writing
<1>1. w.out \in Seq(Nat) /\ w.zeroCount \in 0..2
  BY DEF Writing
<1> DEFINE a == Append(w.out, 3)
           b == Append(a, v)
           c == Append(w.out, v)
<1>2. a \in Seq(Nat) /\ c \in Seq(Nat)
  BY <1>1
<1>3. b \in Seq(Nat)
  <2> HIDE DEF a
  <2> QED BY <1>2
<1> HIDE DEF a, b, c
<1>4. Put(w, v) = IF w.zeroCount = 2 /\ v <= 3
                  THEN [out |-> b, zeroCount |-> IF v # 0 THEN 0 ELSE 1]
                  ELSE [out |-> c, zeroCount |-> IF v # 0 THEN 0 ELSE w.zeroCount + 1]
  BY PutAppends DEF a, b, c
<1>5. CASE w.zeroCount = 2 /\ v <= 3
  BY <1>3, <1>4, <1>5 DEF Writing
<1>6. CASE ~(w.zeroCount = 2 /\ v <= 3)
  <2>1. (IF v # 0 THEN 0 ELSE w.zeroCount + 1) \in 0..2
    BY <1>1, <1>6
  <2>2. Put(w, v) = [out |-> c, zeroCount |-> IF v # 0 THEN 0 ELSE w.zeroCount + 1]
    BY <1>4, <1>6
  <2> QED BY <1>2, <2>1, <2>2 DEF Writing
<1> QED BY <1>5, <1>6

\* What has been written after each byte of a payload.
WrittenSteps(after, rbsp) ==
    /\ after \in [0..Len(rbsp) -> Writing]
    /\ after[0] = NothingPut
    /\ \A n \in 1..Len(rbsp) : after[n] = Put(after[n - 1], rbsp[n])
    /\ Escaped(rbsp) = after[Len(rbsp)].out
                       \o (IF after[Len(rbsp)].zeroCount > 0 THEN <<3>> ELSE <<>>)

LEMMA EscapedSteps ==
    ASSUME NEW rbsp \in Seq(Nat)
    PROVE  \E after : WrittenSteps(after, rbsp)
<1> DEFINE N == Len(rbsp)
           step == [xn \in Writing \X (1..N) |-> Put(xn[1], rbsp[xn[2]])]
           after[n \in 0..N] == IF n = 0 THEN NothingPut ELSE Put(after[n - 1], rbsp[n])
<1>1. N \in Nat /\ rbsp \in [1..N -> Nat]
  OBVIOUS
<1>2. Escaped(rbsp) = after[N].out \o (IF after[N].zeroCount > 0 THEN <<3>> ELSE <<>>)
  BY Zenon DEF Escaped
<1> HIDE DEF N
<1>3. step \in [Writing \X (1..N) -> Writing]
  <2>1. ASSUME NEW xn \in Writing \X (1..N) PROVE Put(xn[1], rbsp[xn[2]]) \in Writing
    <3>1. xn[1] \in Writing /\ rbsp[xn[2]] \in Nat
      BY <1>1
    <3> QED BY <3>1, PutType
  <2> QED BY <2>1
<1>4. NothingPut \in Writing
  BY DEF NothingPut, Writing
<1>5. PICK f \in [0..N -> Writing] :
         f[0] = NothingPut /\ \A n \in 1..N : f[n] = step[<<f[n - 1], n>>]
  <2> HIDE DEF step, after
  <2>1. Steppable(N, Writing, NothingPut, step)
    BY <1>1, <1>3, <1>4 DEF Steppable
  <2>2. \E f : Steps(f, N, Writing, NothingPut, step)
    BY <2>1, StepsExist
  <2> QED BY <2>2 DEF Steps
<1>6. ASSUME NEW n \in 1..N PROVE f[n] = Put(f[n - 1], rbsp[n])
  <2>1. n - 1 \in 0..N
    BY <1>1
  <2>2. <<f[n - 1], n>> \in Writing \X (1..N)
    BY <1>5, <2>1
  <2> QED BY <1>5, <2>2
<1>7. f = [n \in 0..N |-> IF n = 0 THEN NothingPut ELSE Put(f[n - 1], rbsp[n])]
  <2>1. \A n \in 0..N : n = 0 \/ n \in 1..N
    BY <1>1
  <2>2. \A n \in 0..N : f[n] = IF n = 0 THEN NothingPut ELSE Put(f[n - 1], rbsp[n])
    BY <1>1, <1>5, <1>6, <2>1
  <2> QED BY <1>5, <2>2
<1>8. after = [n \in 0..N |-> IF n = 0 THEN NothingPut ELSE Put(after[n - 1], rbsp[n])]
  BY <1>7
<1> HIDE DEF after, step
<1>9. after = [n \in 0..N |-> after[n]] /\ after[0] = NothingPut
  BY <1>1, <1>8
<1>10. ASSUME NEW n \in 1..N PROVE after[n] = Put(after[n - 1], rbsp[n])
  <2>1. n \in 0..N /\ n # 0
    BY <1>1
  <2> QED BY <1>8, <2>1
<1>11. after \in [0..N -> Writing]
  <2> DEFINE S == {n \in 0..N : after[n] \in Writing}
  <2>1. 0 \in S
    BY <1>1, <1>4, <1>9
  <2>2. ASSUME NEW n \in 1..N, n - 1 \in S PROVE n \in S
    <3>1. after[n - 1] \in Writing /\ rbsp[n] \in Nat /\ n \in 0..N
      BY <1>1, <2>2
    <3> QED BY <1>10, <3>1, PutType
  <2> HIDE DEF S
  <2>3. 0..N \subseteq S
    BY <1>1, <2>1, <2>2, InductionTo
  <2> QED BY <1>9, <2>3 DEF S
<1>12. WrittenSteps(after, rbsp)
  BY <1>2, <1>9, <1>10, <1>11 DEF WrittenSteps, N
<1> QED BY <1>12

LEMMA StepsSound ==
    ASSUME NEW rbsp \in Seq(Nat), NEW after, WrittenSteps(after, rbsp)
    PROVE  \A n \in 0..Len(rbsp) : PutSound(after[n])
<1> DEFINE N == Len(rbsp)
           S == {n \in 0..N : PutSound(after[n])}
<1>1. N \in Nat /\ rbsp \in [1..N -> Nat]
  OBVIOUS
<1> HIDE DEF N
<1>2. /\ after[0] = NothingPut
      /\ \A n \in 1..N : after[n] = Put(after[n - 1], rbsp[n])
  BY DEF WrittenSteps, N
<1>3. 0 \in S
  <2>1. PutSound(NothingPut)
    BY DEF PutSound, NothingPut, Writing, Clean, Behind, Ended
  <2> QED BY <1>1, <1>2, <2>1
<1>4. ASSUME NEW n \in 1..N, n - 1 \in S PROVE n \in S
  <2>1. PutSound(after[n - 1]) /\ rbsp[n] \in Nat /\ n \in 0..N
    BY <1>1, <1>4
  <2>2. PutSound(after[n])
    BY <1>2, <2>1, PutKeeps
  <2> QED BY <2>1, <2>2
<1> HIDE DEF S
<1>5. 0..N \subseteq S
  BY <1>1, <1>3, <1>4, InductionTo
<1> QED BY <1>5 DEF S, N

\* A payload with emulation prevention has no bytes of a start code and does not
\* end in a zero (7.4.1, as quoted in writeNaluContent).
LEMMA EscapedClean ==
    ASSUME NEW rbsp \in Seq(Nat)
    PROVE  Escaped(rbsp) \in Seq(Nat) /\ Clean(Escaped(rbsp)) /\ Ended(Escaped(rbsp))
<1>1. PICK after : WrittenSteps(after, rbsp)
  BY EscapedSteps
<1> DEFINE end == after[Len(rbsp)]
           s == end.out
<1>2. PutSound(end)
  <2>1. Len(rbsp) \in 0..Len(rbsp)
    OBVIOUS
  <2> QED BY <1>1, <2>1, StepsSound
<1>3. Escaped(rbsp) = s \o (IF end.zeroCount > 0 THEN <<3>> ELSE <<>>)
  BY <1>1 DEF WrittenSteps
<1> HIDE DEF end
<1>4. s \in Seq(Nat) /\ Clean(s) /\ Behind(s, end.zeroCount) /\ end.zeroCount \in 0..2
  BY <1>2 DEF PutSound, Writing
<1> HIDE DEF s
<1>5. CASE end.zeroCount > 0
  <2> DEFINE t == Append(s, 3)
  <2>1. s \o <<3>> = t
    BY <1>4
  <2>2. t \in Seq(Nat) /\ Clean(t) /\ Behind(t, 0)
    BY <1>4, OneMore
  <2>3. Escaped(rbsp) = t
    BY <1>3, <1>5, <2>1
  <2> HIDE DEF t
  <2> QED BY <2>2, <2>3 DEF Behind
<1>6. CASE end.zeroCount = 0
  <2>1. s \o <<>> = s
    BY <1>4
  <2>2. Escaped(rbsp) = s
    BY <1>3, <1>6, <2>1
  <2> QED BY <1>4, <1>6, <2>2 DEF Behind
<1> QED BY <1>4, <1>5, <1>6

-----------------------------------------------------------------------------
(* Units. *)
LEMMA ZeroWordsClean ==
    ASSUME NEW n \in Nat
    PROVE  ZeroWords(n) \in Seq(Nat) /\ Clean(ZeroWords(n)) /\ Ended(ZeroWords(n))
<1> DEFINE z == ZeroWords(n)
           m == 3 * n
<1>1. m \in Nat /\ m % 3 = 0
  OBVIOUS
<1>2. z = [i \in 1..m |-> IF i % 3 = 0 THEN 3 ELSE 0]
  BY DEF ZeroWords
<1> HIDE DEF z, m
<1>3. z \in [1..m -> Nat]
  BY <1>2
<1>4. z \in Seq(Nat) /\ Len(z) = m
  BY <1>1, <1>3
<1>5. Clean(z)
  <2> SUFFICES ASSUME NEW i \in 1..(m - 2) PROVE ~(z[i] = 0 /\ z[i + 1] = 0 /\ z[i + 2] <= 2)
    BY <1>4 DEF Clean
  <2>1. i \in 1..m /\ i + 1 \in 1..m /\ i + 2 \in 1..m
    BY <1>1
  <2>2. i % 3 = 0 \/ (i + 1) % 3 = 0 \/ (i + 2) % 3 = 0
    BY <1>1
  <2>3. z[i] = 3 \/ z[i + 1] = 3 \/ z[i + 2] = 3
    BY <1>2, <2>1, <2>2
  <2> QED BY <2>3
<1>6. Ended(z)
  <2>1. m > 0 => m \in 1..m
    BY <1>1
  <2>2. m > 0 => z[m] = 3
    BY <1>1, <1>2, <2>1
  <2> QED BY <1>4, <2>2 DEF Ended
<1> QED BY <1>4, <1>5, <1>6 DEF z

LEMMA EmptyJoin == ASSUME NEW s \in Seq(Nat) PROVE <<>> \o s = s
OBVIOUS

\* Sequences joined one by one.
FlatSteps(flat, seqs) ==
    /\ flat \in [0..Len(seqs) -> Seq(Nat)]
    /\ flat[0] = <<>>
    /\ \A n \in 1..Len(seqs) : flat[n] = flat[n - 1] \o seqs[n]
    /\ FlattenSeq(seqs) = flat[Len(seqs)]

LEMMA FlattenSteps ==
    ASSUME NEW seqs \in Seq(Seq(Nat))
    PROVE  \E flat : FlatSteps(flat, seqs)
<1> DEFINE N == Len(seqs)
           step == [xn \in Seq(Nat) \X (1..N) |-> xn[1] \o seqs[xn[2]]]
           flatten[i \in 1..N] == IF i = 1 THEN seqs[i] ELSE flatten[i - 1] \o seqs[i]
<1>1. N \in Nat /\ seqs \in [1..N -> Seq(Nat)]
  OBVIOUS
<1>2. FlattenSeq(seqs) = IF N = 0 THEN seqs ELSE flatten[N]
  BY Zenon DEF FlattenSeq
<1>3. CASE N = 0
  <2> DEFINE g == [n \in 0..N |-> <<>>]
  <2>1. seqs = <<>>
    BY <1>3
  <2>2. FlattenSeq(seqs) = <<>>
    BY <1>2, <1>3, <2>1
  <2>3. g \in [0..N -> Seq(Nat)] /\ \A n \in 0..N : g[n] = <<>>
    OBVIOUS
  <2>4. N \in 0..N /\ 0 \in 0..N /\ 1..N = {}
    BY <1>3
  <2> HIDE DEF g
  <2>5. FlatSteps(g, seqs)
    BY <2>2, <2>3, <2>4 DEF FlatSteps
  <2> QED BY <2>5
<1>4. CASE N # 0
  <2> HIDE DEF N
  <2>1. step \in [Seq(Nat) \X (1..N) -> Seq(Nat)]
    <3>1. ASSUME NEW xn \in Seq(Nat) \X (1..N) PROVE xn[1] \o seqs[xn[2]] \in Seq(Nat)
      <4>1. xn[1] \in Seq(Nat) /\ seqs[xn[2]] \in Seq(Nat)
        BY <1>1
      <4> QED BY <4>1, ConcatProperties
    <3> QED BY <3>1
  <2>2. PICK g \in [0..N -> Seq(Nat)] :
           g[0] = <<>> /\ \A n \in 1..N : g[n] = step[<<g[n - 1], n>>]
    <3> HIDE DEF step, flatten
    <3>1. <<>> \in Seq(Nat)
      OBVIOUS
    <3>2. Steppable(N, Seq(Nat), <<>>, step)
      BY <1>1, <2>1, <3>1 DEF Steppable
    <3>3. \E f : Steps(f, N, Seq(Nat), <<>>, step)
      BY <3>2, StepsExist
    <3> QED BY <3>3 DEF Steps
  <2>3. ASSUME NEW n \in 1..N PROVE g[n] = g[n - 1] \o seqs[n] /\ g[n] \in Seq(Nat)
    <3>1. n - 1 \in 0..N /\ n \in 0..N
      BY <1>1
    <3>2. <<g[n - 1], n>> \in Seq(Nat) \X (1..N)
      BY <2>2, <3>1
    <3> QED BY <2>2, <3>1, <3>2
  <2> DEFINE f == [n \in 1..N |-> g[n]]
  <2>4. f = [n \in 1..N |-> IF n = 1 THEN seqs[n] ELSE f[n - 1] \o seqs[n]]
    <3>1. ASSUME NEW n \in 1..N
          PROVE  f[n] = IF n = 1 THEN seqs[n] ELSE f[n - 1] \o seqs[n]
      <4>1. CASE n = 1
        <5>1. g[n - 1] = <<>>
          BY <2>2, <4>1
        <5>2. g[n] = <<>> \o seqs[n] /\ seqs[n] \in Seq(Nat)
          BY <1>1, <2>3, <5>1
        <5>3. g[n] = seqs[n]
          BY <5>2, EmptyJoin
        <5> QED BY <4>1, <5>3
      <4>2. CASE n # 1
        <5>1. n - 1 \in 1..N
          BY <1>1, <4>2
        <5> QED BY <2>3, <4>2, <5>1
      <4> QED BY <4>1, <4>2
    <3> QED BY <3>1
  <2>5. flatten = [n \in 1..N |-> IF n = 1 THEN seqs[n] ELSE flatten[n - 1] \o seqs[n]]
    <3> HIDE DEF f
    <3> QED BY <2>4
  <2> HIDE DEF flatten, step, f
  <2> DEFINE S == {n \in 0..N : n = 0 \/ flatten[n] = g[n]}
  <2>6. 0 \in S
    BY <1>1
  <2>7. ASSUME NEW n \in 1..N, n - 1 \in S PROVE n \in S
    <3>0. n \in 0..N
      BY <1>1
    <3>1. n \in 0..N /\ g[n] = g[n - 1] \o seqs[n]
      BY <2>3, <3>0
    <3>2. CASE n = 1
      <4>1. g[n - 1] = <<>> /\ seqs[n] \in Seq(Nat)
        BY <1>1, <2>2, <3>2
      <4>2. g[n] = seqs[n]
        BY <3>1, <4>1, EmptyJoin
      <4>3. flatten[n] = seqs[n]
        BY <2>5, <3>2
      <4> QED BY <3>1, <4>2, <4>3
    <3>3. CASE n # 1
      <4>1. flatten[n] = flatten[n - 1] \o seqs[n]
        BY <2>5, <3>3
      <4>2. flatten[n - 1] = g[n - 1]
        <5>1. n - 1 # 0
          BY <1>1, <3>3
        <5> QED BY <2>7, <5>1
      <4> QED BY <3>1, <4>1, <4>2
    <3> QED BY <3>2, <3>3
  <2> HIDE DEF S
  <2>8. 0..N \subseteq S
    BY <1>1, <2>6, <2>7, InductionTo
  <2>9. flatten[N] = g[N]
    <3>1. N \in 0..N
      BY <1>1
    <3> QED BY <1>4, <2>8, <3>1 DEF S
  <2>10. FlatSteps(g, seqs)
    BY <1>2, <1>4, <2>2, <2>3, <2>9 DEF FlatSteps, N
  <2> QED BY <2>10
<1> QED BY <1>3, <1>4

LEMMA FlattenType ==
    ASSUME NEW seqs \in Seq(Seq(Nat))
    PROVE  FlattenSeq(seqs) \in Seq(Nat)
<1>1. PICK flat : FlatSteps(flat, seqs)
  BY FlattenSteps
<1>2. Len(seqs) \in 0..Len(seqs)
  OBVIOUS
<1> QED BY <1>1, <1>2 DEF FlatSteps

\* The payload of a unit.
Payload(u) == u.syntax \o FlattenSeq(u.subs)

LEMMA UnitType ==
    ASSUME NEW u \in Units
    PROVE  /\ u.syntax \in Seq(Nat) /\ u.subs \in Seq(Seq(Nat))
           /\ u.type \in Nat /\ u.zeroWords \in Nat
<1> DEFINE Octets == 0..255
<1>0. u.syntax \in Seq(Octets) /\ u.subs \in Seq(Seq(Octets))
  BY NalAssumption, Zenon
<1>1. Octets \subseteq Nat
  OBVIOUS
<1>2. u.type \in 0..31 /\ u.zeroWords \in Nat
  BY NalAssumption, Zenon
<1> HIDE DEF Octets
<1>3. u.syntax \in Seq(Nat)
  BY <1>0, <1>1, Wider
<1>4. u.subs \in Seq(Seq(Nat))
  <2>1. Seq(Octets) \subseteq Seq(Nat)
    BY <1>1, Wider
  <2> QED BY <1>0, <2>1, Wider
<1>5. u.type \in Nat
  BY <1>2
<1> QED BY <1>2, <1>3, <1>4, <1>5

LEMMA PayloadType == ASSUME NEW u \in Units PROVE Payload(u) \in Seq(Nat)
<1>1. u.syntax \in Seq(Nat) /\ u.subs \in Seq(Seq(Nat))
  BY UnitType
<1>2. FlattenSeq(u.subs) \in Seq(Nat)
  BY <1>1, FlattenType
<1> QED BY <1>1, <1>2, ConcatProperties DEF Payload

\* No unit has bytes of a start code, and none ends in a zero.
LEMMA WrittenClean ==
    ASSUME NEW u \in Units
    PROVE  /\ Written(u) \in Seq(Nat) /\ Len(Written(u)) > 0
           /\ Clean(Written(u)) /\ Ended(Written(u))
<1> DEFINE h == NalUnitHeader(u.type)
           e == Escaped(Payload(u))
           z == ZeroWords(u.zeroWords)
           he == h \o e
<1>1. u.type \in Nat /\ u.zeroWords \in Nat
  <2>1. u.type \in 0..31 /\ u.zeroWords \in Nat
    BY NalAssumption, Zenon
  <2> QED BY <2>1
<1>2. h \in Seq(Nat) /\ Clean(h) /\ Ended(h) /\ Len(h) = 2
  <2> DEFINE b == 8 * u.type + 1
  <2>1. b \in Nat /\ b > 0
    BY <1>1
  <2>2. h = <<0, b>>
    BY DEF NalUnitHeader
  <2> HIDE DEF b, h
  <2> QED BY <2>1, <2>2 DEF Clean, Ended
<1>3. e \in Seq(Nat) /\ Clean(e) /\ Ended(e)
  BY PayloadType, EscapedClean
<1>4. z \in Seq(Nat) /\ Clean(z) /\ Ended(z)
  BY <1>1, ZeroWordsClean
<1>5. Written(u) = he \o z
  BY Zenon DEF Written, Payload
<1> HIDE DEF h, e, z
<1>6. he \in Seq(Nat) /\ Clean(he) /\ Ended(he)
  BY <1>2, <1>3, CleanJoin
<1>7. Len(he) >= 2
  <2>0. h \in Seq(Nat) /\ e \in Seq(Nat)
    BY <1>2, <1>3
  <2>1. Len(he) = Len(h) + Len(e) /\ Len(e) \in Nat
    BY <2>0, ConcatProperties
  <2> QED BY <1>2, <2>1
<1> HIDE DEF he
<1>8. he \o z \in Seq(Nat) /\ Clean(he \o z) /\ Ended(he \o z)
  BY <1>4, <1>6, CleanJoin
<1>9. Len(he \o z) > 0
  <2>1. Len(he \o z) = Len(he) + Len(z) /\ Len(z) \in Nat
    BY <1>4, <1>6, ConcatProperties
  <2> QED BY <1>7, <2>1
<1> QED BY <1>5, <1>8, <1>9

-----------------------------------------------------------------------------
(* The file. *)
LEMMA CodeStands ==
    ASSUME NEW s, NEW i
    PROVE  ShortAt(s, i) <=> /\ i + 3 - 1 <= Len(s)
                             /\ s[i + 1 - 1] = 0 /\ s[i + 2 - 1] = 0 /\ s[i + 3 - 1] = 1
BY DEF ShortAt, StandsAt

\* A code at i of a sequence.
Code(s, i) == i + 2 <= Len(s) /\ s[i] = 0 /\ s[i + 1] = 0 /\ s[i + 2] = 1

LEMMA CodeIs == ASSUME NEW s, Len(s) \in Nat, NEW i \in Nat PROVE ShortAt(s, i) <=> Code(s, i)
<1>1. i + 3 - 1 = i + 2 /\ i + 1 - 1 = i /\ i + 2 - 1 = i + 1
  OBVIOUS
<1> QED BY <1>1, CodeStands DEF Code

\* Another unit adds the one start code that is in front of it.
LEMMA OneCodeMore ==
    ASSUME NEW a \in Seq(Nat), Ended(a), NEW long \in BOOLEAN,
           NEW b \in Seq(Nat), Clean(b), Ended(b), Len(b) > 0
    PROVE  LET t == (a \o StartCode(long)) \o b
               new == Len(a) + (IF long THEN 2 ELSE 1) IN
           /\ t \in Seq(Nat) /\ Ended(t) /\ Len(t) >= Len(a) /\ new \in 1..Len(t)
           /\ \A i \in 1..Len(t) : Code(t, i) <=> (i <= Len(a) /\ Code(a, i)) \/ i = new
<1> DEFINE c == StartCode(long)
           ac == a \o c
           t == ac \o b
           n == Len(a)
           k == Len(c)
           new == n + (IF long THEN 2 ELSE 1)
<1>1. /\ c \in Seq(Nat) /\ k \in 3..4 /\ c[k] = 1 /\ c[k - 1] = 0 /\ c[k - 2] = 0
      /\ new = n + k - 2 /\ (k = 4 => c[1] = 0)
  BY DEF StartCode
<1> HIDE DEF c
<1>2. /\ ac \in Seq(Nat) /\ Len(ac) = n + k
      /\ \A i \in 1..n : ac[i] = a[i]
      /\ \A i \in (n + 1)..(n + k) : ac[i] = c[i - n]
  BY <1>1, ConcatProperties
<1> HIDE DEF ac
<1>3. /\ t \in Seq(Nat) /\ Len(t) = (n + k) + Len(b)
      /\ \A i \in 1..(n + k) : t[i] = ac[i]
      /\ \A i \in (n + k + 1)..(n + k + Len(b)) : t[i] = b[i - (n + k)]
  <2>1. ac \in Seq(Nat) /\ Len(ac) = n + k
    BY <1>2
  <2>2. /\ t \in Seq(Nat) /\ Len(t) = Len(ac) + Len(b)
        /\ \A i \in 1..Len(ac) : t[i] = ac[i]
        /\ \A i \in (Len(ac) + 1)..(Len(ac) + Len(b)) : t[i] = b[i - Len(ac)]
    BY <2>1, Joined
  <2> HIDE DEF t
  <2> QED BY <2>1, <2>2
<1>4. n \in Nat /\ Len(b) \in Nat /\ k \in 3..4
  BY <1>1
<1> DEFINE m == Len(b)
           l == n + k
<1> HIDE DEF t, n, k, m, new
<1>5. ASSUME NEW i \in 1..n PROVE t[i] = a[i]
  <2>1. i \in 1..(n + k)
    BY <1>4
  <2> QED BY <1>2, <1>3, <2>1
<1>6. ASSUME NEW j \in 1..k PROVE t[n + j] = c[j]
  <2>1. n + j \in 1..(n + k) /\ n + j \in (n + 1)..(n + k) /\ (n + j) - n = j
    BY <1>4
  <2> QED BY <1>2, <1>3, <2>1
<1>7. ASSUME NEW j \in 1..m PROVE t[l + j] = b[j]
  <2>1. l + j \in (n + k + 1)..(n + k + m) /\ (l + j) - (n + k) = j
    BY <1>4 DEF m
  <2> QED BY <1>3, <2>1 DEF m
<1>8. Len(t) = l + m /\ m \in Nat /\ m > 0
  BY <1>3, <1>4 DEF m
<1>0. new = l - 2
  BY <1>1, <1>4 DEF n, k
<1>9. /\ n > 0 => t[n] # 0
      /\ t[l] = 1 /\ t[l - 1] = 0 /\ t[l - 2] = 0
      /\ k = 4 => t[l - 3] = 0
  <2>1. n > 0 => n \in 1..n /\ a[n] # 0
    BY <1>4 DEF Ended, n
  <2>2. /\ k \in 1..k /\ k - 1 \in 1..k /\ k - 2 \in 1..k
        /\ n + k = l /\ n + (k - 1) = l - 1 /\ n + (k - 2) = l - 2 /\ (k = 4 => n + 1 = l - 3)
    BY <1>4
  <2>3. t[n + k] = c[k] /\ t[n + (k - 1)] = c[k - 1] /\ t[n + (k - 2)] = c[k - 2]
    BY <1>6, <2>2
  <2>4. k = 4 => t[n + 1] = c[1]
    BY <1>6
  <2> QED BY <1>1, <1>5, <2>1, <2>2, <2>3, <2>4
<1>10. l \in Nat /\ n \in Nat /\ n <= l - 3 /\ n >= l - 4 /\ (n = l - 4 => k = 4)
  BY <1>4
<1> HIDE DEF l
<1>11. ASSUME NEW i \in 1..Len(t), i <= n - 2 PROVE Code(t, i) <=> Code(a, i)
  <2>1. i \in 1..n /\ i + 1 \in 1..n /\ i + 2 \in 1..n /\ i + 2 <= Len(t)
    BY <1>4, <1>8, <1>10, <1>11
  <2>2. t[i] = a[i] /\ t[i + 1] = a[i + 1] /\ t[i + 2] = a[i + 2]
    BY <1>5, <2>1
  <2>3. i + 2 <= Len(a)
    BY <2>1, <1>4 DEF n
  <2> QED BY <2>1, <2>2, <2>3 DEF Code
<1>12. ASSUME NEW i \in 1..Len(t), i > n - 2, i <= n PROVE ~Code(t, i) /\ ~Code(a, i)
  <2>1. n > 0 /\ (i = n \/ i + 1 = n) /\ ~(i + 2 <= n)
    BY <1>4, <1>8, <1>10, <1>12
  <2>2. t[i] # 0 \/ t[i + 1] # 0
    BY <1>9, <2>1
  <2> QED BY <2>1, <2>2 DEF Code, n
<1>13. ASSUME NEW i \in 1..Len(t), i > n, i <= l PROVE Code(t, i) <=> i = new
  <2>1. i = l - 3 \/ i = l - 2 \/ i = l - 1 \/ i = l
    BY <1>10, <1>13
  <2>2. CASE i = l - 3
    <3>1. i + 2 = l - 1 /\ i # new
      BY <1>0, <1>10, <2>2
    <3>2. t[i + 2] = 0
      BY <1>9, <3>1
    <3> QED BY <3>1, <3>2 DEF Code
  <2>3. CASE i = l - 2
    <3>1. i + 1 = l - 1 /\ i + 2 = l /\ i = new /\ l <= Len(t)
      BY <1>0, <1>8, <1>10, <2>3
    <3>2. t[i] = 0 /\ t[i + 1] = 0 /\ t[i + 2] = 1
      BY <1>9, <2>3, <3>1
    <3> QED BY <3>1, <3>2 DEF Code
  <2>4. CASE i = l - 1
    <3>1. i + 1 = l /\ i # new
      BY <1>0, <1>10, <2>4
    <3>2. t[i + 1] = 1
      BY <1>9, <3>1
    <3> QED BY <3>1, <3>2 DEF Code
  <2>5. CASE i = l
    <3>1. i # new
      BY <1>0, <1>10, <2>5
    <3>2. t[i] = 1
      BY <1>9, <2>5
    <3> QED BY <3>1, <3>2 DEF Code
  <2> QED BY <2>1, <2>2, <2>3, <2>4, <2>5
<1>14. ASSUME NEW i \in 1..Len(t), i > l PROVE ~Code(t, i) /\ i # new
  <2> SUFFICES ASSUME Code(t, i) PROVE FALSE
    BY <1>0, <1>10, <1>14
  <2> DEFINE j == i - l
  <2>1. i + 2 <= Len(t) /\ t[i] = 0 /\ t[i + 1] = 0 /\ t[i + 2] = 1
    BY DEF Code
  <2>2. /\ j \in 1..(m - 2) /\ j \in 1..m /\ j + 1 \in 1..m /\ j + 2 \in 1..m
        /\ l + j = i /\ l + (j + 1) = i + 1 /\ l + (j + 2) = i + 2
    <3>1. i + 2 <= l + m
      BY <1>8, <2>1
    <3> QED BY <1>8, <1>10, <1>14, <3>1
  <2>3. t[l + j] = b[j] /\ t[l + (j + 1)] = b[j + 1] /\ t[l + (j + 2)] = b[j + 2]
    BY <1>7, <2>2
  <2>4. b[j] = 0 /\ b[j + 1] = 0 /\ b[j + 2] = 1
    BY <2>1, <2>2, <2>3
  <2>5. ~(b[j] = 0 /\ b[j + 1] = 0 /\ b[j + 2] <= 2)
    BY <2>2 DEF Clean, m
  <2> QED BY <2>4, <2>5
<1>15. ASSUME NEW i \in 1..Len(t)
       PROVE  Code(t, i) <=> (i <= n /\ Code(a, i)) \/ i = new
  <2>1. i <= n - 2 \/ (i > n - 2 /\ i <= n) \/ (i > n /\ i <= l) \/ i > l
    BY <1>4, <1>10
  <2>2. i <= n => i # new
    BY <1>0, <1>10
  <2>3. i <= n - 2 => i <= n
    BY <1>4
  <2>4. i > n => ~(i <= n)
    BY <1>4
  <2>5. i > l => i > n
    BY <1>4, <1>10
  <2> QED BY <1>11, <1>12, <1>13, <1>14, <2>1, <2>2, <2>3, <2>4, <2>5
<1>16. Ended(t)
  <2>1. m \in 1..m /\ b[m] # 0
    BY <1>8 DEF Ended, m
  <2>2. t[l + m] = b[m]
    BY <1>7, <2>1
  <2> QED BY <1>8, <2>1, <2>2 DEF Ended
<1>17. Len(t) >= n /\ new \in 1..Len(t)
  BY <1>0, <1>4, <1>8, <1>10
<1> QED BY <1>3, <1>15, <1>16, <1>17 DEF t, n, new, ac, c

\* Between two units: bytes that end well, and the start codes that were written.
FileInv ==
    /\ file \in Seq(Nat) /\ Ended(file)
    /\ starts \in Seq(Nat)
    /\ \A k \in 1..Len(starts) : starts[k] \in 1..Len(file)
    /\ \A i \in 1..Len(file) : Code(file, i) <=> \E k \in 1..Len(starts) : starts[k] = i

LEMMA FileStart == Init => FileInv
<1> SUFFICES ASSUME Init PROVE FileInv
  OBVIOUS
<1>1. file = <<>> /\ starts = <<>> /\ Len(<<>>) = 0
  BY DEF Init
<1> QED BY <1>1 DEF FileInv, Ended

LEMMA FileStep == FileInv /\ [Next]_vars => FileInv'
<1> SUFFICES ASSUME FileInv, [Next]_vars PROVE FileInv'
  OBVIOUS
<1>1. ASSUME NEW u \in Units, Write(u) PROVE FileInv'
  <2> DEFINE long == StartsPicture(u) \/ u.type \in ParameterSetTypes
             w == Written(u)
             n == Len(file)
             new == n + (IF long THEN 2 ELSE 1)
             m == Len(starts)
  <2>1. file' = (file \o StartCode(long)) \o w /\ starts' = Append(starts, new)
    BY <1>1 DEF Write
  <2>2. long \in BOOLEAN
    BY DEF StartsPicture
  <2>3. w \in Seq(Nat) /\ Len(w) > 0 /\ Clean(w) /\ Ended(w)
    BY WrittenClean
  <2> HIDE DEF long, w
  <2>4. /\ file' \in Seq(Nat) /\ Ended(file') /\ Len(file') >= n /\ new \in 1..Len(file')
        /\ \A i \in 1..Len(file') : Code(file', i) <=> (i <= n /\ Code(file, i)) \/ i = new
    BY <2>1, <2>2, <2>3, OneCodeMore DEF FileInv
  <2>5. n \in Nat /\ m \in Nat
    BY DEF FileInv
  <2> HIDE DEF new
  <2>6. /\ starts' \in Seq(Nat) /\ Len(starts') = m + 1 /\ starts'[m + 1] = new
        /\ \A k \in 1..m : starts'[k] = starts[k]
    <3>1. starts \in Seq(Nat) /\ new \in Nat
      BY <2>4 DEF FileInv
    <3> QED BY <2>1, <3>1
  <2> HIDE DEF n, m
  <2>7. ASSUME NEW k \in 1..Len(starts') PROVE starts'[k] \in 1..Len(file')
    <3>1. CASE k = m + 1
      BY <2>4, <2>6, <3>1
    <3>2. CASE k # m + 1
      <4>1. k \in 1..m
        BY <2>5, <2>6, <3>2
      <4>2. starts[k] \in 1..n
        BY <4>1 DEF FileInv, n, m
      <4>3. Len(file') \in Nat
        BY <2>4
      <4> QED BY <2>4, <2>5, <2>6, <4>1, <4>2, <4>3
    <3> QED BY <3>1, <3>2
  <2>8. ASSUME NEW i \in 1..Len(file')
        PROVE  Code(file', i) <=> \E k \in 1..Len(starts') : starts'[k] = i
    <3>1. Code(file', i) <=> (i <= n /\ Code(file, i)) \/ i = new
      BY <2>4
    <3>2. (i <= n /\ Code(file, i)) <=> \E k \in 1..m : starts[k] = i
      <4>1. i <= n => (Code(file, i) <=> \E k \in 1..m : starts[k] = i)
        <5>1. i <= n => i \in 1..n
          BY <2>5
        <5> QED BY <5>1 DEF FileInv, n, m
      <4>2. ASSUME NEW k \in 1..m, starts[k] = i PROVE i <= n
        <5>1. starts[k] \in 1..n
          BY DEF FileInv, n, m
        <5> QED BY <2>5, <4>2, <5>1
      <4> QED BY <4>1, <4>2
    <3>3. (\E k \in 1..Len(starts') : starts'[k] = i)
          <=> (\E k \in 1..m : starts[k] = i) \/ i = new
      <4>1. \A k : k \in 1..Len(starts') <=> k \in 1..m \/ k = m + 1
        BY <2>5, <2>6
      <4> QED BY <2>6, <4>1
    <3> QED BY <3>1, <3>2, <3>3
  <2> QED BY <2>4, <2>6, <2>7, <2>8 DEF FileInv
<1>2. ASSUME CloseFile \/ Decoder \/ UNCHANGED vars PROVE FileInv'
  <2>1. file' = file /\ starts' = starts
    BY <1>2 DEF CloseFile, Decoder, IsNewPicture, IsNewAccessUnit, FinishPicture, ReadUnit,
                vars, writer
  <2> QED BY <2>1 DEF FileInv
<1> QED BY <1>1, <1>2 DEF Next, Encoder

LEMMA FileImplies == FileInv => StartCodesMarkUnits
<1> SUFFICES ASSUME FileInv PROVE StartCodesMarkUnits
  OBVIOUS
<1>1. /\ Len(file) \in Nat /\ DOMAIN file = 1..Len(file) /\ DOMAIN starts = 1..Len(starts)
      /\ \A i \in 1..Len(file) : i \in Nat
  BY DEF FileInv
<1>2. \A i \in 1..Len(file) : ShortAt(file, i) <=> Code(file, i)
  BY <1>1, CodeIs
<1>3. ASSUME NEW i
      PROVE  i \in {j \in DOMAIN file : ShortAt(file, j)}
             <=> i \in {starts[k] : k \in DOMAIN starts}
  BY <1>1, <1>2 DEF FileInv
<1> QED BY <1>3 DEF StartCodesMarkUnits

\* Start codes are where units start, and nowhere else, whatever the units hold
\* (writeNaluContent, writeAnnexBNalUnit).
THEOREM StartCodesCorrect == Spec => []StartCodesMarkUnits
<1>1. Spec => []FileInv
  BY FileStart, FileStep, PTL DEF Spec
<1>2. []FileInv => []StartCodesMarkUnits
  BY FileImplies, PTL
<1> QED BY <1>1, <1>2, PTL
-----------------------------------------------------------------------------
(* Emulation prevention, read. *)
Reading == [rbsp : Seq(Nat), pos : Nat, locations : Seq(Nat), zeroCount : Nat,
            escaped : BOOLEAN, sound : BOOLEAN]

LEMMA GetType ==
    ASSUME NEW r \in Reading, NEW v \in Nat
    PROVE  Get(r, v) \in Reading
<1>1. /\ r.rbsp \in Seq(Nat) /\ r.pos \in Nat /\ r.locations \in Seq(Nat)
      /\ r.zeroCount \in Nat /\ r.escaped \in BOOLEAN /\ r.sound \in BOOLEAN
  BY DEF Reading
<1> DEFINE rbsp == Append(r.rbsp, v)
           locations == Append(r.locations, r.pos)
           sound == /\ r.sound /\ ~(r.zeroCount >= 2 /\ v < 3) /\ ~(r.escaped /\ v > 3)
           zeros == IF v = 0 THEN r.zeroCount + 1 ELSE 0
<1>2. rbsp \in Seq(Nat) /\ locations \in Seq(Nat)
  BY <1>1
<1>3. r.pos + 1 \in Nat /\ zeros \in Nat
  BY <1>1
<1>4. sound \in BOOLEAN
  BY <1>1
<1>5. CASE r.zeroCount = 2 /\ v = 3
  <2>1. Get(r, v) = [r EXCEPT !.locations = locations, !.pos = r.pos + 1,
                              !.zeroCount = 0, !.escaped = TRUE]
    BY <1>5 DEF Get
  <2> HIDE DEF locations
  <2>2. Get(r, v) = [rbsp |-> r.rbsp, pos |-> r.pos + 1, locations |-> locations,
                     zeroCount |-> 0, escaped |-> TRUE, sound |-> r.sound]
    BY <2>1 DEF Reading
  <2> QED BY <1>1, <1>2, <1>3, <2>2 DEF Reading
<1>6. CASE ~(r.zeroCount = 2 /\ v = 3)
  <2>1. Get(r, v) = [rbsp |-> rbsp, pos |-> r.pos + 1, locations |-> r.locations,
                     zeroCount |-> zeros, escaped |-> FALSE, sound |-> sound]
    BY <1>6, Zenon DEF Get
  <2> HIDE DEF rbsp, sound, zeros
  <2> QED BY <1>1, <1>2, <1>3, <1>4, <2>1 DEF Reading
<1> QED BY <1>5, <1>6

\* What has been read after each byte.
ReadSteps(got, bytes) ==
    /\ got \in [0..Len(bytes) -> Reading]
    /\ got[0] = NothingGot
    /\ \A n \in 1..Len(bytes) : got[n] = Get(got[n - 1], bytes[n])

\* What is known when all bytes have been read.
Got(bytes) ==
    LET after[n \in 0..Len(bytes)] ==
            IF n = 0 THEN NothingGot ELSE Get(after[n - 1], bytes[n])
    IN  after[Len(bytes)]

LEMMA GotSteps ==
    ASSUME NEW bytes \in Seq(Nat)
    PROVE  \E got : ReadSteps(got, bytes) /\ Got(bytes) = got[Len(bytes)]
<1> DEFINE N == Len(bytes)
           step == [xn \in Reading \X (1..N) |-> Get(xn[1], bytes[xn[2]])]
           after[n \in 0..N] == IF n = 0 THEN NothingGot ELSE Get(after[n - 1], bytes[n])
<1>1. N \in Nat /\ bytes \in [1..N -> Nat]
  OBVIOUS
<1>2. Got(bytes) = after[N]
  BY Zenon DEF Got
<1> HIDE DEF N
<1>3. step \in [Reading \X (1..N) -> Reading]
  <2>1. ASSUME NEW xn \in Reading \X (1..N) PROVE Get(xn[1], bytes[xn[2]]) \in Reading
    <3>1. xn[1] \in Reading /\ bytes[xn[2]] \in Nat
      BY <1>1
    <3> QED BY <3>1, GetType
  <2> QED BY <2>1
<1>4. NothingGot \in Reading
  BY DEF NothingGot, Reading
<1>5. PICK f \in [0..N -> Reading] :
         f[0] = NothingGot /\ \A n \in 1..N : f[n] = step[<<f[n - 1], n>>]
  <2> HIDE DEF step, after
  <2>1. Steppable(N, Reading, NothingGot, step)
    BY <1>1, <1>3, <1>4 DEF Steppable
  <2>2. \E f : Steps(f, N, Reading, NothingGot, step)
    BY <2>1, StepsExist
  <2> QED BY <2>2 DEF Steps
<1>6. ASSUME NEW n \in 1..N PROVE f[n] = Get(f[n - 1], bytes[n])
  <2>1. n - 1 \in 0..N
    BY <1>1
  <2>2. <<f[n - 1], n>> \in Reading \X (1..N)
    BY <1>5, <2>1
  <2> QED BY <1>5, <2>2
<1>7. f = [n \in 0..N |-> IF n = 0 THEN NothingGot ELSE Get(f[n - 1], bytes[n])]
  <2>1. \A n \in 0..N : n = 0 \/ n \in 1..N
    BY <1>1
  <2>2. \A n \in 0..N : f[n] = IF n = 0 THEN NothingGot ELSE Get(f[n - 1], bytes[n])
    BY <1>1, <1>5, <1>6, <2>1
  <2> QED BY <1>5, <2>2
<1>8. after = [n \in 0..N |-> IF n = 0 THEN NothingGot ELSE Get(after[n - 1], bytes[n])]
  BY <1>7
<1> HIDE DEF after, step
<1>9. after = [n \in 0..N |-> after[n]] /\ after[0] = NothingGot
  BY <1>1, <1>8
<1>10. ASSUME NEW n \in 1..N PROVE after[n] = Get(after[n - 1], bytes[n])
  <2>1. n \in 0..N /\ n # 0
    BY <1>1
  <2> QED BY <1>8, <2>1
<1>11. after \in [0..N -> Reading]
  <2> DEFINE S == {n \in 0..N : after[n] \in Reading}
  <2>1. 0 \in S
    BY <1>1, <1>4, <1>9
  <2>2. ASSUME NEW n \in 1..N, n - 1 \in S PROVE n \in S
    <3>1. after[n - 1] \in Reading /\ bytes[n] \in Nat /\ n \in 0..N
      BY <1>1, <2>2
    <3> QED BY <1>10, <3>1, GetType
  <2> HIDE DEF S
  <2>3. 0..N \subseteq S
    BY <1>1, <2>1, <2>2, InductionTo
  <2> QED BY <1>9, <2>3 DEF S
<1>12. ReadSteps(after, bytes) /\ Got(bytes) = after[Len(bytes)]
  BY <1>2, <1>9, <1>10, <1>11 DEF ReadSteps, N
<1> QED BY <1>12

LEMMA GotType == ASSUME NEW bytes \in Seq(Nat) PROVE Got(bytes) \in Reading
<1>1. PICK got : ReadSteps(got, bytes) /\ Got(bytes) = got[Len(bytes)]
  BY GotSteps
<1>2. Len(bytes) \in 0..Len(bytes)
  OBVIOUS
<1> QED BY <1>1, <1>2 DEF ReadSteps

LEMMA GotNothing == Got(<<>>) = NothingGot
<1>1. <<>> \in Seq(Nat) /\ Len(<<>>) = 0
  OBVIOUS
<1>2. PICK got : ReadSteps(got, <<>>) /\ Got(<<>>) = got[Len(<<>>)]
  BY <1>1, GotSteps
<1> QED BY <1>1, <1>2 DEF ReadSteps

\* Reading one byte more.
LEMMA GotMore ==
    ASSUME NEW s \in Seq(Nat), NEW v \in Nat
    PROVE  Got(Append(s, v)) = Get(Got(s), v)
<1> DEFINE t == Append(s, v)
           N == Len(s)
<1>1. /\ t \in Seq(Nat) /\ Len(t) = N + 1 /\ N \in Nat /\ t[N + 1] = v
      /\ \A n \in 1..N : t[n] = s[n]
  OBVIOUS
<1> HIDE DEF t
<1>2. PICK f : ReadSteps(f, s) /\ Got(s) = f[Len(s)]
  BY GotSteps
<1>3. PICK g : ReadSteps(g, t) /\ Got(t) = g[Len(t)]
  BY <1>1, GotSteps
<1> HIDE DEF N
<1>4. /\ f[0] = NothingGot /\ g[0] = NothingGot
      /\ \A n \in 1..N : f[n] = Get(f[n - 1], s[n])
      /\ \A n \in 1..(N + 1) : g[n] = Get(g[n - 1], t[n])
      /\ Got(s) = f[N] /\ Got(t) = g[N + 1]
  BY <1>1, <1>2, <1>3 DEF ReadSteps, N
<1> DEFINE S == {n \in 0..N : g[n] = f[n]}
<1>5. 0 \in S
  BY <1>1, <1>4
<1>6. ASSUME NEW n \in 1..N, n - 1 \in S PROVE n \in S
  <2>1. n \in 1..(N + 1) /\ n \in 0..N
    BY <1>1
  <2>2. g[n - 1] = f[n - 1] /\ t[n] = s[n]
    BY <1>1, <1>6
  <2>3. g[n] = f[n]
    BY <1>4, <2>1, <2>2
  <2> QED BY <2>1, <2>3
<1> HIDE DEF S
<1>7. 0..N \subseteq S
  BY <1>1, <1>5, <1>6, InductionTo
<1>8. N \in 0..N /\ N + 1 \in 1..(N + 1) /\ (N + 1) - 1 = N
  BY <1>1
<1>9. g[N] = f[N]
  BY <1>7, <1>8 DEF S
<1>10. g[N + 1] = Get(g[N], t[N + 1])
  BY <1>4, <1>8
<1> QED BY <1>1, <1>4, <1>9, <1>10 DEF t

\* Reading has come through with z zeros at the end.
Through(r, z) == r.zeroCount = z /\ r.sound /\ r.escaped = FALSE

LEMMA GetPlain ==
    ASSUME NEW r \in Reading, NEW z \in 0..2, NEW v \in Nat, r.zeroCount = z, r.sound,
           r.escaped => v <= 3, z = 2 => v > 3
    PROVE  /\ Get(r, v).rbsp = Append(r.rbsp, v)
           /\ Through(Get(r, v), IF v # 0 THEN 0 ELSE z + 1)
<1>1. ~(r.zeroCount = 2 /\ v = 3)
  OBVIOUS
<1>2. /\ Get(r, v).rbsp = Append(r.rbsp, v)
      /\ Get(r, v).zeroCount = IF v = 0 THEN r.zeroCount + 1 ELSE 0
      /\ Get(r, v).escaped = FALSE
      /\ Get(r, v).sound = (/\ r.sound
                            /\ ~(r.zeroCount >= 2 /\ v < 3)
                            /\ ~(r.escaped /\ v > 3))
  BY <1>1, Zenon DEF Get
<1>3. ~(r.zeroCount >= 2 /\ v < 3) /\ ~(r.escaped /\ v > 3)
  OBVIOUS
<1>4. Get(r, v).sound
  BY <1>2, <1>3, Zenon
<1> QED BY <1>2, <1>4 DEF Through

LEMMA GetEscape ==
    ASSUME NEW r \in Reading, r.zeroCount = 2, r.sound
    PROVE  LET e == Get(r, 3) IN
           e.rbsp = r.rbsp /\ e.zeroCount = 0 /\ e.sound
<1> DEFINE a == Append(r.locations, r.pos)
           b == r.pos + 1
<1>1. Get(r, 3) = [r EXCEPT !.locations = a, !.pos = b, !.zeroCount = 0, !.escaped = TRUE]
  BY DEF Get
<1> HIDE DEF a, b
<1> QED BY <1>1 DEF Reading

\* Where the escapes are.
LEMMA GetPlaces ==
    ASSUME NEW r \in Reading, NEW v \in Nat
    PROVE  /\ Get(r, v).pos = r.pos + 1
           /\ Get(r, v).locations = IF r.zeroCount = 2 /\ v = 3
                                    THEN Append(r.locations, r.pos) ELSE r.locations
<1>1. CASE r.zeroCount = 2 /\ v = 3
  <2> DEFINE a == Append(r.locations, r.pos)
             b == r.pos + 1
  <2>1. Get(r, v) = [r EXCEPT !.locations = a, !.pos = b, !.zeroCount = 0, !.escaped = TRUE]
    BY <1>1 DEF Get
  <2> HIDE DEF a, b
  <2>2. Get(r, v).pos = b /\ Get(r, v).locations = a
    BY <2>1 DEF Reading
  <2> QED BY <1>1, <2>2 DEF a, b
<1>2. CASE ~(r.zeroCount = 2 /\ v = 3)
  <2>1. Get(r, v).pos = r.pos + 1 /\ Get(r, v).locations = r.locations
    BY <1>2, Zenon DEF Get
  <2> QED BY <1>2, <2>1
<1> QED BY <1>1, <1>2
-----------------------------------------------------------------------------
(* What is written is read. *)
LEMMA AppendJoined ==
    ASSUME NEW h \in Seq(Nat), NEW s \in Seq(Nat), NEW v \in Nat
    PROVE  h \o Append(s, v) = Append(h \o s, v)
<1> DEFINE l == h \o Append(s, v)
           r == Append(h \o s, v)
           a == Append(s, v)
           j == h \o s
           n == Len(h) + Len(s)
<1>1. /\ a \in Seq(Nat) /\ Len(a) = Len(s) + 1 /\ a[Len(s) + 1] = v
      /\ \A i \in 1..Len(s) : a[i] = s[i]
  OBVIOUS
<1>2. /\ j \in Seq(Nat) /\ Len(j) = n
      /\ \A i \in 1..Len(h) : j[i] = h[i]
      /\ \A i \in (Len(h) + 1)..(Len(h) + Len(s)) : j[i] = s[i - Len(h)]
  BY Joined
<1> HIDE DEF a, j
<1>3. /\ r \in Seq(Nat) /\ Len(r) = n + 1 /\ r[n + 1] = v /\ \A i \in 1..n : r[i] = j[i]
  <2>1. r = Append(j, v) /\ Len(j) = n /\ j \in Seq(Nat)
    BY <1>2, Zenon DEF j
  <2> HIDE DEF r, n
  <2> QED BY <2>1
<1>4. /\ l \in Seq(Nat) /\ Len(l) = Len(h) + Len(a)
      /\ \A i \in 1..Len(h) : l[i] = h[i]
      /\ \A i \in (Len(h) + 1)..(Len(h) + Len(a)) : l[i] = a[i - Len(h)]
  BY <1>1, Joined DEF a
<1>5. Len(h) \in Nat /\ Len(s) \in Nat
  OBVIOUS
<1> HIDE DEF l, r
<1>6. ASSUME NEW i \in 1..(n + 1) PROVE l[i] = r[i]
  <2>1. CASE i \in 1..Len(h)
    <3>1. i \in 1..n
      BY <1>5, <2>1
    <3> QED BY <1>2, <1>3, <1>4, <2>1, <3>1
  <2>2. CASE i \in (Len(h) + 1)..n
    <3>1. i - Len(h) \in 1..Len(s) /\ i \in (Len(h) + 1)..(Len(h) + Len(a)) /\ i \in 1..n
      BY <1>1, <1>5, <2>2
    <3>2. l[i] = a[i - Len(h)] /\ a[i - Len(h)] = s[i - Len(h)]
      BY <1>1, <1>4, <3>1
    <3>3. r[i] = j[i] /\ j[i] = s[i - Len(h)]
      BY <1>2, <1>3, <2>2, <3>1
    <3> QED BY <3>2, <3>3
  <2>3. CASE i = n + 1
    <3>1. i - Len(h) = Len(s) + 1 /\ i \in (Len(h) + 1)..(Len(h) + Len(a))
      BY <1>1, <1>5, <2>3
    <3> QED BY <1>1, <1>3, <1>4, <2>3, <3>1
  <2>4. i \in 1..Len(h) \/ i \in (Len(h) + 1)..n \/ i = n + 1
    BY <1>5
  <2> QED BY <2>1, <2>2, <2>3, <2>4
<1>7. Len(l) = n + 1
  BY <1>1, <1>4, <1>5
<1>8. l = r
  BY <1>3, <1>4, <1>6, <1>7, SeqEqual
<1> QED BY <1>8 DEF l, r

\* A reading g one byte behind r, with an escape in front of it or without.
Follows(g, r, escape) ==
    /\ g.pos = r.pos + (IF escape THEN 2 ELSE 1)
    /\ g.locations = IF escape THEN Append(r.locations, r.pos) ELSE r.locations

LEMMA PutRead ==
    ASSUME NEW h \in Seq(Nat), NEW w \in Writing, NEW v \in Nat,
           Through(Got(h \o w.out), w.zeroCount)
    PROVE  /\ Through(Got(h \o Put(w, v).out), Put(w, v).zeroCount)
           /\ Got(h \o Put(w, v).out).rbsp = Append(Got(h \o w.out).rbsp, v)
           /\ Follows(Got(h \o Put(w, v).out), Got(h \o w.out), w.zeroCount = 2 /\ v <= 3)
<1> DEFINE s == h \o w.out
           r == Got(s)
           z == w.zeroCount
<1>1. w.out \in Seq(Nat) /\ z \in 0..2
  BY DEF Writing
<1>2. s \in Seq(Nat)
  BY <1>1, Joined
<1>3. r \in Reading /\ r.zeroCount = z /\ r.sound /\ r.escaped = FALSE
  BY <1>2, GotType DEF Through
<1>4. CASE z = 2 /\ v <= 3
  <2> DEFINE a == Append(w.out, 3)
             e == Get(r, 3)
             x == IF v # 0 THEN 0 ELSE 1
  <2>1. Put(w, v) = [out |-> Append(a, v), zeroCount |-> x]
    BY <1>4, PutAppends
  <2>2. a \in Seq(Nat)
    BY <1>1
  <2>3. h \o a = Append(s, 3)
    BY <1>1, AppendJoined
  <2>4. h \o Append(a, v) = Append(Append(s, 3), v)
    <3> HIDE DEF a, s
    <3>1. h \o Append(a, v) = Append(h \o a, v)
      BY <2>2, AppendJoined
    <3> QED BY <2>3, <3>1
  <2> HIDE DEF s, a
  <2>5. Append(s, 3) \in Seq(Nat)
    BY <1>2
  <2>6. Got(Append(s, 3)) = e
    BY <1>2, GotMore
  <2>7. Got(Append(Append(s, 3), v)) = Get(e, v)
    BY <2>5, <2>6, GotMore
  <2>8. e \in Reading
    BY <2>5, <2>6, GotType
  <2> HIDE DEF r
  <2>9. e.rbsp = r.rbsp /\ e.zeroCount = 0 /\ e.sound
    BY <1>3, <1>4, GetEscape
  <2>14. e.pos = r.pos + 1 /\ e.locations = Append(r.locations, r.pos)
    BY <1>3, <1>4, GetPlaces
  <2> HIDE DEF e
  <2>15. Follows(Get(e, v), r, w.zeroCount = 2 /\ v <= 3)
    <3>1. Get(e, v).pos = e.pos + 1 /\ Get(e, v).locations = e.locations
      BY <2>8, <2>9, GetPlaces
    <3>2. r.pos \in Nat /\ (r.pos + 1) + 1 = r.pos + 2
      BY <1>3 DEF Reading
    <3> QED BY <1>4, <2>14, <3>1, <3>2 DEF Follows
  <2>10. Get(e, v).rbsp = Append(r.rbsp, v) /\ Through(Get(e, v), IF v # 0 THEN 0 ELSE 0 + 1)
    BY <1>4, <2>8, <2>9, GetPlain
  <2>11. Through(Get(e, v), x)
    BY <2>10
  <2> HIDE DEF x
  <2>12. Put(w, v).out = Append(a, v) /\ Put(w, v).zeroCount = x
    BY <2>1
  <2>13. Got(h \o Put(w, v).out) = Get(e, v)
    BY <2>4, <2>7, <2>12, Zenon
  <2> QED BY <2>10, <2>11, <2>12, <2>13, <2>15, Zenon DEF r, s
<1>5. CASE ~(z = 2 /\ v <= 3)
  <2> DEFINE x == IF v # 0 THEN 0 ELSE z + 1
  <2>1. Put(w, v) = [out |-> Append(w.out, v), zeroCount |-> x]
    BY <1>5, PutAppends
  <2>2. h \o Append(w.out, v) = Append(s, v)
    BY <1>1, AppendJoined
  <2> HIDE DEF s
  <2>3. Got(Append(s, v)) = Get(r, v)
    BY <1>2, GotMore
  <2> HIDE DEF r, z
  <2>4. Get(r, v).rbsp = Append(r.rbsp, v) /\ Through(Get(r, v), x)
    <3>1. z = 2 => v > 3
      BY <1>5
    <3> QED BY <1>1, <1>3, <3>1, GetPlain DEF z
  <2>7. Follows(Get(r, v), r, w.zeroCount = 2 /\ v <= 3)
    <3>1. Get(r, v).pos = r.pos + 1 /\ Get(r, v).locations = r.locations
      BY <1>3, <1>5, GetPlaces DEF z
    <3> QED BY <1>5, <3>1 DEF Follows, z
  <2> HIDE DEF x
  <2>5. Put(w, v).out = Append(w.out, v) /\ Put(w, v).zeroCount = x
    BY <2>1
  <2>6. Got(h \o Put(w, v).out) = Get(r, v)
    BY <2>2, <2>3, <2>5, Zenon
  <2> QED BY <2>4, <2>5, <2>6, <2>7, Zenon DEF r, s
<1> QED BY <1>4, <1>5

\* b is a and the first n bytes of p.
Extends(b, a, p, n) ==
    /\ b \in Seq(Nat) /\ Len(b) = Len(a) + n
    /\ \A i \in 1..Len(a) : b[i] = a[i]
    /\ \A i \in 1..n : b[Len(a) + i] = p[i]

LEMMA ExtendsMore ==
    ASSUME NEW a \in Seq(Nat), NEW p \in Seq(Nat), NEW b, NEW n \in 1..Len(p),
           Extends(b, a, p, n - 1)
    PROVE  Extends(Append(b, p[n]), a, p, n)
<1> DEFINE c == Append(b, p[n])
<1>1. /\ b \in Seq(Nat) /\ Len(b) = Len(a) + (n - 1)
      /\ \A i \in 1..Len(a) : b[i] = a[i]
      /\ \A i \in 1..(n - 1) : b[Len(a) + i] = p[i]
  BY DEF Extends
<1>2. p[n] \in Nat /\ Len(a) \in Nat /\ n \in Nat /\ n >= 1
  OBVIOUS
<1>3. /\ c \in Seq(Nat) /\ Len(c) = Len(b) + 1 /\ c[Len(b) + 1] = p[n]
      /\ \A i \in 1..Len(b) : c[i] = b[i]
  <2>1. b \in Seq(Nat) /\ p[n] \in Nat
    BY <1>1, <1>2
  <2> QED BY ONLY <2>1, Appended
<1> HIDE DEF c
<1>4. Len(c) = Len(a) + n /\ Len(b) + 1 = Len(a) + n
  BY <1>1, <1>2, <1>3
<1>5. ASSUME NEW i \in 1..Len(a) PROVE c[i] = a[i]
  <2>1. i \in 1..Len(b)
    BY <1>2, <1>4
  <2> QED BY <1>1, <1>3, <2>1
<1>6. ASSUME NEW i \in 1..n PROVE c[Len(a) + i] = p[i]
  <2>1. CASE i = n
    BY <1>3, <1>4, <2>1
  <2>2. CASE i # n
    <3>1. i \in 1..(n - 1) /\ Len(a) + i \in 1..Len(b)
      BY <1>2, <1>4, <2>2
    <3> QED BY <1>1, <1>3, <3>1
  <2> QED BY <2>1, <2>2
<1> QED BY <1>3, <1>4, <1>5, <1>6 DEF Extends, c

LEMMA ExtendsAll ==
    ASSUME NEW a \in Seq(Nat), NEW p \in Seq(Nat), NEW b, Extends(b, a, p, Len(p))
    PROVE  b = a \o p
<1> DEFINE t == a \o p
<1>1. /\ t \in Seq(Nat) /\ Len(t) = Len(a) + Len(p)
      /\ \A i \in 1..Len(a) : t[i] = a[i]
      /\ \A i \in (Len(a) + 1)..(Len(a) + Len(p)) : t[i] = p[i - Len(a)]
  BY Joined
<1> HIDE DEF t
<1>2. /\ b \in Seq(Nat) /\ Len(b) = Len(a) + Len(p)
      /\ \A i \in 1..Len(a) : b[i] = a[i]
      /\ \A i \in 1..Len(p) : b[Len(a) + i] = p[i]
  BY DEF Extends
<1>3. Len(a) \in Nat /\ Len(p) \in Nat
  OBVIOUS
<1>4. ASSUME NEW i \in 1..Len(b) PROVE b[i] = t[i]
  <2>1. CASE i \in 1..Len(a)
    BY <1>1, <1>2, <2>1
  <2>2. CASE i \notin 1..Len(a)
    <3>1. /\ i \in (Len(a) + 1)..(Len(a) + Len(p)) /\ i - Len(a) \in 1..Len(p)
          /\ Len(a) + (i - Len(a)) = i
      BY <1>2, <1>3, <2>2
    <3> QED BY <1>1, <1>2, <3>1
  <2> QED BY <2>1, <2>2
<1>5. b = t
  BY <1>1, <1>2, <1>4, SeqEqual
<1> QED BY <1>5 DEF t

\* Reading has come through wherever the writer has been.
LEMMA PayloadSteps ==
    ASSUME NEW h \in Seq(Nat), Through(Got(h), 0), NEW p \in Seq(Nat),
           NEW after, WrittenSteps(after, p)
    PROVE  \A n \in 0..Len(p) : LET r == Got(h \o after[n].out) IN
               Through(r, after[n].zeroCount) /\ Extends(r.rbsp, Got(h).rbsp, p, n)
<1> DEFINE N == Len(p)
           a == Got(h).rbsp
           now(n) == Got(h \o after[n].out)
           S == {n \in 0..N : /\ Through(now(n), after[n].zeroCount)
                              /\ Extends(now(n).rbsp, a, p, n)}
<1>2. N \in Nat /\ p \in [1..N -> Nat]
  OBVIOUS
<1>3. /\ after[0] = NothingPut /\ \A n \in 1..N : after[n] = Put(after[n - 1], p[n])
      /\ \A n \in 0..N : after[n] \in Writing
  BY DEF WrittenSteps
<1>4. a \in Seq(Nat)
  BY GotType DEF Reading
<1>5. 0 \in S
  <2>1. h \o <<>> = h
    OBVIOUS
  <2>2. now(0) = Got(h) /\ after[0].zeroCount = 0
    BY <1>3, <2>1 DEF NothingPut
  <2>3. Extends(a, a, p, 0)
    BY <1>4 DEF Extends
  <2> HIDE DEF now
  <2> QED BY <1>2, <2>2, <2>3
<1>6. ASSUME NEW n \in 1..N, n - 1 \in S PROVE n \in S
  <2> DEFINE w == after[n - 1]
  <2>1. p[n] \in Nat /\ n - 1 \in 0..N /\ n \in 0..N
    BY <1>2
  <2>2. w \in Writing /\ after[n] = Put(w, p[n])
    BY <1>3, <2>1
  <2>3. Through(Got(h \o w.out), w.zeroCount) /\ Extends(now(n - 1).rbsp, a, p, n - 1)
    BY <1>6
  <2> HIDE DEF w
  <2>4. /\ Through(Got(h \o Put(w, p[n]).out), Put(w, p[n]).zeroCount)
        /\ Got(h \o Put(w, p[n]).out).rbsp = Append(Got(h \o w.out).rbsp, p[n])
    BY <2>1, <2>2, <2>3, PutRead
  <2>5. Through(now(n), after[n].zeroCount) /\ now(n).rbsp = Append(now(n - 1).rbsp, p[n])
    BY <2>2, <2>4 DEF w
  <2> HIDE DEF now, a
  <2>6. Extends(now(n).rbsp, a, p, n)
    BY <1>4, <2>3, <2>5, ExtendsMore DEF a
  <2> QED BY <2>1, <2>5, <2>6
<1> HIDE DEF S
<1>7. 0..N \subseteq S
  BY <1>2, <1>5, <1>6, InductionTo
<1> QED BY <1>7 DEF S

\* A payload that does not end in a zero needs no escape behind it.
LEMMA EscapedEnds ==
    ASSUME NEW p \in Seq(Nat), Ended(p), NEW after, WrittenSteps(after, p)
    PROVE  after[Len(p)].zeroCount = 0 /\ Escaped(p) = after[Len(p)].out
<1> DEFINE N == Len(p)
<1>1. N \in Nat /\ p \in [1..N -> Nat]
  OBVIOUS
<1>2. /\ after[0] = NothingPut /\ \A n \in 1..N : after[n] = Put(after[n - 1], p[n])
      /\ \A n \in 0..N : after[n] \in Writing
      /\ Escaped(p) = after[N].out \o (IF after[N].zeroCount > 0 THEN <<3>> ELSE <<>>)
  BY DEF WrittenSteps
<1>3. N \in 0..N
  BY <1>1
<1>4. after[N].zeroCount = 0
  <2>1. CASE N = 0
    BY <1>2, <2>1 DEF NothingPut
  <2>2. CASE N # 0
    <3>1. N \in 1..N /\ N - 1 \in 0..N /\ p[N] \in Nat /\ p[N] # 0
      BY <1>1, <2>2 DEF Ended
    <3>2. after[N] = Put(after[N - 1], p[N])
      BY <1>2, <3>1
    <3> HIDE DEF N
    <3> QED BY <3>1, <3>2 DEF Put
  <2> QED BY <2>1, <2>2
<1>5. Escaped(p) = after[N].out
  <2>1. after[N].out \in Seq(Nat)
    BY <1>2, <1>3 DEF Writing
  <2>2. Escaped(p) = after[N].out \o <<>>
    BY <1>2, <1>4
  <2> QED BY <2>1, <2>2
<1> QED BY <1>4, <1>5

\* A payload that does not end in a zero is read as it was.
LEMMA PayloadRead ==
    ASSUME NEW h \in Seq(Nat), Through(Got(h), 0), NEW p \in Seq(Nat), Ended(p)
    PROVE  /\ Through(Got(h \o Escaped(p)), 0)
           /\ Got(h \o Escaped(p)).rbsp = Got(h).rbsp \o p
<1>1. PICK after : WrittenSteps(after, p)
  BY EscapedSteps
<1>2. Len(p) \in 0..Len(p)
  OBVIOUS
<1>3. after[Len(p)].zeroCount = 0 /\ Escaped(p) = after[Len(p)].out
  BY <1>1, EscapedEnds
<1> DEFINE r == Got(h \o Escaped(p))
           a == Got(h).rbsp
<1>4. Through(r, 0) /\ Extends(r.rbsp, a, p, Len(p))
  BY <1>1, <1>2, <1>3, PayloadSteps
<1>5. a \in Seq(Nat)
  BY GotType DEF Reading
<1> HIDE DEF r, a
<1>6. r.rbsp = a \o p
  BY <1>4, <1>5, ExtendsAll
<1> QED BY <1>4, <1>6 DEF r, a

\* b is a with zeros behind it.
Padded(b, a) ==
    /\ b \in Seq(Nat) /\ Len(b) >= Len(a)
    /\ \A i \in 1..Len(a) : b[i] = a[i]
    /\ \A i \in (Len(a) + 1)..Len(b) : b[i] = 0

LEMMA PaddedMore ==
    ASSUME NEW a \in Seq(Nat), NEW b, Padded(b, a)
    PROVE  Padded(Append(b, 0), a)
<1> DEFINE c == Append(b, 0)
<1>1. /\ b \in Seq(Nat) /\ Len(b) >= Len(a)
      /\ \A i \in 1..Len(a) : b[i] = a[i]
      /\ \A i \in (Len(a) + 1)..Len(b) : b[i] = 0
  BY DEF Padded
<1>2. /\ c \in Seq(Nat) /\ Len(c) = Len(b) + 1 /\ c[Len(b) + 1] = 0
      /\ \A i \in 1..Len(b) : c[i] = b[i]
  <2>1. b \in Seq(Nat) /\ 0 \in Nat
    BY <1>1
  <2> QED BY ONLY <2>1, Appended
<1>3. Len(a) \in Nat /\ Len(b) \in Nat /\ Len(b) >= Len(a) /\ Len(c) = Len(b) + 1
  BY <1>1, <1>2
<1> HIDE DEF c
<1>4. ASSUME NEW i \in 1..Len(a) PROVE c[i] = a[i]
  <2>1. i \in 1..Len(b)
    BY <1>3
  <2> QED BY <1>1, <1>2, <2>1
<1>5. ASSUME NEW i \in (Len(a) + 1)..Len(c) PROVE c[i] = 0
  <2>1. i = Len(b) + 1 \/ (i \in (Len(a) + 1)..Len(b) /\ i \in 1..Len(b))
    BY <1>3
  <2> QED BY <1>1, <1>2, <2>1
<1>6. Len(c) >= Len(a)
  BY <1>3
<1> QED BY <1>2, <1>4, <1>5, <1>6 DEF Padded, c

LEMMA ZeroWordsMore ==
    ASSUME NEW n \in Nat \ {0}
    PROVE  ZeroWords(n) = Append(Append(Append(ZeroWords(n - 1), 0), 0), 3)
<1> DEFINE m == 3 * (n - 1)
           z == ZeroWords(n - 1)
           a == Append(z, 0)
           b == Append(a, 0)
           c == Append(b, 3)
           x == ZeroWords(n)
<1>1. m \in Nat /\ 3 * n = m + 3 /\ (m + 1) % 3 # 0 /\ (m + 2) % 3 # 0 /\ (m + 3) % 3 = 0
  OBVIOUS
<1>2. /\ z = [i \in 1..m |-> IF i % 3 = 0 THEN 3 ELSE 0]
      /\ x = [i \in 1..(m + 3) |-> IF i % 3 = 0 THEN 3 ELSE 0]
  BY <1>1 DEF ZeroWords
<1>3. z \in Seq(Nat) /\ x \in Seq(Nat)
  BY ZeroWordsClean
<1> HIDE DEF m, z, x
<1>4. Len(z) = m /\ Len(x) = m + 3
  BY <1>1, <1>2
<1>5. a \in Seq(Nat) /\ Len(a) = m + 1 /\ a[m + 1] = 0 /\ \A i \in 1..m : a[i] = z[i]
  BY <1>3, <1>4, Appended
<1> HIDE DEF a
<1>6. b \in Seq(Nat) /\ Len(b) = m + 2 /\ b[m + 2] = 0 /\ \A i \in 1..(m + 1) : b[i] = a[i]
  <2>1. /\ b \in Seq(Nat) /\ Len(b) = Len(a) + 1 /\ b[Len(a) + 1] = 0
        /\ \A i \in 1..Len(a) : b[i] = a[i]
    BY <1>5, Appended
  <2>2. (m + 1) + 1 = m + 2
    BY <1>1
  <2> HIDE DEF b
  <2> QED BY <1>5, <2>1, <2>2
<1> HIDE DEF b
<1>7. c \in Seq(Nat) /\ Len(c) = m + 3 /\ c[m + 3] = 3 /\ \A i \in 1..(m + 2) : c[i] = b[i]
  <2>1. /\ c \in Seq(Nat) /\ Len(c) = Len(b) + 1 /\ c[Len(b) + 1] = 3
        /\ \A i \in 1..Len(b) : c[i] = b[i]
    BY <1>6, Appended
  <2>2. (m + 2) + 1 = m + 3
    BY <1>1
  <2> HIDE DEF c
  <2> QED BY <1>6, <2>1, <2>2
<1> HIDE DEF c
<1>8. ASSUME NEW i \in 1..(m + 3) PROVE x[i] = c[i]
  <2>1. x[i] = IF i % 3 = 0 THEN 3 ELSE 0
    BY <1>2
  <2>2. CASE i \in 1..m
    <3>1. i \in 1..(m + 1) /\ i \in 1..(m + 2)
      BY <1>1, <2>2
    <3>2. c[i] = z[i]
      BY <1>5, <1>6, <1>7, <2>2, <3>1
    <3>3. z[i] = IF i % 3 = 0 THEN 3 ELSE 0
      BY <1>2, <2>2
    <3> QED BY <2>1, <3>2, <3>3
  <2>3. CASE i = m + 1
    <3>1. i \in 1..(m + 1) /\ i \in 1..(m + 2)
      BY <1>1, <2>3
    <3>2. c[i] = 0
      BY <1>5, <1>6, <1>7, <2>3, <3>1
    <3> QED BY <1>1, <2>1, <2>3, <3>2
  <2>4. CASE i = m + 2
    <3>1. i \in 1..(m + 2)
      BY <1>1, <2>4
    <3>2. c[i] = 0
      BY <1>6, <1>7, <2>4, <3>1
    <3> QED BY <1>1, <2>1, <2>4, <3>2
  <2>5. CASE i = m + 3
    BY <1>1, <1>7, <2>1, <2>5
  <2>6. i \in 1..m \/ i = m + 1 \/ i = m + 2 \/ i = m + 3
    BY <1>1
  <2> QED BY <2>2, <2>3, <2>4, <2>5, <2>6
<1>9. x = c
  BY <1>3, <1>4, <1>7, <1>8, SeqEqual
<1> QED BY <1>9 DEF x, c, b, a, z

\* The zero words behind a payload.
LEMMA ZeroWordsRead ==
    ASSUME NEW s \in Seq(Nat), Through(Got(s), 0), NEW N \in Nat
    PROVE  LET r == Got(s \o ZeroWords(N)) IN
           r.zeroCount = 0 /\ r.sound /\ Padded(r.rbsp, Got(s).rbsp)
<1> DEFINE a == Got(s).rbsp
           now(n) == Got(s \o ZeroWords(n))
           Fine(r) == r.zeroCount = 0 /\ r.sound /\ Padded(r.rbsp, a)
           S == {n \in 0..N : Fine(now(n))}
<1>1. a \in Seq(Nat)
  BY GotType DEF Reading
<1>2. 0 \in S
  <2>1. ZeroWords(0) = <<>>
    BY DEF ZeroWords
  <2>2. s \o <<>> = s
    OBVIOUS
  <2>3. now(0) = Got(s)
    BY <2>1, <2>2
  <2>4. Padded(a, a)
    BY <1>1 DEF Padded
  <2> HIDE DEF now
  <2> QED BY <2>3, <2>4 DEF Through
<1>3. ASSUME NEW n \in 1..N, n - 1 \in S PROVE n \in S
  <2> DEFINE z == ZeroWords(n - 1)
             t == s \o z
             t1 == Append(t, 0)
             t2 == Append(t1, 0)
             r0 == Got(t)
             r1 == Get(r0, 0)
             r2 == Get(r1, 0)
             r3 == Get(r2, 3)
  <2>1. z \in Seq(Nat) /\ n \in Nat \ {0} /\ n \in 0..N
    <3>1. n - 1 \in Nat /\ n \in Nat \ {0} /\ n \in 0..N
      OBVIOUS
    <3> QED BY <3>1, ZeroWordsClean
  <2>2. ZeroWords(n) = Append(Append(Append(z, 0), 0), 3)
    BY <2>1, ZeroWordsMore
  <2>3. r0.zeroCount = 0 /\ r0.sound /\ Padded(r0.rbsp, a)
    BY <1>3
  <2> HIDE DEF z
  <2>4. s \o Append(Append(Append(z, 0), 0), 3) = Append(t2, 3)
    <3> DEFINE z1 == Append(z, 0)
               z2 == Append(z1, 0)
    <3>1. z1 \in Seq(Nat) /\ s \o z1 = t1
      BY <2>1, Appended, AppendJoined
    <3> HIDE DEF z1, t1
    <3>2. z2 \in Seq(Nat) /\ s \o z2 = t2
      BY <3>1, Appended, AppendJoined
    <3> HIDE DEF z2, t2
    <3>3. s \o Append(z2, 3) = Append(t2, 3)
      BY <3>2, AppendJoined
    <3> QED BY <3>3 DEF z1, z2
  <2>5. t \in Seq(Nat)
    BY <2>1, Joined
  <2> HIDE DEF t
  <2>6. t1 \in Seq(Nat) /\ Got(t1) = r1
    BY <2>5, Appended, GotMore
  <2>7. r0 \in Reading
    BY <2>5, GotType
  <2> HIDE DEF t1, r0
  <2>8. t2 \in Seq(Nat) /\ Got(t2) = r2
    BY <2>6, Appended, GotMore
  <2>9. r1 \in Reading
    BY <2>6, GotType
  <2>10. r1.rbsp = Append(r0.rbsp, 0) /\ r1.zeroCount = 1 /\ r1.sound /\ r1.escaped = FALSE
    <3>1. r1.rbsp = Append(r0.rbsp, 0) /\ Through(r1, IF 0 # 0 THEN 0 ELSE 0 + 1)
      BY <2>3, <2>7, GetPlain
    <3> HIDE DEF r1
    <3> QED BY <3>1 DEF Through
  <2> HIDE DEF t2, r1
  <2>11. Got(Append(t2, 3)) = r3 /\ r2 \in Reading
    BY <2>8, GotType, GotMore
  <2>12. r2.rbsp = Append(r1.rbsp, 0) /\ r2.zeroCount = 2 /\ r2.sound
    <3>1. r2.rbsp = Append(r1.rbsp, 0) /\ Through(r2, IF 0 # 0 THEN 0 ELSE 1 + 1)
      BY <2>9, <2>10, GetPlain
    <3> HIDE DEF r2
    <3> QED BY <3>1 DEF Through
  <2> HIDE DEF r2
  <2>13. r3.rbsp = r2.rbsp /\ r3.zeroCount = 0 /\ r3.sound
    BY <2>11, <2>12, GetEscape
  <2> HIDE DEF r3, a
  <2>14. Padded(r3.rbsp, a)
    <3>1. a \in Seq(Nat)
      BY <1>1
    <3>2. Padded(r1.rbsp, a)
      BY <2>3, <2>10, <3>1, PaddedMore
    <3> QED BY <2>12, <2>13, <3>1, <3>2, PaddedMore
  <2>15. now(n) = r3
    BY <2>2, <2>4, <2>11
  <2> HIDE DEF now
  <2> QED BY <2>1, <2>13, <2>14, <2>15
<1> HIDE DEF S
<1>4. 0..N \subseteq S
  BY <1>2, <1>3, InductionTo
<1>5. N \in 0..N
  OBVIOUS
<1> QED BY <1>4, <1>5 DEF S

LEMMA PaddingDropped ==
    ASSUME NEW a \in Seq(Nat), NEW b, Padded(b, a), Ended(a), Len(a) > 0
    PROVE  WithoutZeroWords(b) = a
<1> DEFINE used == {i \in DOMAIN b : b[i] # 0}
           top == Max(used)
           n == Len(a)
<1>1. /\ b \in Seq(Nat) /\ Len(b) >= n
      /\ \A i \in 1..n : b[i] = a[i]
      /\ \A i \in (n + 1)..Len(b) : b[i] = 0
  BY DEF Padded
<1>2. n \in Nat /\ n > 0 /\ a[n] # 0 /\ DOMAIN b = 1..Len(b) /\ Len(b) \in Nat
  BY <1>1 DEF Ended
<1>3. n \in used
  <2>1. n \in 1..Len(b) /\ n \in 1..n
    BY <1>1, <1>2
  <2> QED BY <1>1, <1>2, <2>1
<1>4. ASSUME NEW i \in used PROVE i \in Nat /\ i <= n
  <2>1. i \in 1..Len(b) /\ b[i] # 0
    BY <1>2
  <2>2. i \notin (n + 1)..Len(b)
    BY <1>1, <2>1
  <2> QED BY <1>2, <2>1, <2>2
<1> HIDE DEF used
<1>5. top = n
  <2>1. top = CHOOSE x \in used : \A y \in used : x >= y
    BY DEF Max
  <2>2. n \in used /\ \A y \in used : n >= y
    BY <1>2, <1>3, <1>4
  <2> HIDE DEF top, n
  <2>3. top \in used /\ \A y \in used : top >= y
    BY <2>1, <2>2
  <2>4. top >= n /\ top <= n /\ top \in Nat
    BY <1>4, <2>2, <2>3
  <2> QED BY <1>2, <2>4
<1>6. WithoutZeroWords(b) = SubSeq(b, 1, n)
  BY <1>3, <1>5 DEF WithoutZeroWords, used
<1>7. SubSeq(b, 1, n) = a
  <2> DEFINE c == SubSeq(b, 1, n)
  <2>1. c \in Seq(Nat) /\ Len(c) = n /\ \A i \in 1..n : c[i] = b[i]
    BY <1>1, <1>2
  <2> HIDE DEF c
  <2>2. \A i \in 1..n : c[i] = a[i]
    BY <1>1, <2>1
  <2>3. c = a
    BY <2>1, <2>2, SeqEqual
  <2> QED BY <2>3 DEF c
<1> QED BY <1>6, <1>7

-----------------------------------------------------------------------------
(* A payload is the syntax and the substreams, joined one by one. *)
JoinSteps(pre, base, seqs) ==
    /\ pre \in [0..Len(seqs) -> Seq(Nat)]
    /\ pre[0] = base
    /\ \A n \in 1..Len(seqs) : pre[n] = pre[n - 1] \o seqs[n]

\* a is how b begins.
Starts(a, b) == Len(a) <= Len(b) /\ \A k \in 1..Len(a) : b[k] = a[k]

LEMMA StartsJoin ==
    ASSUME NEW a \in Seq(Nat), NEW b \in Seq(Nat), NEW c \in Seq(Nat), Starts(a, b)
    PROVE  Starts(a, b \o c)
<1> DEFINE t == b \o c
<1>1. Len(t) = Len(b) + Len(c) /\ \A k \in 1..Len(b) : t[k] = b[k]
  BY Joined
<1>2. Len(a) \in Nat /\ Len(b) \in Nat /\ Len(c) \in Nat
  OBVIOUS
<1>3. Len(a) <= Len(b) /\ \A k \in 1..Len(a) : b[k] = a[k]
  BY DEF Starts
<1> HIDE DEF t
<1>4. \A k \in 1..Len(a) : k \in 1..Len(b)
  BY <1>2, <1>3
<1>5. Len(a) <= Len(t)
  BY <1>1, <1>2, <1>3
<1> QED BY <1>1, <1>3, <1>4, <1>5 DEF Starts, t

LEMMA JoinStarts ==
    ASSUME NEW seqs \in Seq(Seq(Nat)), NEW base, NEW pre, JoinSteps(pre, base, seqs),
           NEW i \in 0..Len(seqs)
    PROVE  \A n \in i..Len(seqs) : Starts(pre[i], pre[n])
<1> DEFINE M == Len(seqs)
           S == {n \in 0..M : n >= i => Starts(pre[i], pre[n])}
<1>1. /\ M \in Nat /\ seqs \in [1..M -> Seq(Nat)] /\ i \in 0..M
  OBVIOUS
<1>2. /\ \A n \in 0..M : pre[n] \in Seq(Nat)
      /\ \A n \in 1..M : pre[n] = pre[n - 1] \o seqs[n]
  BY DEF JoinSteps
<1> HIDE DEF M
<1>3. Starts(pre[i], pre[i])
  <2>1. Len(pre[i]) \in Nat
    BY <1>1, <1>2
  <2> QED BY <2>1 DEF Starts
<1>4. 0 \in S
  <2>1. 0 >= i => i = 0
    BY <1>1
  <2> QED BY <1>1, <1>3, <2>1
<1>5. ASSUME NEW n \in 1..M, n - 1 \in S PROVE n \in S
  <2>1. n \in 0..M /\ n - 1 \in 0..M
    BY <1>1
  <2>2. CASE n - 1 >= i
    <3>1. Starts(pre[i], pre[n - 1]) /\ pre[i] \in Seq(Nat) /\ pre[n - 1] \in Seq(Nat)
          /\ seqs[n] \in Seq(Nat)
      BY <1>1, <1>2, <1>5, <2>1, <2>2
    <3>2. Starts(pre[i], pre[n - 1] \o seqs[n])
      BY <3>1, StartsJoin
    <3> QED BY <1>2, <2>1, <3>2
  <2>3. CASE ~(n - 1 >= i)
    <3>1. n >= i => n = i
      BY <1>1, <2>3
    <3> QED BY <1>3, <2>1, <3>1
  <2> QED BY <2>2, <2>3
<1> HIDE DEF S
<1>6. 0..M \subseteq S
  BY <1>1, <1>4, <1>5, InductionTo
<1>7. \A n \in i..M : n \in 0..M /\ n >= i
  BY <1>1
<1> QED BY <1>6, <1>7 DEF S, M

LEMMA EndedJoin ==
    ASSUME NEW a \in Seq(Nat), NEW b \in Seq(Nat), Ended(a), Ended(b)
    PROVE  Ended(a \o b)
<1> DEFINE t == a \o b
<1>1. /\ Len(t) = Len(a) + Len(b)
      /\ \A i \in 1..Len(a) : t[i] = a[i]
      /\ \A i \in (Len(a) + 1)..(Len(a) + Len(b)) : t[i] = b[i - Len(a)]
  BY Joined
<1>2. Len(a) \in Nat /\ Len(b) \in Nat
  OBVIOUS
<1>3. (Len(a) > 0 => a[Len(a)] # 0) /\ (Len(b) > 0 => b[Len(b)] # 0)
  BY DEF Ended
<1> HIDE DEF t
<1>4. CASE Len(b) = 0
  <2>1. Len(t) = Len(a) /\ (Len(a) > 0 => Len(a) \in 1..Len(a))
    BY <1>1, <1>2, <1>4
  <2> QED BY <1>1, <1>3, <2>1 DEF Ended, t
<1>5. CASE Len(b) # 0
  <2>1. Len(t) \in (Len(a) + 1)..(Len(a) + Len(b)) /\ Len(t) - Len(a) = Len(b) /\ Len(b) > 0
    BY <1>1, <1>2, <1>5
  <2>2. t[Len(t)] = b[Len(b)]
    BY <1>1, <2>1
  <2> QED BY <1>3, <2>1, <2>2 DEF Ended, t
<1> QED BY <1>4, <1>5

LEMMA JoinEnded ==
    ASSUME NEW seqs \in Seq(Seq(Nat)), NEW base, NEW pre, JoinSteps(pre, base, seqs),
           Ended(base), \A i \in 1..Len(seqs) : Ended(seqs[i])
    PROVE  \A n \in 0..Len(seqs) : Ended(pre[n])
<1> DEFINE M == Len(seqs)
           S == {n \in 0..M : Ended(pre[n])}
<1>1. /\ M \in Nat /\ seqs \in [1..M -> Seq(Nat)] /\ \A i \in 1..M : Ended(seqs[i])
  OBVIOUS
<1>2. /\ \A n \in 0..M : pre[n] \in Seq(Nat) /\ pre[0] = base
      /\ \A n \in 1..M : pre[n] = pre[n - 1] \o seqs[n]
  BY DEF JoinSteps
<1> HIDE DEF M
<1>3. 0 \in S
  BY <1>1, <1>2
<1>4. ASSUME NEW n \in 1..M, n - 1 \in S PROVE n \in S
  <2>1. n \in 0..M /\ n - 1 \in 0..M
    BY <1>1
  <2>2. pre[n - 1] \in Seq(Nat) /\ seqs[n] \in Seq(Nat) /\ Ended(pre[n - 1]) /\ Ended(seqs[n])
    BY <1>1, <1>2, <1>4, <2>1
  <2>3. Ended(pre[n - 1] \o seqs[n])
    BY <2>2, EndedJoin
  <2> QED BY <1>2, <2>1, <2>3
<1> HIDE DEF S
<1>5. 0..M \subseteq S
  BY <1>1, <1>3, <1>4, InductionTo
<1> QED BY <1>5 DEF S, M

LEMMA JoinAssociates ==
    ASSUME NEW a \in Seq(Nat), NEW b \in Seq(Nat), NEW c \in Seq(Nat)
    PROVE  (a \o b) \o c = a \o (b \o c)
BY ConcatAssociative

LEMMA JoinsExist ==
    ASSUME NEW base \in Seq(Nat), NEW seqs \in Seq(Seq(Nat))
    PROVE  \E pre : JoinSteps(pre, base, seqs) /\ pre[Len(seqs)] = base \o FlattenSeq(seqs)
<1> DEFINE M == Len(seqs)
<1>1. PICK flat : FlatSteps(flat, seqs)
  BY FlattenSteps
<1> DEFINE pre == [n \in 0..M |-> base \o flat[n]]
<1>2. M \in Nat /\ seqs \in [1..M -> Seq(Nat)]
  OBVIOUS
<1>3. /\ \A n \in 0..M : flat[n] \in Seq(Nat)
      /\ flat[0] = <<>>
      /\ \A n \in 1..M : flat[n] = flat[n - 1] \o seqs[n]
      /\ FlattenSeq(seqs) = flat[M]
  BY <1>1 DEF FlatSteps
<1> HIDE DEF M
<1>4. \A n \in 0..M : pre[n] = base \o flat[n]
  OBVIOUS
<1>5. pre \in [0..M -> Seq(Nat)]
  <2>1. ASSUME NEW n \in 0..M PROVE base \o flat[n] \in Seq(Nat)
    <3>1. flat[n] \in Seq(Nat)
      BY <1>3
    <3> QED BY <3>1, ConcatProperties
  <2> QED BY <2>1
<1> HIDE DEF pre
<1>6. pre[0] = base
  <2>1. base \o <<>> = base
    OBVIOUS
  <2>2. 0 \in 0..M
    BY <1>2
  <2> QED BY <1>3, <1>4, <2>1, <2>2
<1>7. ASSUME NEW n \in 1..M PROVE pre[n] = pre[n - 1] \o seqs[n]
  <2>1. n \in 0..M /\ n - 1 \in 0..M
    BY <1>2
  <2>2. flat[n - 1] \in Seq(Nat) /\ seqs[n] \in Seq(Nat) /\ flat[n] = flat[n - 1] \o seqs[n]
    BY <1>2, <1>3, <2>1
  <2>3. (base \o flat[n - 1]) \o seqs[n] = base \o (flat[n - 1] \o seqs[n])
    BY <2>2, JoinAssociates
  <2> QED BY <1>4, <2>1, <2>2, <2>3
<1>8. M \in 0..M
  BY <1>2
<1>9. JoinSteps(pre, base, seqs) /\ pre[M] = base \o FlattenSeq(seqs)
  BY <1>3, <1>4, <1>5, <1>6, <1>7, <1>8 DEF JoinSteps, M
<1> QED BY <1>9 DEF M

LEMMA UnitEnded ==
    ASSUME NEW u \in Units
    PROVE  /\ Ended(u.syntax) /\ \A i \in 1..Len(u.subs) : Ended(u.subs[i])
           /\ u.type \in VclTypes => Len(u.subs) > 0
           /\ u.type \notin VclTypes => u.subs = <<>> /\ u.zeroWords = 0
<1>1. u.syntax \in Seq(Nat) /\ u.subs \in Seq(Seq(Nat))
  BY UnitType
<1>2. /\ u.syntax # <<>> => Last(u.syntax) # 0
      /\ \A i \in DOMAIN u.subs : u.subs[i] # <<>> => Last(u.subs[i]) # 0
      /\ IF u.type \in VclTypes THEN u.subs # <<>>
         ELSE u.subs = <<>> /\ u.zeroWords = 0
  BY StopBitsAssumption, Zenon
<1>3. ASSUME NEW s \in Seq(Nat), s # <<>> => Last(s) # 0 PROVE Ended(s)
  <2>1. Len(s) > 0 => s # <<>>
    OBVIOUS
  <2> QED BY <1>3, <2>1 DEF Ended, Last
<1>4. DOMAIN u.subs = 1..Len(u.subs) /\ \A i \in 1..Len(u.subs) : u.subs[i] \in Seq(Nat)
  BY <1>1
<1>5. u.subs # <<>> => Len(u.subs) > 0
  BY <1>1
<1> QED BY <1>1, <1>2, <1>3, <1>4, <1>5, Zenon

LEMMA PayloadEnded == ASSUME NEW u \in Units PROVE Ended(Payload(u))
<1>1. u.syntax \in Seq(Nat) /\ u.subs \in Seq(Seq(Nat))
  BY UnitType
<1>2. PICK pre : JoinSteps(pre, u.syntax, u.subs) /\ pre[Len(u.subs)] = Payload(u)
  BY <1>1, JoinsExist DEF Payload
<1>3. \A n \in 0..Len(u.subs) : Ended(pre[n])
  BY <1>1, <1>2, UnitEnded, JoinEnded
<1>4. Len(u.subs) \in 0..Len(u.subs)
  BY <1>1
<1> QED BY <1>2, <1>3, <1>4

\* The header of a unit, read.
LEMMA HeaderRead ==
    ASSUME NEW type \in Nat
    PROVE  LET h == NalUnitHeader(type)
               r == Got(h) IN
           /\ h \in Seq(Nat) /\ Len(h) = 2 /\ h[2] = 8 * type + 1
           /\ Through(r, 0) /\ r.rbsp = h /\ r.pos = 2 /\ r.locations = <<>>
<1> DEFINE h == NalUnitHeader(type)
           b == 8 * type + 1
           h1 == Append(<<>>, 0)
           r1 == Get(NothingGot, 0)
           r2 == Get(r1, b)
<1>1. b \in Nat /\ b > 0
  OBVIOUS
<1> HIDE DEF b
<1>2. h = <<0, b>> /\ h \in Seq(Nat) /\ Len(h) = 2 /\ h[2] = b
  BY <1>1 DEF NalUnitHeader, b
<1>3. <<>> \in Seq(Nat) /\ h1 \in Seq(Nat) /\ h = Append(h1, b)
  BY <1>1, <1>2
<1>4. Got(h1) = r1
  BY <1>3, GotNothing, GotMore
<1>5. NothingGot \in Reading /\ r1 \in Reading
  BY <1>3, <1>4, GotNothing, GotType
<1>6. /\ NothingGot.zeroCount = 0 /\ NothingGot.sound /\ NothingGot.escaped = FALSE
      /\ NothingGot.rbsp = <<>> /\ NothingGot.pos = 0 /\ NothingGot.locations = <<>>
  BY DEF NothingGot
<1>7. r1.pos = 1 /\ r1.locations = <<>>
  BY <1>5, <1>6, GetPlaces
<1>8. r1.rbsp = h1 /\ r1.zeroCount = 1 /\ r1.sound /\ r1.escaped = FALSE
  <2>1. r1.rbsp = Append(NothingGot.rbsp, 0) /\ Through(r1, IF 0 # 0 THEN 0 ELSE 0 + 1)
    BY <1>5, <1>6, GetPlain
  <2> HIDE DEF r1
  <2> QED BY <1>6, <2>1 DEF Through
<1> HIDE DEF h1, r1, h
<1>9. Got(h) = r2
  BY <1>1, <1>3, <1>4, GotMore
<1>10. r2.rbsp = Append(r1.rbsp, b) /\ Through(r2, IF b # 0 THEN 0 ELSE 1 + 1)
  BY <1>1, <1>5, <1>8, GetPlain
<1>11. r2.pos = 2 /\ r2.locations = <<>>
  BY <1>1, <1>5, <1>7, <1>8, GetPlaces
<1>12. b # 0
  BY <1>1
<1>13. Through(r2, 0) /\ r2.rbsp = h
  BY <1>3, <1>8, <1>10, <1>12
<1> QED BY <1>2, <1>9, <1>11, <1>13 DEF h, b

\* Emulation prevention and zero words leave nothing behind: every unit passes the
\* CHECKs of the reader, and its bytes are those that it had (writeNaluContent,
\* convertPayloadToRBSP, readNalUnitHeader).
THEOREM UnitsRead ==
    ASSUME NEW u \in Units
    PROVE  LET r == read(Written(u)) IN
           /\ r.sound /\ r.type = u.type /\ r.rbsp = NalUnitHeader(u.type) \o Payload(u)
           /\ r.locations = Got(Written(u)).locations
<1> DEFINE h == NalUnitHeader(u.type)
           b == 8 * u.type + 1
           p == Payload(u)
           s == h \o Escaped(p)
           a == h \o p
           w == s \o ZeroWords(u.zeroWords)
           g == Got(w)
<1>1. u.type \in Nat /\ u.zeroWords \in Nat
  BY UnitType
<1>2. Written(u) = w
  BY Zenon DEF Written, Payload
<1>3. p \in Seq(Nat) /\ Ended(p)
  BY PayloadType, PayloadEnded
<1>4. b \in Nat /\ b > 0 /\ b \div 8 = u.type
  BY <1>1
<1> HIDE DEF p, b
<1>5. h \in Seq(Nat) /\ Len(h) = 2 /\ h[2] = b
  BY <1>1, HeaderRead DEF b
<1>6. Through(Got(h), 0) /\ Got(h).rbsp = h
  BY <1>1, HeaderRead
<1> HIDE DEF h
<1>7. Through(Got(s), 0) /\ Got(s).rbsp = a /\ s \in Seq(Nat) /\ a \in Seq(Nat)
  <2>1. Through(Got(s), 0) /\ Got(s).rbsp = a
    BY <1>3, <1>5, <1>6, PayloadRead
  <2>2. Escaped(p) \in Seq(Nat)
    BY <1>3, EscapedClean
  <2>3. s \in Seq(Nat) /\ a \in Seq(Nat)
    BY <1>3, <1>5, <2>2, Joined
  <2> QED BY <2>1, <2>3
<1>8. Ended(a) /\ Len(a) >= 2 /\ a[2] = b
  <2>1. /\ Len(a) = Len(h) + Len(p) /\ \A i \in 1..Len(h) : a[i] = h[i]
        /\ \A i \in (Len(h) + 1)..(Len(h) + Len(p)) : a[i] = p[i - Len(h)]
    BY <1>3, <1>5, Joined
  <2>2. Len(p) \in Nat
    BY <1>3
  <2>3. 2 \in 1..Len(h)
    BY <1>5
  <2>4. a[2] = b
    BY <1>5, <2>1, <2>3
  <2> HIDE DEF a
  <2>5. Len(a) = 2 + Len(p)
    BY <1>5, <2>1
  <2>6. CASE Len(p) = 0
    <3>1. Len(a) = 2
      BY <2>5, <2>6
    <3> QED BY <1>4, <2>4, <3>1 DEF Ended
  <2>7. CASE Len(p) > 0
    <3>1. Len(a) \in (Len(h) + 1)..(Len(h) + Len(p)) /\ Len(a) - Len(h) = Len(p)
      BY <1>5, <2>2, <2>5, <2>7
    <3>2. a[Len(a)] = p[Len(p)]
      BY <2>1, <3>1
    <3>3. Len(a) >= 2
      BY <2>2, <2>5
    <3> QED BY <1>3, <2>4, <2>7, <3>2, <3>3 DEF Ended
  <2> QED BY <2>2, <2>6, <2>7
<1> HIDE DEF s, a
<1>9. g.zeroCount = 0 /\ g.sound /\ Padded(g.rbsp, a)
  BY <1>1, <1>7, ZeroWordsRead
<1>10. ASSUME u.type \notin VclTypes PROVE g.rbsp = a
  <2>0. u.zeroWords = 0
    BY <1>10, UnitEnded
  <2>1. ZeroWords(0) = <<>>
    BY DEF ZeroWords
  <2>2. s \o <<>> = s
    BY <1>7
  <2> QED BY <1>7, <2>0, <2>1, <2>2
<1>11. WithoutZeroWords(g.rbsp) = a
  <2>1. Len(a) > 0
    <3>1. Len(a) \in Nat
      BY <1>7
    <3> QED BY <1>8, <3>1
  <2> HIDE DEF g
  <2> QED BY <1>7, <1>8, <1>9, <2>1, PaddingDropped
<1>12. g \in Reading
  <2>1. ZeroWords(u.zeroWords) \in Seq(Nat)
    BY <1>1, ZeroWordsClean
  <2>2. w \in Seq(Nat)
    BY <1>7, <2>1, Joined
  <2> QED BY <2>2, GotType
<1>13. Unescaped(w) = [g EXCEPT !.sound = g.sound /\ g.zeroCount = 0]
  BY Zenon DEF Unescaped, Got
<1> HIDE DEF g, w
<1>14. /\ Unescaped(w).rbsp = g.rbsp /\ Unescaped(w).sound = (g.sound /\ g.zeroCount = 0)
       /\ Unescaped(w).locations = g.locations
  BY <1>12, <1>13 DEF Reading
<1>15. g.rbsp[2] = b
  <2>1. 2 \in 1..Len(a)
    <3>1. Len(a) \in Nat
      BY <1>7
    <3> QED BY <1>8, <3>1
  <2> QED BY <1>8, <1>9, <2>1 DEF Padded
<1>16. /\ read(w).type = b \div 8 /\ read(w).sound = (g.sound /\ g.zeroCount = 0)
       /\ read(w).rbsp = IF b \div 8 \in VclTypes THEN WithoutZeroWords(g.rbsp) ELSE g.rbsp
       /\ read(w).locations = g.locations
  BY <1>14, <1>15, Zenon DEF read
<1>17. read(w).rbsp = a
  BY <1>4, <1>10, <1>11, <1>16
<1>18. read(w).sound
  BY <1>9, <1>16, Zenon
<1> QED BY <1>2, <1>4, <1>16, <1>17, <1>18, Zenon DEF a, h, p, g

-----------------------------------------------------------------------------
(* The searches of the byte stream reader. *)
LEMMA MinIs ==
    ASSUME NEW T \in SUBSET Nat, NEW k \in T, \A j \in T : k <= j
    PROVE  Min(T) = k
<1>1. Min(T) = CHOOSE x \in T : \A y \in T : x <= y
  BY DEF Min
<1>2. Min(T) \in T /\ \A y \in T : Min(T) <= y
  BY <1>1
<1>3. Min(T) <= k /\ k <= Min(T) /\ Min(T) \in Nat /\ k \in Nat
  BY <1>2
<1> QED BY <1>3

Codes(f, i) == {k \in i..Len(f) : CodeAt(f, k)}
Others(f, i) == {k \in i..Len(f) : NonZeroAt(f, k)}
Stops(f, i) == {k \in i..Len(f) : EndsUnit(f, k)}
Least(T) == IF T = {} THEN 0 ELSE Min(T)

LEMMA Searches ==
    ASSUME NEW f, NEW i
    PROVE  /\ FirstFrom(f, i, CodeAt) = Least(Codes(f, i))
           /\ FirstFrom(f, i, NonZeroAt) = Least(Others(f, i))
           /\ FirstFrom(f, i, EndsUnit) = Least(Stops(f, i))
BY DEF FirstFrom, Least, Codes, Others, Stops

\* A long code at i of a sequence.
Long(s, i) == i + 3 <= Len(s) /\ s[i] = 0 /\ s[i + 1] = 0 /\ s[i + 2] = 0 /\ s[i + 3] = 1

LEMMA LongIs == ASSUME NEW s, Len(s) \in Nat, NEW i \in Nat PROVE LongAt(s, i) <=> Long(s, i)
<1>1. i + 4 - 1 = i + 3 /\ i + 1 - 1 = i /\ i + 2 - 1 = i + 1 /\ i + 3 - 1 = i + 2
  OBVIOUS
<1>2. LongAt(s, i) <=> /\ i + 4 - 1 <= Len(s)
                       /\ s[i + 1 - 1] = 0 /\ s[i + 2 - 1] = 0 /\ s[i + 3 - 1] = 0
                       /\ s[i + 4 - 1] = 1
  BY DEF LongAt, StandsAt
<1> QED BY <1>1, <1>2 DEF Long

\* Two zeros and a small byte at i.
Small(s, i) == i + 2 <= Len(s) /\ s[i] = 0 /\ s[i + 1] = 0 /\ s[i + 2] \in 0..2

LEMMA SmallIs ==
    ASSUME NEW s, Len(s) \in Nat, NEW i \in Nat
    PROVE EndsUnit(s, i) <=> Small(s, i)
<1>1. i + 3 - 1 = i + 2 /\ i + 1 - 1 = i /\ i + 2 - 1 = i + 1
  OBVIOUS
<1>2. ASSUME NEW last
      PROVE  StandsAt(s, i, <<0, 0, last>>)
             <=> /\ i + 3 - 1 <= Len(s)
                 /\ s[i + 1 - 1] = 0 /\ s[i + 2 - 1] = 0 /\ s[i + 3 - 1] = last
  BY DEF StandsAt
<1> QED BY <1>1, <1>2 DEF EndsUnit, Small

LEMMA LeastIn == ASSUME NEW T \in SUBSET Nat, T # {} PROVE Least(T) \in T
<1>1. PICK x \in T : \A y \in T : x <= y
  BY LeastNat
<1>2. Min(T) = x
  BY <1>1, MinIs
<1> QED BY <1>1, <1>2 DEF Least

LEMMA LeastIs ==
    ASSUME NEW T \in SUBSET Nat, NEW k \in T, \A j \in T : k <= j
    PROVE  Least(T) = k
<1>1. Min(T) = k
  BY MinIs
<1> QED BY <1>1 DEF Least

\* f has w behind position p.
Holds(f, p, w) == p + Len(w) <= Len(f) /\ \A i \in 1..Len(w) : f[p + i] = w[i]

\* A unit ends where the next code begins or the file ends.
LEMMA WhereUnitEnds ==
    ASSUME NEW f \in Seq(Nat), NEW p \in Nat, NEW w \in Seq(Nat), NEW q \in Nat,
           Len(w) > 0, Clean(w), Ended(w), Holds(f, p, w), q = p + Len(w) + 1,
           q <= Len(f) => Small(f, q)
    PROVE  Least(Stops(f, p + 1)) = IF q <= Len(f) THEN q ELSE 0
<1> DEFINE l == Len(w)
           n == Len(f)
<1>1. l \in Nat /\ n \in Nat /\ l > 0
  OBVIOUS
<1>2. p + l <= n /\ \A i \in 1..l : f[p + i] = w[i]
  BY DEF Holds
<1>3. \A i \in 1..(l - 2) : ~(w[i] = 0 /\ w[i + 1] = 0 /\ w[i + 2] <= 2)
  BY DEF Clean
<1>4. w[l] # 0
  BY DEF Ended
<1>5. Stops(f, p + 1) = {k \in (p + 1)..n : EndsUnit(f, k)}
  BY DEF Stops
<1>6. q = p + l + 1
  OBVIOUS
<1> HIDE DEF l, n
<1>7. f[p + l] # 0
  <2>1. l \in 1..l
    BY <1>1
  <2> QED BY <1>2, <1>4, <2>1
<1>8. ASSUME NEW k \in Stops(f, p + 1), k < q PROVE FALSE
  <2>1. k \in (p + 1)..n /\ EndsUnit(f, k) /\ k \in Nat
    BY <1>5
  <2>2. Small(f, k) /\ k + 2 <= n
    BY <1>1, <2>1, SmallIs DEF Small, n
  <2>3. f[k] = 0 /\ f[k + 1] = 0 /\ f[k + 2] <= 2
    <3>1. f[k] = 0 /\ f[k + 1] = 0 /\ f[k + 2] \in 0..2
      BY <2>2, Zenon DEF Small
    <3>2. \A x \in 0..2 : x <= 2
      OBVIOUS
    <3> QED BY <3>1, <3>2, Zenon
  <2>4. k # p + l
    BY <1>7, <2>3
  <2>5. k + 1 # p + l
    BY <1>7, <2>3
  <2>6. k + 2 <= p + l
    BY <1>1, <1>6, <1>8, <2>1, <2>4, <2>5
  <2> DEFINE j == k - p
  <2>7. /\ j \in 1..(l - 2) /\ j \in 1..l /\ j + 1 \in 1..l /\ j + 2 \in 1..l
        /\ p + j = k /\ p + (j + 1) = k + 1 /\ p + (j + 2) = k + 2
    BY <1>1, <2>1, <2>6
  <2> HIDE DEF j
  <2>8. f[p + j] = w[j] /\ f[p + (j + 1)] = w[j + 1] /\ f[p + (j + 2)] = w[j + 2]
    BY <1>2, <2>7
  <2>9. w[j] = 0 /\ w[j + 1] = 0 /\ w[j + 2] <= 2
    BY <2>3, <2>7, <2>8
  <2> QED BY <1>3, <2>7, <2>9
<1>9. Stops(f, p + 1) \in SUBSET Nat
  BY <1>1, <1>5
<1>10. CASE q <= n
  <2>1. q \in Stops(f, p + 1)
    <3>1. q \in (p + 1)..n
      BY <1>1, <1>6, <1>10
    <3>2. EndsUnit(f, q)
      BY <1>1, <1>10, SmallIs DEF n
    <3> QED BY <1>5, <3>1, <3>2
  <2>2. \A j \in Stops(f, p + 1) : q <= j
    BY <1>8, <1>9
  <2>3. Least(Stops(f, p + 1)) = q
    BY <1>9, <2>1, <2>2, LeastIs
  <2> QED BY <1>10, <2>3 DEF n
<1>11. CASE ~(q <= n)
  <2>1. ASSUME NEW k \in Stops(f, p + 1) PROVE FALSE
    <3>1. k \in (p + 1)..n
      BY <1>5
    <3>2. k < q
      BY <1>1, <1>6, <1>11, <3>1
    <3> QED BY <1>8, <3>2
  <2>2. Stops(f, p + 1) = {}
    BY <2>1
  <2> QED BY <1>11, <2>2 DEF n, Least
<1> QED BY <1>10, <1>11

\* A code where the search for it begins.
LEMMA WhereCodeBegins ==
    ASSUME NEW f \in Seq(Nat), NEW q \in Nat, Code(f, q) \/ Long(f, q)
    PROVE  q <= Len(f) /\ Small(f, q) /\ Least(Codes(f, q)) = q
<1>1. Len(f) \in Nat
  OBVIOUS
<1>2. q <= Len(f)
  BY <1>1 DEF Code, Long
<1>3. Small(f, q)
  BY <1>1 DEF Small, Code, Long
<1>4. CodeAt(f, q)
  BY <1>1, CodeIs, LongIs DEF CodeAt
<1>5. q \in Codes(f, q) /\ Codes(f, q) \in SUBSET Nat /\ \A j \in Codes(f, q) : q <= j
  BY <1>1, <1>2, <1>4 DEF Codes
<1> QED BY <1>2, <1>3, <1>5, LeastIs

\* The first byte that is not zero is behind one that is.
LEMMA OtherLater ==
    ASSUME NEW f \in Seq(Nat), NEW i \in Nat, i > 0, f[i] = 0,
           NEW k \in Nat, i <= k, k <= Len(f), f[k] # 0
    PROVE  Least(Others(f, i)) \in Nat /\ Least(Others(f, i)) > i
<1>1. Others(f, i) = {j \in i..Len(f) : f[j] # 0}
  BY DEF Others, NonZeroAt
<1>2. k \in Others(f, i) /\ Others(f, i) \in SUBSET Nat
  BY <1>1
<1>3. Least(Others(f, i)) \in Others(f, i)
  BY <1>2, LeastIn
<1>4. Least(Others(f, i)) \in i..Len(f) /\ f[Least(Others(f, i))] # 0
  BY <1>1, <1>3
<1>5. Least(Others(f, i)) # i
  BY <1>4
<1> QED BY <1>4, <1>5

LEMMA CutOut ==
    ASSUME NEW f \in Seq(Nat), NEW a \in Nat, NEW b \in Nat, a > 0, a <= b + 1, b <= Len(f)
    PROVE  /\ SubSeq(f, a, b) \in Seq(Nat) /\ Len(SubSeq(f, a, b)) = b - a + 1
           /\ \A i \in 1..(b - a + 1) : SubSeq(f, a, b)[i] = f[a + i - 1]
OBVIOUS

\* The reader in front of a code, or in front of a zero before it.
InFront(f, p, from) == from = p \/ (from = p - 1 /\ from > 0 /\ f[from] = 0)

\* A reader r at from, in front of the code at p of unit w; q is behind the unit.
Facing(f, p, w, q, r, from) ==
    /\ f \in Seq(Nat) /\ p \in Nat /\ p > 0 /\ Code(f, p)
    /\ w \in Seq(Nat) /\ Len(w) > 0 /\ Clean(w) /\ Ended(w) /\ Holds(f, p + 2, w)
    /\ q \in Nat /\ q = p + Len(w) + 3
    /\ q <= Len(f) => Code(f, q) \/ Long(f, q)
    /\ q > Len(f) => q = Len(f) + 1
    /\ from \in Nat /\ from = r.pos - r.future + 1 /\ InFront(f, p, from)

\* The reader in front of a unit reads it, and stands in front of the next code.
LEMMA UnitIsRead ==
    ASSUME NEW f, NEW p, NEW w, NEW q, NEW r, NEW from, Facing(f, p, w, q, r, from)
    PROVE  byteStreamNALUnit(f, r) =
             [unit   |-> w,
              eof    |-> q > Len(f),
              reader |-> IF q > Len(f) THEN EndOfFile(f) ELSE Before(f, q)]
<1> DEFINE code == FirstFrom(f, from, CodeAt)
           other == FirstFrom(f, from, NonZeroAt)
           body == IF LongAt(f, code) THEN code + 4 ELSE code + 3
           end == FirstFrom(f, body, EndsUnit)
           next == FirstFrom(f, end, CodeAt)
           n == Len(f)
           l == Len(w)
           unit == SubSeq(f, body, IF end = 0 THEN Len(f) ELSE end - 1)
<1>0. /\ f \in Seq(Nat) /\ p \in Nat /\ p > 0 /\ Code(f, p)
      /\ w \in Seq(Nat) /\ Len(w) > 0 /\ Clean(w) /\ Ended(w) /\ Holds(f, p + 2, w)
      /\ q \in Nat /\ q = p + Len(w) + 3
      /\ q <= Len(f) => Code(f, q) \/ Long(f, q)
      /\ q > Len(f) => q = Len(f) + 1
      /\ from \in Nat /\ from = r.pos - r.future + 1 /\ InFront(f, p, from)
  BY Zenon DEF Facing
<1> USE <1>0
<1>1. n \in Nat /\ l \in Nat /\ l > 0 /\ q = p + l + 3
  OBVIOUS
<1>2. p + 2 + l <= n
  BY DEF Holds
<1>3. from \in Nat /\ from > 0 /\ (from = p \/ from = p - 1)
  BY DEF InFront
<1> HIDE DEF l
<1>4. /\ p + 2 <= n /\ f[p] = 0 /\ f[p + 1] = 0 /\ f[p + 2] = 1
      /\ from = p - 1 => f[from] = 0
  BY DEF Code, InFront
<1>5. Code(f, from) \/ Long(f, from)
  <2>1. CASE from = p
    BY <2>1
  <2>2. CASE from = p - 1
    <3>1. from + 1 = p /\ from + 2 = p + 1 /\ from + 3 = p + 2
      BY ONLY <1>3, <2>2, p \in Nat
    <3> QED BY <1>4, <2>2, <3>1 DEF Long
  <2> QED BY <1>3, <2>1, <2>2
<1>6. code = from
  BY <1>3, <1>5, WhereCodeBegins, Searches
<1>7. other \in Nat /\ other > from
  <2>1. p + 2 \in Nat /\ from <= p + 2 /\ f[p + 2] # 0 /\ f[from] = 0 /\ p + 2 <= Len(f)
    BY <1>3, <1>4
  <2>2. other = Least(Others(f, from))
    BY Searches
  <2> HIDE DEF other
  <2> QED BY <1>3, <2>1, <2>2, OtherLater
<1>8. body = p + 3
  <2>1. CASE from = p
    <3>1. ~Long(f, p)
      BY <1>4 DEF Long
    <3>2. ~LongAt(f, p)
      BY <1>1, <3>1, LongIs
    <3> QED BY <1>6, <2>1, <3>2
  <2>2. CASE from = p - 1
    <3>1. from + 1 = p /\ from + 2 = p + 1 /\ from + 3 = p + 2
      BY ONLY <1>3, <2>2, p \in Nat
    <3>2. Long(f, from)
      BY <1>4, <2>2, <3>1 DEF Long
    <3>3. LongAt(f, from)
      BY <1>1, <1>3, <3>2, LongIs
    <3>4. body = from + 4
      BY <1>6, <3>3
    <3> QED BY <1>3, <2>2, <3>4
  <2> QED BY <1>3, <2>1, <2>2
<1> HIDE DEF code, other, body
<1>9. end = IF q <= n THEN q ELSE 0
  <2>1. q <= n => Small(f, q)
    BY WhereCodeBegins
  <2>2. p + 2 \in Nat /\ q = (p + 2) + Len(w) + 1 /\ (p + 2) + 1 = p + 3
    BY <1>1
  <2>3. Least(Stops(f, (p + 2) + 1)) = IF q <= Len(f) THEN q ELSE 0
    BY <2>1, <2>2, WhereUnitEnds
  <2> QED BY <1>8, <2>2, <2>3, Searches
<1>10. q <= n => next = q
  <2>1. ASSUME q <= n PROVE next = q
    <3>1. end = q
      BY <1>9, <2>1
    <3>2. Least(Codes(f, q)) = q
      BY <2>1, WhereCodeBegins
    <3> QED BY <3>1, <3>2, Searches
  <2> QED BY <2>1
<1> HIDE DEF end, next
<1>11. unit = w
  <2>1. (IF end = 0 THEN Len(f) ELSE end - 1) = p + 2 + l
    <3>1. CASE q <= n
      BY <1>1, <1>9, <3>1
    <3>2. CASE q > n
      <4>1. end = 0 /\ n + 1 = q
        BY <1>1, <1>9, <3>2
      <4> QED BY <1>1, <4>1
    <3> QED BY <1>1, <3>1, <3>2
  <2>2. unit = SubSeq(f, p + 3, p + 2 + l)
    BY <1>8, <2>1
  <2> DEFINE c == SubSeq(f, p + 3, p + 2 + l)
  <2>3. c \in Seq(Nat) /\ Len(c) = l /\ \A i \in 1..l : c[i] = f[p + 2 + i]
    <3>1. p + 3 \in Nat /\ p + 2 + l \in Nat /\ p + 3 > 0 /\ p + 3 <= (p + 2 + l) + 1
          /\ p + 2 + l <= Len(f)
      BY <1>1, <1>2
    <3>3. /\ c \in Seq(Nat)
          /\ Len(c) = (p + 2 + l) - (p + 3) + 1
          /\ \A i \in 1..((p + 2 + l) - (p + 3) + 1) : c[i] = f[p + 3 + i - 1]
      <4> DEFINE x == p + 3
                 y == p + 2 + l
      <4>1. x \in Nat /\ y \in Nat /\ x > 0 /\ x <= y + 1 /\ y <= Len(f) /\ c = SubSeq(f, x, y)
        BY <3>1
      <4> HIDE DEF x, y, c
      <4>2. f \in Seq(Nat)
        OBVIOUS
      <4>3. /\ c \in Seq(Nat) /\ Len(c) = y - x + 1
            /\ \A i \in 1..(y - x + 1) : c[i] = f[x + i - 1]
        BY ONLY <4>1, <4>2, CutOut
      <4> QED BY <4>3 DEF x, y
    <3>4. /\ p + 3 <= p + 2 + l /\ (p + 2 + l) - (p + 3) + 1 = l
          /\ \A i \in 1..l : p + 3 + i - 1 = p + 2 + i
      BY <1>1
    <3> HIDE DEF c
    <3>5. \A i \in 1..l : c[i] = f[p + 3 + i - 1]
      BY <3>3, <3>4, Zenon
    <3>6. \A i \in 1..l : c[i] = f[p + 2 + i]
      BY <3>4, <3>5
    <3> QED BY <3>3, <3>4, <3>6
  <2> HIDE DEF c
  <2>4. \A i \in 1..l : c[i] = w[i]
    BY <2>3 DEF Holds, l
  <2>5. c = w
    BY <2>3, <2>4, SeqEqual DEF l
  <2> QED BY <2>2, <2>5 DEF c
<1>12. ~(other # 0 /\ (code = 0 \/ other < code)) /\ ~(other = 0)
  BY <1>3, <1>6, <1>7
<1>13. (end = 0 \/ next = 0) = (q > n)
  BY <1>1, <1>9, <1>10
<1> HIDE DEF unit
<1>14. byteStreamNALUnit(f, r) =
         [unit |-> unit, eof |-> end = 0 \/ next = 0,
          reader |-> IF end = 0 \/ next = 0 THEN EndOfFile(f) ELSE Before(f, next)]
  BY <1>12, Zenon DEF byteStreamNALUnit, code, other, body, end, next, unit
<1>15. q > n \/ next = q
  BY <1>1, <1>10
<1> HIDE DEF n
<1>16. byteStreamNALUnit(f, r) =
         [unit |-> w, eof |-> q > n,
          reader |-> IF q > n THEN EndOfFile(f) ELSE Before(f, next)]
  BY <1>11, <1>13, <1>14
<1>17. CASE q > n
  BY <1>16, <1>17 DEF n
<1>18. CASE next = q
  BY <1>16, <1>18 DEF n
<1> QED BY <1>15, <1>17, <1>18
-----------------------------------------------------------------------------
(* Where the units of the file are. *)

\* The first byte of the code of unit k, and the last byte of unit k.
Begin(f, s, k) == IF s[k] > 1 /\ f[s[k] - 1] = 0 THEN s[k] - 1 ELSE s[k]
End(f, s, k) == IF k < Len(s) THEN Begin(f, s, k + 1) - 1 ELSE Len(f)

\* Unit k is w.
UnitStands(f, s, k, w) ==
    Code(f, s[k]) /\ Holds(f, s[k] + 2, w) /\ End(f, s, k) = s[k] + 2 + Len(w)

\* A file t is a with a unit behind it: n and m are the lengths of a and of the
\* start code.
Laid(t, a, n, m, b) ==
    /\ Len(t) = n + m + Len(b)
    /\ \A i \in 1..n : t[i] = a[i]
    /\ t[n + m] = 1 /\ t[n + m - 1] = 0 /\ t[n + m - 2] = 0 /\ (m = 4 => t[n + 1] = 0)
    /\ \A i \in 1..Len(b) : t[n + m + i] = b[i]

LEMMA HowLaid ==
    ASSUME NEW a \in Seq(Nat), NEW long \in BOOLEAN, NEW b \in Seq(Nat)
    PROVE  LET t == (a \o StartCode(long)) \o b IN
           t \in Seq(Nat) /\ Laid(t, a, Len(a), IF long THEN 4 ELSE 3, b)
<1> DEFINE c == StartCode(long)
           ac == a \o c
           t == ac \o b
           n == Len(a)
           m == Len(c)
           l == Len(b)
<1>1. /\ c \in Seq(Nat) /\ m \in 3..4 /\ c[m] = 1 /\ c[m - 1] = 0 /\ c[m - 2] = 0
      /\ m = (IF long THEN 4 ELSE 3) /\ (m = 4 => c[1] = 0)
  BY DEF StartCode
<1> HIDE DEF c
<1>2. /\ ac \in Seq(Nat) /\ Len(ac) = n + m
      /\ \A i \in 1..n : ac[i] = a[i]
      /\ \A i \in (n + 1)..(n + m) : ac[i] = c[i - n]
  BY <1>1, Joined
<1> HIDE DEF ac
<1>3. /\ t \in Seq(Nat) /\ Len(t) = Len(ac) + l
      /\ \A i \in 1..Len(ac) : t[i] = ac[i]
      /\ \A i \in (Len(ac) + 1)..(Len(ac) + l) : t[i] = b[i - Len(ac)]
  BY <1>2, Joined
<1>4. n \in Nat /\ l \in Nat /\ m \in Nat
  BY <1>1
<1> HIDE DEF t, n, l, m
<1>5. ASSUME NEW i \in 1..n PROVE t[i] = a[i]
  <2>1. i \in 1..Len(ac)
    BY <1>2, <1>4
  <2> QED BY <1>2, <1>3, <2>1
<1>6. ASSUME NEW i \in 1..m PROVE t[n + i] = c[i]
  <2>1. n + i \in 1..Len(ac) /\ n + i \in (n + 1)..(n + m) /\ (n + i) - n = i
    BY <1>2, <1>4
  <2> QED BY <1>2, <1>3, <2>1
<1>7. ASSUME NEW i \in 1..l PROVE t[n + m + i] = b[i]
  <2>1. /\ n + m + i \in (Len(ac) + 1)..(Len(ac) + l)
        /\ (n + m + i) - Len(ac) = i
    BY <1>2, <1>4
  <2> QED BY <1>3, <2>1
<1>8. t[n + m] = 1 /\ t[n + m - 1] = 0 /\ t[n + m - 2] = 0 /\ (m = 4 => t[n + 1] = 0)
  <2>1. /\ m \in 1..m /\ m - 1 \in 1..m /\ m - 2 \in 1..m /\ 1 \in 1..m
        /\ n + (m - 1) = n + m - 1 /\ n + (m - 2) = n + m - 2
    BY <1>1, <1>4
  <2>2. t[n + m] = c[m] /\ t[n + (m - 1)] = c[m - 1] /\ t[n + (m - 2)] = c[m - 2]
        /\ t[n + 1] = c[1]
    BY <1>6, <2>1
  <2> QED BY <1>1, <2>1, <2>2
<1>9. Len(t) = n + m + l
  BY <1>2, <1>3
<1>10. t \in Seq(Nat) /\ Laid(t, a, n, m, b)
  BY <1>3, <1>5, <1>7, <1>8, <1>9 DEF Laid, l
<1> QED BY <1>1, <1>10 DEF t, ac, c, n

\* A file a with codes at s becomes t with codes at r.
Extended(a, s, t, r, m, b) ==
    /\ a \in Seq(Nat) /\ Ended(a)
    /\ s \in Seq(Nat) /\ \A k \in 1..Len(s) : s[k] \in 1..Len(a)
    /\ m \in 3..4 /\ b \in Seq(Nat) /\ t \in Seq(Nat) /\ Laid(t, a, Len(a), m, b)
    /\ r \in Seq(Nat) /\ r = Append(s, Len(a) + m - 2)

\* The units before stand as they did, and the new one behind them.
LEMMA StandsMore ==
    ASSUME NEW a, NEW s, NEW t, NEW r, NEW m, NEW b, Extended(a, s, t, r, m, b)
    PROVE  /\ \A k \in 1..Len(s) : Begin(t, r, k) = Begin(a, s, k)
           /\ Begin(t, r, Len(s) + 1) = Len(a) + 1
           /\ UnitStands(t, r, Len(s) + 1, b)
           /\ \A k \in 1..Len(s) : \A w \in Seq(Nat) :
                 UnitStands(a, s, k, w) => UnitStands(t, r, k, w)
<1> DEFINE n == Len(a)
           j == Len(s)
           l == Len(b)
           new == n + m - 2
<1>0. /\ a \in Seq(Nat) /\ Ended(a) /\ s \in Seq(Nat) /\ m \in 3..4 /\ b \in Seq(Nat)
      /\ t \in Seq(Nat) /\ r \in Seq(Nat) /\ r = Append(s, Len(a) + m - 2)
      /\ Laid(t, a, Len(a), m, b) /\ \A k \in 1..Len(s) : s[k] \in 1..Len(a)
  BY DEF Extended
<1>1. n \in Nat /\ j \in Nat /\ l \in Nat
  BY <1>0
<1>2. /\ Len(t) = n + m + l
      /\ \A i \in 1..n : t[i] = a[i]
      /\ t[n + m] = 1 /\ t[n + m - 1] = 0 /\ t[n + m - 2] = 0 /\ (m = 4 => t[n + 1] = 0)
      /\ \A i \in 1..l : t[n + m + i] = b[i]
  BY <1>0 DEF Laid
<1>3. Len(r) = j + 1 /\ r[j + 1] = new /\ \A k \in 1..j : r[k] = s[k]
  <2>1. new \in Nat
    BY <1>0, <1>1
  <2> HIDE DEF new
  <2>2. r = Append(s, new)
    BY <1>0 DEF new
  <2> QED BY <1>0, <2>1, <2>2, Appended
<1>4. n > 0 => a[n] # 0
  BY <1>0 DEF Ended
<1>5. m \in 3..4 /\ \A k \in 1..j : s[k] \in 1..n
  BY <1>0
<1> HIDE DEF n, j, l
<1>6. ASSUME NEW k \in 1..j PROVE Begin(t, r, k) = Begin(a, s, k)
  <2>1. s[k] \in 1..n
    BY <1>5
  <2>2. s[k] > 1 => t[s[k] - 1] = a[s[k] - 1]
    <3>1. s[k] > 1 => s[k] - 1 \in 1..n
      BY <1>1, <2>1
    <3> QED BY <1>2, <3>1
  <2> QED BY <1>3, <2>2 DEF Begin
<1>7. Begin(t, r, j + 1) = n + 1
  <2>1. CASE m = 4
    <3>1. r[j + 1] = n + 2 /\ n + 2 > 1 /\ (n + 2) - 1 = n + 1
      BY <1>1, <1>3, <2>1
    <3>2. t[n + 1] = 0
      BY <1>2, <2>1
    <3> QED BY <3>1, <3>2 DEF Begin
  <2>2. CASE m = 3
    <3>1. r[j + 1] = n + 1 /\ (n + 1) - 1 = n /\ (n + 1 > 1 => n > 0)
      BY <1>1, <1>3, <2>2
    <3>2. n > 0 => t[n] # 0
      <4>1. n > 0 => n \in 1..n
        BY <1>1
      <4> QED BY <1>2, <1>4, <4>1
    <3> QED BY <3>1, <3>2 DEF Begin
  <2> QED BY <1>5, <2>1, <2>2
<1>8. UnitStands(t, r, j + 1, b)
  <2>1. r[j + 1] = n + m - 2
    BY <1>3
  <2>2. /\ (n + m - 2) + 2 = n + m /\ (n + m - 2) + 1 = n + m - 1 /\ n + m <= Len(t)
        /\ (n + m) + l <= Len(t)
    BY <1>1, <1>2, <1>5
  <2>3. Code(t, r[j + 1])
    BY <1>2, <2>1, <2>2 DEF Code
  <2>4. Holds(t, r[j + 1] + 2, b)
    BY <1>2, <2>1, <2>2 DEF Holds, l
  <2>5. End(t, r, j + 1) = Len(t)
    <3>1. ~(j + 1 < Len(r))
      BY <1>1, <1>3
    <3> QED BY <3>1 DEF End
  <2>6. Len(t) = r[j + 1] + 2 + l
    <3>1. Len(t) = n + m + l /\ r[j + 1] + 2 = n + m
      BY <1>2, <2>1, <2>2
    <3> QED BY <3>1
  <2> QED BY <2>3, <2>4, <2>5, <2>6 DEF UnitStands, l
<1>9. ASSUME NEW k \in 1..j, NEW w \in Seq(Nat), UnitStands(a, s, k, w)
      PROVE  UnitStands(t, r, k, w)
  <2> DEFINE p == s[k]
             e == Len(w)
  <2>1. r[k] = p /\ p \in Nat /\ p > 0 /\ e \in Nat
    <3>1. p \in 1..n /\ r[k] = p
      BY <1>3, <1>5
    <3>2. e \in Nat
      OBVIOUS
    <3> HIDE DEF p, e
    <3>3. p \in Nat /\ p > 0
      BY ONLY <1>1, <3>1
    <3> QED BY <3>1, <3>2, <3>3, Zenon
  <2>2. /\ p + 2 <= n /\ a[p] = 0 /\ a[p + 1] = 0 /\ a[p + 2] = 1
        /\ p + 2 + e <= n /\ \A i \in 1..e : a[p + 2 + i] = w[i]
        /\ End(a, s, k) = p + 2 + e
    BY <1>9 DEF UnitStands, Code, Holds, n
  <2> HIDE DEF p, e
  <2>3. Code(t, p)
    <3>1. p \in 1..n /\ p + 1 \in 1..n /\ p + 2 \in 1..n /\ p + 2 <= Len(t)
      BY <1>1, <1>2, <1>5, <2>1, <2>2
    <3>2. t[p] = a[p] /\ t[p + 1] = a[p + 1] /\ t[p + 2] = a[p + 2]
      BY <1>2, <3>1
    <3> QED BY <2>2, <3>1, <3>2 DEF Code
  <2>4. Holds(t, p + 2, w)
    <3>1. p + 2 + e <= Len(t)
      BY <1>1, <1>2, <1>5, <2>1, <2>2
    <3>2. ASSUME NEW i \in 1..e PROVE t[p + 2 + i] = w[i]
      <4>1. p + 2 + i \in 1..n
        BY <1>1, <2>1, <2>2
      <4>2. t[p + 2 + i] = a[p + 2 + i]
        BY <1>2, <4>1
      <4> QED BY <2>2, <4>2
    <3> QED BY <3>1, <3>2 DEF Holds, e
  <2>5. End(t, r, k) = End(a, s, k)
    <3>1. CASE k < j
      <4>1. k + 1 \in 1..j /\ k < Len(r) /\ k < Len(s)
        BY <1>1, <1>3, <3>1 DEF j
      <4>2. Begin(t, r, k + 1) = Begin(a, s, k + 1)
        BY <1>6, <4>1
      <4> QED BY <4>1, <4>2 DEF End
    <3>2. CASE k = j
      <4>1. k < Len(r) /\ ~(k < Len(s)) /\ (n + 1) - 1 = n
        BY <1>1, <1>3, <3>2 DEF j
      <4>2. Begin(t, r, k + 1) = n + 1
        BY <1>7, <3>2
      <4> QED BY <4>1, <4>2 DEF End, n
    <3> QED BY <1>1, <3>1, <3>2
  <2>6. r[k] = s[k]
    BY <1>3
  <2> QED BY <2>1, <2>2, <2>3, <2>4, <2>5 DEF UnitStands, p, e
<1> QED BY <1>6, <1>7, <1>8, <1>9 DEF n, j

\* Unit k of the file, what was sent and its entry points belong together.
UnitIs(f, s, c, o, k) ==
    \E u \in Units : /\ c[k] = Content(u) /\ o[k] = EntryPoints(u)
                     /\ UnitStands(f, s, k, Written(u))

Contents == {Content(u) : u \in Units}
AllOffsets == {EntryPoints(u) : u \in Units}

StreamInv ==
    /\ FileInv
    /\ sent \in Seq(Contents) /\ Len(sent) = Len(starts)
    /\ offsets \in Seq(AllOffsets) /\ Len(offsets) = Len(starts)
    /\ IF Len(starts) = 0 THEN Len(file) = 0 ELSE Begin(file, starts, 1) = 1
    /\ \A k \in 1..Len(starts) : UnitIs(file, starts, sent, offsets, k)

LEMMA StreamStart == Init => StreamInv
<1> SUFFICES ASSUME Init PROVE StreamInv
  OBVIOUS
<1>1. FileInv
  BY FileStart
<1>2. sent = <<>> /\ offsets = <<>> /\ starts = <<>> /\ file = <<>> /\ Len(<<>>) = 0
  BY DEF Init
<1> QED BY <1>1, <1>2 DEF StreamInv

LEMMA AppendedAny ==
    ASSUME NEW S, NEW s \in Seq(S), NEW v \in S
    PROVE  /\ Append(s, v) \in Seq(S) /\ Len(Append(s, v)) = Len(s) + 1
           /\ Append(s, v)[Len(s) + 1] = v
           /\ \A i \in 1..Len(s) : Append(s, v)[i] = s[i]
OBVIOUS

LEMMA StreamGrows ==
    ASSUME StreamInv, NEW u \in Units, Write(u)
    PROVE  StreamInv'
<1> DEFINE long == StartsPicture(u) \/ u.type \in ParameterSetTypes
           w == Written(u)
           n == Len(file)
           new == n + (IF long THEN 2 ELSE 1)
           m == IF long THEN 4 ELSE 3
           j == Len(starts)
<1>1. FileInv'
  BY FileStep DEF StreamInv, Next, Encoder
<1>2. /\ file' = (file \o StartCode(long)) \o w /\ starts' = Append(starts, new)
      /\ sent' = Append(sent, Content(u)) /\ offsets' = Append(offsets, EntryPoints(u))
  BY DEF Write
<1>3. long \in BOOLEAN
  BY DEF StartsPicture
<1>4. \A v \in Units : Written(v) \in Seq(Nat)
  BY WrittenClean
<1>5. w \in Seq(Nat)
  BY <1>4
<1>6. /\ file \in Seq(Nat) /\ Ended(file) /\ starts \in Seq(Nat)
      /\ \A k \in 1..j : starts[k] \in 1..n
  BY DEF StreamInv, FileInv
<1>7. starts' \in Seq(Nat)
  BY <1>1 DEF FileInv
<1> HIDE DEF long, w
<1>8. file' \in Seq(Nat) /\ Laid(file', file, n, m, w)
  BY <1>2, <1>3, <1>5, <1>6, HowLaid, Zenon
<1>9. m \in 3..4 /\ new = n + m - 2
  <2>1. n \in Nat
    BY <1>6
  <2> HIDE DEF n
  <2> QED BY <1>3, <2>1
<1>10. starts' = Append(starts, n + m - 2)
  BY <1>2, <1>9
<1> HIDE DEF n, m, new, j
<1>11. /\ \A k \in 1..j : Begin(file', starts', k) = Begin(file, starts, k)
       /\ Begin(file', starts', j + 1) = n + 1
       /\ UnitStands(file', starts', j + 1, w)
       /\ \A k \in 1..j : \A v \in Seq(Nat) :
             UnitStands(file, starts, k, v) => UnitStands(file', starts', k, v)
  <2>1. \A k \in 1..Len(starts) : starts[k] \in 1..Len(file)
    BY <1>6 DEF n, j
  <2>2. Laid(file', file, Len(file), m, w) /\ starts' = Append(starts, Len(file) + m - 2)
    BY <1>8, <1>10 DEF n
  <2>3. file \in Seq(Nat) /\ Ended(file) /\ starts \in Seq(Nat)
    BY <1>6
  <2>4. file' \in Seq(Nat) /\ m \in 3..4
    BY <1>8, <1>9
  <2>5. Extended(file, starts, file', starts', m, w)
    BY <1>5, <1>7, <2>1, <2>2, <2>3, <2>4, Zenon DEF Extended
  <2> QED BY <2>5, StandsMore, Zenon DEF n, j
<1>12. /\ sent' \in Seq(Contents) /\ Len(sent') = j + 1 /\ sent'[j + 1] = Content(u)
       /\ \A k \in 1..j : sent'[k] = sent[k]
  <2>1. sent \in Seq(Contents) /\ Len(sent) = j /\ Content(u) \in Contents
    BY DEF StreamInv, Contents, j
  <2> QED BY <1>2, <2>1, AppendedAny
<1>13. /\ offsets' \in Seq(AllOffsets) /\ Len(offsets') = j + 1
       /\ offsets'[j + 1] = EntryPoints(u)
       /\ \A k \in 1..j : offsets'[k] = offsets[k]
  <2>1. offsets \in Seq(AllOffsets) /\ Len(offsets) = j /\ EntryPoints(u) \in AllOffsets
    BY DEF StreamInv, AllOffsets, j
  <2> QED BY <1>2, <2>1, AppendedAny
<1>14. Len(starts') = j + 1 /\ j \in Nat
  <2>1. new \in Nat
    BY <1>2, <1>6, <1>9, <1>3 DEF n, new
  <2> QED BY <1>2, <1>6, <2>1, Appended DEF j
<1>15. Begin(file', starts', 1) = 1
  <2>1. CASE j = 0
    <3>1. n = 0
      BY <2>1 DEF StreamInv, n, j
    <3> QED BY <1>11, <2>1, <3>1
  <2>2. CASE j # 0
    <3>1. 1 \in 1..j /\ j > 0
      BY <1>14, <2>2
    <3> QED BY <1>11, <2>2, <3>1 DEF StreamInv, j
  <2> QED BY <2>1, <2>2
<1>16. ASSUME NEW k \in 1..(j + 1) PROVE UnitIs(file', starts', sent', offsets', k)
  <2>1. CASE k = j + 1
    BY <1>11, <1>12, <1>13, <2>1 DEF UnitIs, w
  <2>2. CASE k # j + 1
    <3>1. k \in 1..j
      BY <1>14, <2>2
    <3>2. PICK v \in Units : /\ sent[k] = Content(v) /\ offsets[k] = EntryPoints(v)
                             /\ UnitStands(file, starts, k, Written(v))
      BY <3>1 DEF StreamInv, UnitIs, j
    <3>3. UnitStands(file', starts', k, Written(v))
      BY <1>4, <1>11, <3>1, <3>2
    <3> QED BY <1>12, <1>13, <3>1, <3>2, <3>3 DEF UnitIs
  <2> QED BY <2>1, <2>2
<1>17. Len(starts') # 0
  BY <1>14
<1> QED BY <1>1, <1>12, <1>13, <1>14, <1>15, <1>16, <1>17 DEF StreamInv

\* Behind a unit the next code begins, or the file ends.
LEMMA NextBegins ==
    ASSUME StreamInv, NEW k \in 1..Len(starts), NEW w \in Seq(Nat),
           UnitStands(file, starts, k, w)
    PROVE  LET q == starts[k] + Len(w) + 3 IN
           /\ starts[k] \in Nat /\ starts[k] > 0 /\ q \in Nat
           /\ Code(file, starts[k]) /\ Holds(file, starts[k] + 2, w)
           /\ k = Len(starts) => q = Len(file) + 1
           /\ k < Len(starts) => /\ q = Begin(file, starts, k + 1) /\ q <= Len(file)
                                 /\ Code(file, q) \/ Long(file, q)
<1> DEFINE p == starts[k]
           l == Len(w)
           q == p + l + 3
           n == Len(file)
           e == End(file, starts, k)
           x == starts[k + 1]
<1>1. /\ file \in Seq(Nat) /\ starts \in Seq(Nat)
      /\ \A j \in 1..Len(starts) : starts[j] \in 1..n
  BY DEF StreamInv, FileInv
<1>2. p \in Nat /\ p > 0 /\ l \in Nat /\ n \in Nat
  <2>1. p \in 1..n /\ n \in Nat
    BY <1>1
  <2>2. l \in Nat
    OBVIOUS
  <2> HIDE DEF p, n, l
  <2> QED BY <2>1, <2>2
<1>3. Code(file, p) /\ Holds(file, p + 2, w) /\ e = p + 2 + l
  BY DEF UnitStands
<1> HIDE DEF l, n
<1>4. ASSUME k = Len(starts) PROVE q = n + 1
  <2>1. e = n
    BY <1>4 DEF End, n
  <2> HIDE DEF e, p
  <2> QED BY <1>2, <1>3, <2>1
<1>5. ASSUME k < Len(starts)
      PROVE  q = Begin(file, starts, k + 1) /\ q <= n /\ (Code(file, q) \/ Long(file, q))
  <2>1. k + 1 \in 1..Len(starts) /\ x \in 1..n /\ Code(file, x)
    <3>1. k + 1 \in 1..Len(starts)
      BY <1>1, <1>5
    <3>2. PICK u \in Units : UnitStands(file, starts, k + 1, Written(u))
      BY <3>1 DEF StreamInv, UnitIs
    <3> QED BY <1>1, <3>1, <3>2 DEF UnitStands
  <2>2. e = Begin(file, starts, k + 1) - 1
    BY <1>5 DEF End
  <2> HIDE DEF x, e, p
  <2>3. Begin(file, starts, k + 1) = IF x > 1 /\ file[x - 1] = 0 THEN x - 1 ELSE x
    BY DEF Begin, x
  <2>4. q = Begin(file, starts, k + 1)
    BY <1>2, <1>3, <2>1, <2>2, <2>3
  <2> HIDE DEF q
  <2>5. CASE q = x
    BY <1>2, <2>1, <2>4, <2>5
  <2>6. CASE q = x - 1 /\ file[x - 1] = 0
    <3>1. q + 1 = x /\ q + 2 = x + 1 /\ q + 3 = x + 2 /\ q <= n
      BY <1>2, <2>1, <2>6
    <3>2. Long(file, q)
      BY <2>1, <2>6, <3>1 DEF Long, Code
    <3> QED BY <2>4, <3>1, <3>2
  <2> QED BY <2>3, <2>4, <2>5, <2>6
<1> HIDE DEF e, x
<1> QED BY <1>2, <1>3, <1>4, <1>5 DEF q, p, n, l

-----------------------------------------------------------------------------
(* The reader. *)
From == reader.pos - reader.future + 1
Working == {"look", "access unit", "finish", "read"}

\* The reader has taken the bytes of the code that it looked for.
Taken(f, p, r) ==
    \/ r.future = 3 /\ r.pos - r.future + 1 = p
    \/ r.future = 4 /\ r.pos - r.future + 1 = p - 1

ReaderInv ==
    /\ StreamInv
    /\ reader \in [pos : Nat, future : Nat]
    /\ (\E S : received \in Seq(S)) /\ eof \in BOOLEAN
    /\ mode = "write" =>
          received = <<>> /\ reader = StartOfFile /\ eof = FALSE /\ firstSliceInPicture
    /\ mode # "write" => Len(starts) > 0
    /\ mode \in {"access unit", "finish", "read"} => eof = FALSE
    /\ mode = "access unit" => reader.future = 0
    /\ mode \in Working /\ eof = FALSE =>
          /\ Len(received) < Len(starts)
          /\ InFront(file, starts[Len(received) + 1], From)
    /\ mode = "look" /\ eof = FALSE /\ ~firstSliceInPicture =>
          Taken(file, starts[Len(received) + 1], reader)

\* The reader in front of a unit: what it reads, and where it stands then.
LEMMA ReadsUnit ==
    ASSUME StreamInv, NEW k \in 1..Len(starts), NEW u \in Units,
           UnitStands(file, starts, k, Written(u)),
           NEW r \in [pos : Nat, future : Nat],
           InFront(file, starts[k], r.pos - r.future + 1)
    PROVE  LET got == byteStreamNALUnit(file, r) IN
           /\ got.unit = Written(u) /\ got.unit # <<>>
           /\ got.eof = (k = Len(starts))
           /\ got.reader \in [pos : Nat, future : Nat]
           /\ k < Len(starts) =>
                 /\ InFront(file, starts[k + 1], got.reader.pos - got.reader.future + 1)
                 /\ Taken(file, starts[k + 1], got.reader)
<1> DEFINE w == Written(u)
           p == starts[k]
           q == p + Len(w) + 3
           n == Len(file)
           m == Len(starts)
           from == r.pos - r.future + 1
           got == byteStreamNALUnit(file, r)
           x == starts[k + 1]
<1>1. w \in Seq(Nat) /\ Len(w) > 0 /\ Clean(w) /\ Ended(w)
  BY WrittenClean
<1>2. /\ file \in Seq(Nat) /\ starts \in Seq(Nat) /\ n \in Nat /\ m \in Nat
      /\ \A j \in 1..m : starts[j] \in 1..n
  BY DEF StreamInv, FileInv
<1>3. UnitStands(file, starts, k, w)
  OBVIOUS
<1> HIDE DEF w, n, m
<1>4. /\ p \in Nat /\ p > 0 /\ q \in Nat /\ Code(file, p) /\ Holds(file, p + 2, w)
      /\ k = m => q = n + 1
      /\ k < m => /\ q = Begin(file, starts, k + 1) /\ q <= n
                  /\ Code(file, q) \/ Long(file, q)
  BY <1>1, <1>3, NextBegins DEF n, m
<1>5. k = m \/ k < m
  BY <1>2 DEF m
<1>6. q <= n => k < m
  <2> HIDE DEF q
  <2> QED BY <1>2, <1>4, <1>5
<1>7. (q > n) <=> (k = m)
  <2> HIDE DEF q
  <2> QED BY <1>2, <1>4, <1>5
<1>8. from \in Nat
  <2>1. from = p \/ (from = p - 1 /\ from > 0)
    BY DEF InFront
  <2> HIDE DEF from, p
  <2> QED BY <1>4, <2>1
<1>9. InFront(file, p, from)
  OBVIOUS
<1> DEFINE there == IF q > n THEN EndOfFile(file) ELSE Before(file, q)
<1>10. got = [unit |-> w, eof |-> q > n, reader |-> there]
  <2>1. q = p + Len(w) + 3 /\ from = r.pos - r.future + 1
    OBVIOUS
  <2>2. q <= Len(file) => Code(file, q) \/ Long(file, q)
    BY <1>4, <1>6 DEF n
  <2>3. q > Len(file) => q = Len(file) + 1
    BY <1>4, <1>7 DEF n
  <2>4. Len(w) > 0 /\ Clean(w) /\ Ended(w) /\ Code(file, p) /\ Holds(file, p + 2, w) /\ p > 0
    BY <1>1, <1>4
  <2> HIDE DEF p, q, from
  <2>5. Facing(file, p, w, q, r, from)
    BY <1>1, <1>2, <1>4, <1>8, <1>9, <2>1, <2>2, <2>3, <2>4, Zenon DEF Facing
  <2> QED BY <2>5, UnitIsRead, Zenon DEF n
<1> HIDE DEF got
<1>11. w # <<>>
  BY <1>1
<1>12. got.unit = w /\ got.eof = (q > n) /\ got.reader = there
  BY <1>10
<1>13. CASE k = m
  <2>1. there = EndOfFile(file)
    BY <1>7, <1>13
  <2>2. EndOfFile(file) = [pos |-> n, future |-> 0]
    BY DEF EndOfFile, n
  <2>3. there \in [pos : Nat, future : Nat]
    BY <1>2, <2>1, <2>2
  <2>4. ~(k < m)
    BY <1>2, <1>13
  <2>5. got.eof = (k = m)
    BY <1>7, <1>12, <1>13
  <2> HIDE DEF there
  <2> QED BY <1>11, <1>12, <2>3, <2>4, <2>5 DEF got, w, m
<1>14. CASE k < m
  <2> DEFINE future == IF ShortAt(file, q) THEN 3 ELSE 4
  <2>1. there = Before(file, q)
    BY <1>7, <1>14, <1>2, <1>4
  <2>2. Before(file, q) = [pos |-> q - 1 + future, future |-> future]
    BY Zenon DEF Before
  <2>3. q = Begin(file, starts, k + 1) /\ q <= n /\ (Code(file, q) \/ Long(file, q))
    BY <1>4, <1>14
  <2>4. x \in 1..n
    <3>1. k + 1 \in 1..m
      BY <1>2, <1>14
    <3> QED BY <1>2, <3>1
  <2>5. q = IF x > 1 /\ file[x - 1] = 0 THEN x - 1 ELSE x
    BY <2>3 DEF Begin
  <2>6. Len(file) \in Nat
    BY <1>2
  <2> HIDE DEF q, x, there
  <2>7. ShortAt(file, q) <=> Code(file, q)
    BY <1>4, <2>6, CodeIs
  <2>8. \/ q = x /\ q > 0 /\ future = 3
        \/ q = x - 1 /\ q > 0 /\ file[q] = 0 /\ future = 4
    <3>1. CASE Code(file, q)
      <4>1. future = 3
        BY <2>7, <3>1
      <4>2. q = x
        <5>1. ASSUME q = x - 1, x \in Nat PROVE FALSE
          <6>1. PICK v \in Units : UnitStands(file, starts, k + 1, Written(v))
            <7>1. k + 1 \in 1..m
              BY <1>2, <1>14
            <7> QED BY <7>1 DEF StreamInv, UnitIs, m
          <6>2. file[x + 1] = 0
            BY <6>1 DEF UnitStands, Code, x
          <6>3. q + 2 = x + 1
            BY <5>1
          <6> QED BY <3>1, <6>2, <6>3 DEF Code
        <5> QED BY <2>4, <2>5, <5>1
      <4> QED BY <2>4, <4>1, <4>2
    <3>2. CASE ~Code(file, q)
      <4>1. future = 4
        BY <2>7, <3>2
      <4>2. q # x
        <5>1. PICK v \in Units : UnitStands(file, starts, k + 1, Written(v))
          <6>1. k + 1 \in 1..m
            BY <1>2, <1>14
          <6> QED BY <6>1 DEF StreamInv, UnitIs, m
        <5>2. Code(file, x)
          BY <5>1 DEF UnitStands, x
        <5> QED BY <3>2, <5>2
      <4>3. q = x - 1 /\ x > 1 /\ file[x - 1] = 0
        BY <2>5, <4>2
      <4> QED BY <2>4, <4>1, <4>3
    <3> QED BY <3>1, <3>2
  <2>9. future \in {3, 4}
    OBVIOUS
  <2> HIDE DEF future
  <2>10. /\ there.pos = q - 1 + future /\ there.future = future
         /\ there.pos - there.future + 1 = q
    <3>1. there.pos = q - 1 + future /\ there.future = future
      BY <2>1, <2>2
    <3> QED BY <1>4, <2>9, <3>1
  <2>11. there \in [pos : Nat, future : Nat]
    <3>1. q - 1 + future \in Nat /\ future \in Nat
      BY <1>4, <2>9
    <3> QED BY <2>1, <2>2, <3>1
  <2>12. InFront(file, x, q) /\ Taken(file, x, there)
    BY <2>8, <2>10 DEF InFront, Taken
  <2>13. got.eof = (k = m)
    BY <1>7, <1>12
  <2>14. InFront(file, x, there.pos - there.future + 1)
    BY <2>10, <2>12
  <2> QED BY <1>11, <1>12, <2>11, <2>12, <2>13, <2>14 DEF got, w, m, x
<1> QED BY <1>5, <1>13, <1>14

\* A reader in front of the next unit of those that are left.
Facts(k) ==
    /\ k \in 1..Len(starts)
    /\ \E u \in Units : /\ sent[k] = Content(u) /\ offsets[k] = EntryPoints(u)
                        /\ UnitStands(file, starts, k, Written(u))

LEMMA UnitAhead ==
    ASSUME ReaderInv, mode \in Working, eof = FALSE
    PROVE  LET k == Len(received) + 1 IN
           /\ Len(received) \in Nat /\ Facts(k) /\ InFront(file, starts[k], From)
           /\ starts[k] \in Nat /\ starts[k] > 0
<1> DEFINE k == Len(received) + 1
<1>0. PICK S : received \in Seq(S)
  BY DEF ReaderInv
<1>1. Len(received) \in Nat
  BY <1>0
<1>2. Len(received) < Len(starts) /\ InFront(file, starts[k], From)
  BY DEF ReaderInv
<1>3. StreamInv /\ Len(starts) \in Nat
  <2>1. StreamInv
    BY DEF ReaderInv
  <2>2. starts \in Seq(Nat)
    BY <2>1 DEF StreamInv, FileInv
  <2> QED BY <2>1, <2>2
<1>4. k \in 1..Len(starts)
  BY <1>1, <1>2, <1>3
<1> HIDE DEF k
<1>5. Facts(k)
  BY <1>3, <1>4 DEF Facts, StreamInv, UnitIs
<1>6. starts[k] \in Nat /\ starts[k] > 0
  <2>1. starts[k] \in 1..Len(file) /\ Len(file) \in Nat
    BY <1>3, <1>4 DEF StreamInv, FileInv
  <2> QED BY <2>1
<1> QED BY <1>1, <1>2, <1>5, <1>6 DEF k

LEMMA ReaderStart == Init => ReaderInv
<1> SUFFICES ASSUME Init PROVE ReaderInv
  OBVIOUS
<1>1. StreamInv
  BY StreamStart
<1>2. /\ received = <<>> /\ mode = "write" /\ reader = StartOfFile /\ eof = FALSE
      /\ firstSliceInPicture = TRUE
  BY DEF Init
<1>3. reader \in [pos : Nat, future : Nat]
  BY <1>2 DEF StartOfFile
<1>4. <<>> \in Seq({})
  OBVIOUS
<1> QED BY <1>1, <1>2, <1>3, <1>4 DEF ReaderInv, Working

LEMMA ReaderWrites ==
    ASSUME ReaderInv, NEW u \in Units, Write(u)
    PROVE  ReaderInv'
<1>1. StreamInv'
  BY StreamGrows DEF ReaderInv
<1>2. mode = "write" /\ UNCHANGED <<mode, decoder>>
  BY DEF Write
<1>3. UNCHANGED <<mode, received, reader, eof, firstSliceInPicture>>
  BY <1>2 DEF decoder
<1> QED BY <1>1, <1>2, <1>3 DEF ReaderInv, Working

LEMMA SameStream ==
    ASSUME StreamInv, UNCHANGED writer
    PROVE  StreamInv' /\ file' = file /\ starts' = starts
BY DEF writer, StreamInv, FileInv

LEMMA ReaderCloses ==
    ASSUME ReaderInv, CloseFile
    PROVE  ReaderInv'
<1>1. mode = "write" /\ sent # <<>> /\ mode' = "look" /\ UNCHANGED <<writer, decoder>>
  BY DEF CloseFile
<1>2. StreamInv /\ StreamInv' /\ file' = file /\ starts' = starts
  BY <1>1, SameStream DEF ReaderInv
<1>3. received = <<>> /\ reader = StartOfFile /\ eof = FALSE /\ firstSliceInPicture
  BY <1>1 DEF ReaderInv
<1>4. UNCHANGED <<received, reader, eof, firstSliceInPicture>>
  BY <1>1 DEF decoder
<1>5. Len(starts) > 0
  <2>1. sent \in Seq(Contents) /\ Len(sent) = Len(starts)
    BY <1>2 DEF StreamInv
  <2>2. Len(sent) # 0 /\ Len(sent) \in Nat
    BY <1>1, <2>1, EmptySeq
  <2> QED BY <2>1, <2>2
<1>6. InFront(file, starts[1], 1)
  <2>1. Begin(file, starts, 1) = 1
    BY <1>2, <1>5 DEF StreamInv
  <2>2. starts[1] \in Nat
    <3>1. 1 \in 1..Len(starts) /\ starts \in Seq(Nat)
      BY <1>2, <1>5 DEF StreamInv, FileInv
    <3> QED BY <3>1
  <2> QED BY <2>1, <2>2 DEF Begin, InFront
<1>7. From' = 1 /\ reader' \in [pos : Nat, future : Nat]
  <2>1. StartOfFile.pos = 0 /\ StartOfFile.future = 0 /\ StartOfFile \in [pos : Nat, future : Nat]
    BY DEF StartOfFile
  <2> QED BY <1>3, <1>4, <2>1 DEF From
<1>8. Len(received') = 0 /\ Len(received') < Len(starts')
  BY <1>2, <1>3, <1>4, <1>5
<1>9. Len(received') + 1 = 1
  BY <1>8
<1>10. InFront(file', starts'[Len(received') + 1], From')
  BY <1>2, <1>6, <1>7, <1>9
<1>11. firstSliceInPicture' /\ eof' = FALSE /\ mode' = "look"
  BY <1>1, <1>3, <1>4
<1>12. \E S : received' \in Seq(S)
  BY <1>4 DEF ReaderInv
<1> QED BY <1>2, <1>5, <1>7, <1>8, <1>10, <1>11, <1>12 DEF ReaderInv

LEMMA ReaderLooks ==
    ASSUME ReaderInv, IsNewPicture
    PROVE  ReaderInv'
<1> DEFINE p == starts[Len(received) + 1]
<1>1. /\ mode = "look" /\ eof = FALSE /\ UNCHANGED <<writer, received, eof, firstSliceInPicture>>
      /\ mode' \in {"access unit", "finish", "read"}
      /\ IF firstSliceInPicture THEN mode' = "read" /\ UNCHANGED reader
         ELSE reader' = Restored(reader)
  BY DEF IsNewPicture, ReaderInv
<1>2. StreamInv /\ StreamInv' /\ file' = file /\ starts' = starts
  BY <1>1, SameStream DEF ReaderInv
<1>3. /\ InFront(file, p, From) /\ Len(received) < Len(starts) /\ p \in Nat /\ p > 0
      /\ Len(starts) > 0
  <2>1. mode \in Working
    BY <1>1 DEF Working
  <2> QED BY <1>1, <2>1, UnitAhead DEF ReaderInv
<1>4. reader \in [pos : Nat, future : Nat] /\ \E S : received \in Seq(S)
  BY DEF ReaderInv
<1> HIDE DEF p
<1>5. /\ reader' \in [pos : Nat, future : Nat] /\ InFront(file, p, From')
      /\ mode' = "access unit" => reader'.future = 0
  <2>1. CASE firstSliceInPicture
    BY <1>1, <1>3, <1>4, <2>1 DEF From
  <2>2. CASE ~firstSliceInPicture
    <3>1. Taken(file, p, reader)
      BY <1>1, <2>2 DEF ReaderInv, p
    <3>2. reader.pos \in Nat /\ reader.future \in Nat
      BY <1>4
    <3>3. reader' = [pos |-> reader.pos - 3, future |-> 0]
      BY <1>1, <2>2 DEF Restored
    <3> DEFINE x == reader.pos
    <3>4. x - 3 = p - 1
      BY <1>3, <3>1, <3>2 DEF Taken
    <3>5. x - 3 \in Nat
      BY <1>3, <3>4
    <3> HIDE DEF x
    <3>6. reader' \in [pos : Nat, future : Nat] /\ reader'.pos = x - 3 /\ reader'.future = 0
      BY <3>3, <3>5 DEF x
    <3>7. From' = p
      BY <1>3, <3>4, <3>6 DEF From
    <3> QED BY <3>6, <3>7 DEF InFront
  <2> QED BY <2>1, <2>2
<1> QED BY <1>1, <1>2, <1>3, <1>4, <1>5 DEF ReaderInv, p

LEMMA ReaderLooksOn ==
    ASSUME ReaderInv, IsNewAccessUnit
    PROVE  ReaderInv'
<1>1. /\ mode = "access unit" /\ mode' = "finish" /\ reader' = [reader EXCEPT !.future = 0]
      /\ UNCHANGED <<writer, received, eof, firstSliceInPicture>>
  BY DEF IsNewAccessUnit, RestoredExactly
<1>2. StreamInv' /\ file' = file /\ starts' = starts
  BY <1>1, SameStream DEF ReaderInv
<1>3. eof = FALSE /\ reader.future = 0 /\ mode \in Working
      /\ reader \in [pos : Nat, future : Nat] /\ \E S : received \in Seq(S)
  BY <1>1 DEF ReaderInv, Working
<1>4. reader' = reader
  BY <1>1, <1>3
<1>5. Len(received) < Len(starts) /\ InFront(file, starts[Len(received) + 1], From)
      /\ Len(starts) > 0
  BY <1>1, <1>3 DEF ReaderInv
<1>6. From' = From
  BY <1>4 DEF From
<1> QED BY <1>1, <1>2, <1>3, <1>4, <1>5, <1>6 DEF ReaderInv

LEMMA ReaderFinishes ==
    ASSUME ReaderInv, FinishPicture
    PROVE  ReaderInv'
<1>1. /\ mode = "finish" /\ mode' = "look" /\ firstSliceInPicture' = TRUE
      /\ UNCHANGED <<writer, received, reader, eof>>
  BY DEF FinishPicture
<1>2. StreamInv' /\ file' = file /\ starts' = starts
  BY <1>1, SameStream DEF ReaderInv
<1>3. eof = FALSE /\ mode \in Working
      /\ reader \in [pos : Nat, future : Nat] /\ \E S : received \in Seq(S)
  BY <1>1 DEF ReaderInv, Working
<1>4. Len(received) < Len(starts) /\ InFront(file, starts[Len(received) + 1], From)
      /\ Len(starts) > 0
  BY <1>1, <1>3 DEF ReaderInv
<1>5. From' = From
  BY <1>1 DEF From
<1> QED BY <1>1, <1>2, <1>3, <1>4, <1>5 DEF ReaderInv

LEMMA LongerSequence ==
    ASSUME NEW s, \E S : s \in Seq(S), NEW v
    PROVE  (\E S : Append(s, v) \in Seq(S)) /\ Len(Append(s, v)) = Len(s) + 1
<1>1. PICK S : s \in Seq(S)
  OBVIOUS
<1>2. v \in S \cup {v} /\ s \in Seq(S \cup {v})
  BY <1>1
<1> QED BY <1>2, AppendedAny

LEMMA ReaderReads ==
    ASSUME ReaderInv, ReadUnit
    PROVE  ReaderInv'
<1> DEFINE got == byteStreamNALUnit(file, reader)
           k == Len(received) + 1
           m == Len(starts)
<1>1. mode = "read" /\ reader' = got.reader /\ eof' = got.eof /\ UNCHANGED writer
  BY DEF ReadUnit
<1>2. StreamInv /\ StreamInv' /\ file' = file /\ starts' = starts
  BY <1>1, SameStream DEF ReaderInv
<1>3. eof = FALSE /\ reader \in [pos : Nat, future : Nat] /\ \E S : received \in Seq(S)
  BY <1>1 DEF ReaderInv
<1>4. Len(received) \in Nat /\ Facts(k) /\ InFront(file, starts[k], From)
  <2>1. mode \in Working
    BY <1>1 DEF Working
  <2> QED BY <1>3, <2>1, UnitAhead
<1>5. PICK u \in Units : UnitStands(file, starts, k, Written(u))
  BY <1>4 DEF Facts
<1>6. k \in 1..m /\ m \in Nat
  BY <1>2, <1>4 DEF Facts, StreamInv, FileInv
<1>7. /\ got.unit # <<>> /\ got.eof = (k = m) /\ got.reader \in [pos : Nat, future : Nat]
      /\ k < m => /\ InFront(file, starts[k + 1], got.reader.pos - got.reader.future + 1)
                  /\ Taken(file, starts[k + 1], got.reader)
  <2> HIDE DEF k
  <2> QED BY <1>2, <1>3, <1>4, <1>5, <1>6, ReadsUnit DEF From
<1>8. \/ mode' = "failed" /\ UNCHANGED received
      \/ mode' = "look" /\ \E v : received' = Append(received, v)
  BY <1>7 DEF ReadUnit
<1> HIDE DEF got
<1>9. reader' \in [pos : Nat, future : Nat] /\ eof' \in BOOLEAN /\ Len(starts') > 0
  <2>1. m > 0
    BY <1>6
  <2> QED BY <1>1, <1>2, <1>7, <2>1
<1>10. CASE mode' = "failed" /\ UNCHANGED received
  <2>1. mode' \notin Working
    BY <1>10 DEF Working
  <2> QED BY <1>2, <1>3, <1>9, <1>10, <2>1 DEF ReaderInv, Working
<1>11. CASE mode' = "look" /\ \E v : received' = Append(received, v)
  <2>1. (\E S : received' \in Seq(S)) /\ Len(received') = k
    <3>1. PICK v : received' = Append(received, v)
      BY <1>11
    <3> QED BY <1>3, <3>1, LongerSequence
  <2>2. ASSUME eof' = FALSE
        PROVE  /\ Len(received') < Len(starts')
               /\ InFront(file', starts'[Len(received') + 1], From')
               /\ Taken(file', starts'[Len(received') + 1], reader')
    <3>1. k < m
      <4>1. k # m
        BY <1>1, <1>7, <2>2
      <4> HIDE DEF k, m
      <4> QED BY <1>6, <4>1
    <3>2. From' = got.reader.pos - got.reader.future + 1
      BY <1>1 DEF From
    <3> HIDE DEF k
    <3> QED BY <1>1, <1>2, <1>7, <2>1, <3>1, <3>2
  <2> HIDE DEF k, m
  <2> QED BY <1>2, <1>9, <1>11, <2>1, <2>2 DEF ReaderInv
<1> QED BY <1>8, <1>10, <1>11

LEMMA ReaderStep == ReaderInv /\ [Next]_vars => ReaderInv'
<1> SUFFICES ASSUME ReaderInv, [Next]_vars PROVE ReaderInv'
  OBVIOUS
<1>1. CASE UNCHANGED vars
  <2>1. UNCHANGED writer /\ UNCHANGED decoder /\ UNCHANGED mode
    BY <1>1 DEF vars, writer, decoder
  <2>2. StreamInv' /\ file' = file /\ starts' = starts
    BY <2>1, SameStream DEF ReaderInv
  <2>3. UNCHANGED <<mode, received, reader, eof, firstSliceInPicture>>
    BY <2>1 DEF decoder
  <2> QED BY <2>2, <2>3 DEF ReaderInv, From
<1> QED BY <1>1, ReaderWrites, ReaderCloses, ReaderLooks, ReaderLooksOn, ReaderFinishes,
           ReaderReads DEF Next, Encoder, Decoder

LEMMA ReaderImplies == ReaderInv => ReaderAtNextUnit
<1> SUFFICES ASSUME ReaderInv, mode \in Working, eof = FALSE
             PROVE  starts[Len(received) + 1] - From \in 0..1
  BY DEF ReaderAtNextUnit, Working, From, ReaderInv
<1> DEFINE p == starts[Len(received) + 1]
<1>1. InFront(file, p, From) /\ p \in Nat
  BY UnitAhead
<1> HIDE DEF p
<1>2. From = p \/ From = p - 1
  BY <1>1 DEF InFront
<1>3. p - From \in 0..1
  BY <1>1, <1>2
<1> QED BY <1>3 DEF p

\* Whatever the units hold, looking ahead for a new picture and a new access
\* unit leaves the decoder in front of the unit that it reads next (isNewPicture,
\* isNewAccessUnit, byteStreamNALUnit).
THEOREM ReaderCorrect == Spec => []ReaderAtNextUnit
<1>1. Spec => []ReaderInv
  BY ReaderStart, ReaderStep, PTL DEF Spec
<1>2. []ReaderInv => []ReaderAtNextUnit
  BY ReaderImplies, PTL
<1> QED BY <1>1, <1>2, PTL

-----------------------------------------------------------------------------
(* What the encoder counts is what emulation prevention adds. *)
Finding == [count : Nat, from : Nat]

\* What has been found up to each byte.
FoundSteps(found, rbsp) ==
    /\ found \in [0..Len(rbsp) -> Finding]
    /\ found[0] = NothingFound
    /\ \A n \in 1..Len(rbsp) : found[n] = Find(rbsp, found[n - 1], n)
    /\ countStartCodeEmulations(rbsp) = found[Len(rbsp)].count

LEMMA FindType ==
    ASSUME NEW rbsp, NEW f \in Finding, NEW j \in Nat
    PROVE  Find(rbsp, f, j) \in Finding
BY DEF Find, Finding

\* The count of countStartCodeEmulations, byte by byte.
LEMMA CountSteps ==
    ASSUME NEW rbsp \in Seq(Nat)
    PROVE  \E found : FoundSteps(found, rbsp)
<1> DEFINE N == Len(rbsp)
           step == [xn \in Finding \X (1..N) |-> Find(rbsp, xn[1], xn[2])]
           found[j \in 0..N] == IF j = 0 THEN NothingFound ELSE Find(rbsp, found[j - 1], j)
<1>1. N \in Nat
  OBVIOUS
<1>2. countStartCodeEmulations(rbsp) = found[N].count
  BY Zenon DEF countStartCodeEmulations
<1> HIDE DEF N
<1>3. step \in [Finding \X (1..N) -> Finding]
  <2>1. ASSUME NEW xn \in Finding \X (1..N) PROVE Find(rbsp, xn[1], xn[2]) \in Finding
    <3>1. xn[1] \in Finding /\ xn[2] \in Nat
      BY <1>1
    <3> QED BY <3>1, FindType
  <2> QED BY <2>1
<1>4. NothingFound \in Finding
  BY DEF NothingFound, Finding
<1>5. PICK f \in [0..N -> Finding] :
         f[0] = NothingFound /\ \A n \in 1..N : f[n] = step[<<f[n - 1], n>>]
  <2> HIDE DEF step, found
  <2>1. Steppable(N, Finding, NothingFound, step)
    BY <1>1, <1>3, <1>4 DEF Steppable
  <2>2. \E f : Steps(f, N, Finding, NothingFound, step)
    BY <2>1, StepsExist
  <2> QED BY <2>2 DEF Steps
<1>6. ASSUME NEW n \in 1..N PROVE f[n] = Find(rbsp, f[n - 1], n)
  <2>1. n - 1 \in 0..N
    BY <1>1
  <2>2. <<f[n - 1], n>> \in Finding \X (1..N)
    BY <1>5, <2>1
  <2> QED BY <1>5, <2>2
<1>7. f = [n \in 0..N |-> IF n = 0 THEN NothingFound ELSE Find(rbsp, f[n - 1], n)]
  <2>1. \A n \in 0..N : n = 0 \/ n \in 1..N
    BY <1>1
  <2>2. \A n \in 0..N : f[n] = IF n = 0 THEN NothingFound ELSE Find(rbsp, f[n - 1], n)
    BY <1>1, <1>5, <1>6, <2>1
  <2> QED BY <1>5, <2>2
<1>8. found = [n \in 0..N |-> IF n = 0 THEN NothingFound ELSE Find(rbsp, found[n - 1], n)]
  BY <1>7
<1> HIDE DEF found, step
<1>9. found = [n \in 0..N |-> found[n]] /\ found[0] = NothingFound
  BY <1>1, <1>8
<1>10. ASSUME NEW n \in 1..N PROVE found[n] = Find(rbsp, found[n - 1], n)
  <2>1. n \in 0..N /\ n # 0
    BY <1>1
  <2> QED BY <1>8, <2>1
<1>11. found \in [0..N -> Finding]
  <2> DEFINE S == {n \in 0..N : found[n] \in Finding}
  <2>1. 0 \in S
    BY <1>1, <1>4, <1>9
  <2>2. ASSUME NEW n \in 1..N, n - 1 \in S PROVE n \in S
    <3>1. found[n - 1] \in Finding /\ n \in 0..N /\ n \in Nat
      BY <1>1, <2>2
    <3> QED BY <1>10, <3>1, FindType
  <2> HIDE DEF S
  <2>3. 0..N \subseteq S
    BY <1>1, <2>1, <2>2, InductionTo
  <2> QED BY <1>9, <2>3 DEF S
<1>12. FoundSteps(found, rbsp)
  BY <1>2, <1>9, <1>10, <1>11 DEF FoundSteps, N
<1> QED BY <1>12

\* z zeros stand at j, none of them before from.
Trail(q, z, from, j) ==
    /\ z \in 0..2 /\ from \in 1..j
    /\ z = 0 => q[j] # 0
    /\ z = 1 => q[j] = 0 /\ (from < j => q[j - 1] # 0)
    /\ z = 2 => q[j] = 0 /\ q[j - 1] = 0 /\ from < j

\* The writer and the count go on together: one byte.
LEMMA CountedByte ==
    ASSUME NEW q \in Seq(Nat), NEW j \in 1..(Len(q) - 1), NEW w \in Writing,
           NEW f \in Finding, Trail(q, w.zeroCount, f.from, j)
    PROVE  LET v == Put(w, q[j + 1])
               g == Find(q, f, j - 1) IN
           /\ Trail(q, v.zeroCount, g.from, j + 1)
           /\ Len(v.out) - g.count = Len(w.out) - f.count + 1
<1> DEFINE b == q[j + 1]
           v == Put(w, b)
           g == Find(q, f, j - 1)
           z == w.zeroCount
<1>1. /\ b \in Nat /\ w.out \in Seq(Nat) /\ z \in 0..2 /\ j \in Nat /\ j >= 1
      /\ f.count \in Nat /\ f.from \in Nat /\ j + 1 <= Len(q) /\ Len(w.out) \in Nat
  BY DEF Writing, Finding
<1>2. /\ f.from \in 1..j
      /\ z = 0 => q[j] # 0
      /\ z = 1 => q[j] = 0 /\ (f.from < j => q[j - 1] # 0)
      /\ z = 2 => q[j] = 0 /\ q[j - 1] = 0 /\ f.from < j
  BY DEF Trail
<1>3. EmulationAt(q, j - 1) <=> q[j - 1] = 0 /\ q[j] = 0 /\ b <= 3
  <2>1. (j - 1) + 2 = j + 1 /\ (j - 1) + 1 = j
    BY <1>1
  <2> QED BY <1>1, <2>1 DEF EmulationAt
<1>4. f.from <= j - 1 <=> f.from < j
  BY <1>1
<1>5. CASE z = 2 /\ b <= 3
  <2> DEFINE a == Append(w.out, 3)
  <2>1. v = [out |-> Append(a, b), zeroCount |-> IF b # 0 THEN 0 ELSE 1]
    BY <1>1, <1>5, PutAppends
  <2>2. Len(Append(a, b)) = Len(w.out) + 2
    <3>1. a \in Seq(Nat) /\ Len(a) = Len(w.out) + 1
      BY <1>1
    <3> HIDE DEF a
    <3> QED BY <1>1, <3>1
  <2>3. g = [count |-> f.count + 1, from |-> j + 1]
    <3>1. (j - 1) + 2 = j + 1
      BY <1>1
    <3> QED BY <1>2, <1>3, <1>4, <1>5, <3>1 DEF Find
  <2> HIDE DEF v, g, b
  <2>4. Trail(q, v.zeroCount, g.from, j + 1)
    <3>1. v.zeroCount = (IF b # 0 THEN 0 ELSE 1) /\ g.from = j + 1
      BY <2>1, <2>3
    <3> QED BY <1>1, <3>1 DEF Trail, b
  <2>5. Len(v.out) - g.count = Len(w.out) - f.count + 1
    <3>1. Len(v.out) = Len(w.out) + 2 /\ g.count = f.count + 1
      BY <2>1, <2>2, <2>3
    <3>2. Len(w.out) \in Nat /\ f.count \in Nat
      BY <1>1
    <3> QED BY ONLY <3>1, <3>2
  <2> QED BY <2>4, <2>5 DEF v, g, b
<1>6. CASE ~(z = 2 /\ b <= 3)
  <2>1. v = [out |-> Append(w.out, b), zeroCount |-> IF b # 0 THEN 0 ELSE z + 1]
    BY <1>1, <1>6, PutAppends
  <2>2. g = f
    <3>1. ~(f.from < j /\ q[j - 1] = 0 /\ q[j] = 0 /\ b <= 3)
      BY <1>1, <1>2, <1>6
    <3> QED BY <1>3, <1>4, <3>1 DEF Find
  <2>3. Len(Append(w.out, b)) = Len(w.out) + 1
    BY <1>1
  <2>4. v.zeroCount = (IF b # 0 THEN 0 ELSE z + 1) /\ v.out = Append(w.out, b)
    BY <2>1
  <2> HIDE DEF v, g
  <2>5. Trail(q, v.zeroCount, g.from, j + 1)
    <3>1. (j + 1) - 1 = j /\ f.from \in 1..(j + 1) /\ f.from < j + 1
      BY <1>1, <1>2
    <3>2. b # 0 => z \in 0..2
      BY <1>1
    <3>3. CASE b # 0
      <4>1. v.zeroCount = 0
        BY <2>4, <3>3
      <4> QED BY <2>2, <3>1, <3>3, <4>1 DEF Trail
    <3>4. CASE b = 0 /\ z = 0
      <4>1. v.zeroCount = 1 /\ q[j] # 0
        BY <1>2, <2>4, <3>4
      <4> QED BY <2>2, <3>1, <3>4, <4>1 DEF Trail
    <3>5. CASE b = 0 /\ z = 1
      <4>1. v.zeroCount = 2 /\ q[j] = 0
        BY <1>2, <2>4, <3>5
      <4> QED BY <2>2, <3>1, <3>5, <4>1 DEF Trail
    <3> QED BY <1>1, <1>6, <3>3, <3>4, <3>5
  <2>6. Len(v.out) - g.count = Len(w.out) - f.count + 1
    <3>1. Len(v.out) = Len(w.out) + 1 /\ g.count = f.count
      BY <2>2, <2>3, <2>4
    <3>2. Len(w.out) \in Nat /\ f.count \in Nat
      BY <1>1
    <3> QED BY ONLY <3>1, <3>2
  <2> QED BY <2>5, <2>6 DEF v, g, b
<1> QED BY <1>5, <1>6

\* A segment of a payload, written behind what is there.
SegmentSteps(after, q) ==
    /\ after \in [0..Len(q) -> Writing]
    /\ \A n \in 1..Len(q) : after[n] = Put(after[n - 1], q[n])

\* What the encoder counts is what emulation prevention adds, if no zeros stand
\* in front of the segment.
LEMMA SegmentCount ==
    ASSUME NEW q \in Seq(Nat), NEW after, SegmentSteps(after, q), after[0].zeroCount = 0
    PROVE  /\ countStartCodeEmulations(q) \in Nat
           /\ Len(after[Len(q)].out) = Len(after[0].out) + Len(q) + countStartCodeEmulations(q)
<1> DEFINE N == Len(q)
           L(j) == Len(after[j].out)
<1>1. PICK found : FoundSteps(found, q)
  BY CountSteps
<1> DEFINE c(j) == IF j <= 2 THEN NothingFound ELSE found[j - 2]
           Good(j) == /\ Trail(q, after[j].zeroCount, c(j).from, j)
                      /\ L(j) = L(0) + j + c(j).count
           S == {j \in 0..N : j = 0 \/ Good(j)}
<1>2. /\ found[0] = NothingFound /\ \A n \in 0..N : found[n] \in Finding
      /\ \A n \in 1..N : found[n] = Find(q, found[n - 1], n)
      /\ countStartCodeEmulations(q) = found[N].count
  BY <1>1 DEF FoundSteps
<1>3. /\ N \in Nat /\ \A n \in 1..N : q[n] \in Nat
      /\ \A n \in 0..N : after[n] \in Writing
      /\ \A n \in 1..N : after[n] = Put(after[n - 1], q[n])
  <2>1. N \in Nat /\ \A n \in 1..N : q[n] \in Nat
    OBVIOUS
  <2>2. /\ after \in [0..N -> Writing]
        /\ \A n \in 1..N : after[n] = Put(after[n - 1], q[n])
    BY DEF SegmentSteps
  <2> HIDE DEF N
  <2> QED BY <2>1, <2>2
<1>4. \A n \in 0..N : L(n) \in Nat
  BY <1>3 DEF Writing
<1>5. NothingFound \in Finding /\ NothingFound.count = 0 /\ NothingFound.from = 1
  BY DEF NothingFound, Finding
<1> HIDE DEF N
<1>6. \A j \in 1..N : c(j) \in Finding
  <2>1. \A j \in 1..N : j <= 2 \/ j - 2 \in 0..N
    BY <1>3
  <2> QED BY <1>2, <1>5, <2>1
<1>7. ASSUME 1 \in 0..N PROVE Good(1)
  <2>1. 1 \in 1..N /\ 0 \in 0..N /\ 1 - 1 = 0
    BY <1>3, <1>7
  <2>2. after[0] \in Writing /\ q[1] \in Nat /\ after[1] = Put(after[0], q[1])
    BY <1>3, <2>1
  <2> DEFINE w == after[0]
  <2>3. after[1] = [out |-> Append(w.out, q[1]), zeroCount |-> IF q[1] # 0 THEN 0 ELSE 1]
    <3>1. w.zeroCount = 0 /\ ~(w.zeroCount = 2 /\ q[1] <= 3) /\ w.zeroCount + 1 = 1
      OBVIOUS
    <3>2. w \in Writing /\ after[1] = Put(w, q[1])
      BY <2>2
    <3> HIDE DEF w
    <3> QED BY <2>2, <3>1, <3>2, PutAppends
  <2>4. L(1) = L(0) + 1
    <3>1. w.out \in Seq(Nat)
      BY <2>2 DEF Writing
    <3>2. Len(Append(w.out, q[1])) = Len(w.out) + 1
      BY <3>1
    <3> QED BY <2>3, <3>2
  <2>5. after[1].zeroCount = IF q[1] # 0 THEN 0 ELSE 1
    BY <2>3
  <2>6. c(1) = NothingFound
    OBVIOUS
  <2>7. Trail(q, after[1].zeroCount, 1, 1)
    BY <2>2, <2>5 DEF Trail
  <2>8. L(0) \in Nat
    BY <1>4, <2>1
  <2> HIDE DEF c, L
  <2> QED BY <1>5, <2>4, <2>6, <2>7, <2>8
<1>8. ASSUME NEW j \in 2..N PROVE c(j) = Find(q, c(j - 1), j - 2)
  <2>1. CASE j = 2
    <3>1. Find(q, NothingFound, 0) = NothingFound
      BY <1>5 DEF Find
    <3> QED BY <2>1, <3>1
  <2>2. CASE j = 3
    <3>1. c(2) = found[0] /\ c(3) = found[1] /\ 1 \in 1..N
      BY <1>2, <1>3, <2>2
    <3> QED BY <1>2, <2>2, <3>1
  <2>3. CASE j > 3
    <3>1. /\ j - 2 \in 1..N /\ (j - 2) - 1 = j - 3 /\ (j - 1) - 2 = j - 3
          /\ ~(j <= 2) /\ ~(j - 1 <= 2)
      BY <1>3, <2>3
    <3>2. c(j) = found[j - 2] /\ c(j - 1) = found[j - 3]
      BY <3>1
    <3> QED BY <1>2, <3>1, <3>2
  <2> QED BY <2>1, <2>2, <2>3
<1>9. ASSUME NEW j \in 2..N, Good(j - 1) PROVE Good(j)
  <2> DEFINE i == j - 1
             w == after[i]
             f == c(i)
             v == Put(w, q[i + 1])
             g == Find(q, f, i - 1)
  <2>1. /\ i \in 1..(N - 1) /\ i \in 0..N /\ i \in 1..N /\ i + 1 = j /\ i - 1 = j - 2 /\ j \in 1..N
        /\ j \in Nat /\ i \in Nat /\ j \in 0..N
    BY <1>3
  <2>2. w \in Writing /\ f \in Finding
    BY <1>3, <1>6, <2>1
  <2>3. v = after[j] /\ g = c(j)
    <3>1. after[j] = Put(after[j - 1], q[j])
      BY <1>3, <2>1
    <3>2. c(j) = Find(q, c(j - 1), j - 2)
      BY <1>8
    <3> HIDE DEF c
    <3> QED BY <2>1, <3>1, <3>2
  <2>4. Trail(q, w.zeroCount, f.from, i) /\ L(i) = L(0) + i + f.count
    BY <1>9
  <2> HIDE DEF c, f, w, i
  <2>5. Trail(q, v.zeroCount, g.from, i + 1) /\ Len(v.out) - g.count = Len(w.out) - f.count + 1
    BY <2>1, <2>2, <2>4, CountedByte DEF N
  <2> HIDE DEF v, g
  <2>6. L(j) - c(j).count = L(i) - f.count + 1
    BY <2>3, <2>5 DEF w
  <2>7. L(j) \in Nat /\ L(i) \in Nat /\ L(0) \in Nat /\ c(j).count \in Nat /\ f.count \in Nat
    <3>1. 0 \in 0..N
      BY <1>3
    <3>2. L(j) \in Nat /\ L(i) \in Nat /\ L(0) \in Nat
      BY <1>4, <2>1, <3>1
    <3>3. c(j).count \in Nat /\ f.count \in Nat
      BY <1>6, <2>1, <2>2 DEF Finding
    <3> QED BY <3>2, <3>3
  <2> DEFINE a == L(j)
             b == L(i)
             z == L(0)
             d == c(j).count
             e == f.count
  <2>8. a = z + j + d
    <3>1. a - d = b - e + 1 /\ b = z + i + e /\ i + 1 = j
      BY <2>1, <2>4, <2>6
    <3>2. a \in Nat /\ b \in Nat /\ z \in Nat /\ d \in Nat /\ e \in Nat /\ i \in Nat
      BY <2>1, <2>7
    <3> HIDE DEF a, b, z, d, e
    <3> QED BY ONLY <3>1, <3>2
  <2> QED BY <2>1, <2>3, <2>5, <2>8
<1>10. 0 \in S
  BY <1>3
<1>11. ASSUME NEW j \in 1..N, j - 1 \in S PROVE j \in S
  <2>1. CASE j = 1
    BY <1>7, <2>1
  <2>2. CASE j # 1
    <3>1. j \in 2..N /\ j - 1 # 0 /\ j \in 0..N
      BY <1>3, <2>2
    <3>2. Good(j - 1)
      BY <1>11, <3>1
    <3> HIDE DEF Good
    <3> QED BY <1>9, <3>1, <3>2
  <2> QED BY <2>1, <2>2
<1> HIDE DEF S
<1>12. 0..N \subseteq S
  BY <1>3, <1>10, <1>11, InductionTo
<1>13. ASSUME NEW n \in 1..N, n + 2 > N PROVE found[n] = found[n - 1]
  <2>1. ~EmulationAt(q, n)
    BY <1>3, <1>13 DEF EmulationAt, N
  <2> QED BY <1>2, <2>1 DEF Find
<1>14. ASSUME N # 0 PROVE found[N] = c(N)
  <2>1. CASE N = 1
    <3>1. found[1] = found[1 - 1]
      BY <1>13, <2>1
    <3> QED BY <1>2, <2>1, <3>1
  <2>2. CASE N = 2
    <3>1. found[2] = found[2 - 1] /\ found[1] = found[1 - 1]
      BY <1>13, <2>2
    <3> QED BY <1>2, <2>2, <3>1
  <2>3. CASE N > 2
    <3>1. N \in 1..N /\ N - 1 \in 1..N /\ N + 2 > N /\ (N - 1) + 2 > N
          /\ (N - 1) - 1 = N - 2 /\ ~(N <= 2)
      BY <1>3, <2>3
    <3>2. found[N] = found[N - 1] /\ found[N - 1] = found[N - 2]
      BY <1>13, <3>1
    <3> QED BY <3>1, <3>2
  <2> QED BY <1>3, <1>14, <2>1, <2>2, <2>3
<1>15. countStartCodeEmulations(q) \in Nat
  <2>1. N \in 0..N
    BY <1>3
  <2> QED BY <1>2, <2>1 DEF Finding
<1>16. CASE N = 0
  <2>1. countStartCodeEmulations(q) = 0
    BY <1>2, <1>5, <1>16
  <2>2. L(0) \in Nat
    BY <1>3, <1>4
  <2> QED BY <1>15, <1>16, <2>1, <2>2 DEF N
<1>17. CASE N # 0
  <2>1. Good(N)
    <3>1. N \in 0..N
      BY <1>3
    <3> QED BY <1>12, <1>17, <3>1 DEF S
  <2>2. L(N) = L(0) + N + found[N].count
    BY <1>14, <1>17, <2>1
  <2> QED BY <1>2, <1>15, <2>2 DEF N
<1> QED BY <1>16, <1>17
-----------------------------------------------------------------------------
(* Where the escapes stand. *)

\* The places of the escapes, before and behind m bytes that were written as l:
\* as many are before it as there are bytes too many.
Splits(loc, m, l) ==
    \A j \in 1..Len(loc) : /\ j <= l - m => loc[j] < 1 + m + j
                           /\ j > l - m => loc[j] >= 2 + l

\* An escape behind l does not change where the places split.
LEMMA SplitsMore ==
    ASSUME NEW loc \in Seq(Nat), NEW m \in Nat, NEW l \in Nat, NEW v \in Nat,
           Splits(loc, m, l), v >= 2 + l, Len(loc) >= l - m
    PROVE  Splits(Append(loc, v), m, l)
<1> DEFINE t == Append(loc, v)
           c == Len(loc)
<1>1. c \in Nat /\ Len(t) = c + 1 /\ t[c + 1] = v /\ \A j \in 1..c : t[j] = loc[j]
  OBVIOUS
<1>2. \A j \in 1..c : (j <= l - m => loc[j] < 1 + m + j) /\ (j > l - m => loc[j] >= 2 + l)
  BY DEF Splits
<1>3. v >= 2 + l /\ c >= l - m
  OBVIOUS
<1> HIDE DEF t, c
<1>4. ASSUME NEW j \in 1..(c + 1)
      PROVE  (j <= l - m => t[j] < 1 + m + j) /\ (j > l - m => t[j] >= 2 + l)
  <2>1. CASE j = c + 1
    <3>1. ~(j <= l - m)
      BY <1>1, <1>3, <2>1
    <3> QED BY <1>1, <1>3, <2>1, <3>1
  <2>2. CASE j # c + 1
    <3>1. j \in 1..c
      BY <1>1, <2>2
    <3> QED BY <1>1, <1>2, <3>1
  <2> QED BY <2>1, <2>2
<1> QED BY <1>1, <1>4 DEF Splits, t

\* One byte more, without an escape and with one.
LEMMA SplitsHere ==
    ASSUME NEW loc \in Seq(Nat), NEW m \in Nat, NEW l \in Nat,
           Splits(loc, m, l), Len(loc) = l - m
    PROVE  /\ Splits(loc, m + 1, l + 1)
           /\ Splits(Append(loc, 2 + l), m + 1, l + 2)
<1> DEFINE v == 2 + l
           t == Append(loc, v)
           c == Len(loc)
<1>1. /\ c \in Nat /\ Len(t) = c + 1 /\ t[c + 1] = v /\ \A j \in 1..c : t[j] = loc[j]
      /\ \A j \in 1..c : loc[j] \in Nat
  OBVIOUS
<1>2. \A j \in 1..c : j <= l - m => loc[j] < 1 + m + j
  BY DEF Splits
<1>3. c = l - m
  OBVIOUS
<1> HIDE DEF t, c
<1>4. ASSUME NEW j \in 1..c PROVE loc[j] < 1 + (m + 1) + j
  <2>1. loc[j] < 1 + m + j /\ loc[j] \in Nat
    BY <1>1, <1>2, <1>3
  <2> QED BY <1>1, <2>1
<1>5. Splits(loc, m + 1, l + 1)
  <2>1. (l + 1) - (m + 1) = c
    BY <1>3
  <2>2. \A j \in 1..c : j <= c /\ ~(j > c)
    BY <1>1
  <2> QED BY <1>4, <2>1, <2>2 DEF Splits, c
<1>6. ASSUME NEW j \in 1..(c + 1) PROVE t[j] < 1 + (m + 1) + j
  <2>1. CASE j = c + 1
    <3>1. v < 1 + (m + 1) + (c + 1)
      BY <1>1, <1>3
    <3> QED BY <1>1, <2>1, <3>1
  <2>2. CASE j # c + 1
    <3>1. j \in 1..c
      BY <1>1, <2>2
    <3> QED BY <1>1, <1>4, <3>1
  <2> QED BY <2>1, <2>2
<1>7. Splits(t, m + 1, l + 2)
  <2>1. (l + 2) - (m + 1) = c + 1
    BY <1>3
  <2>2. \A j \in 1..(c + 1) : j <= c + 1 /\ ~(j > c + 1)
    BY <1>1
  <2> QED BY <1>1, <1>6, <2>1, <2>2 DEF Splits
<1> QED BY <1>5, <1>7 DEF t

\* What is written grows by a byte, or by an escape and a byte.
LEMMA PutLength ==
    ASSUME NEW w \in Writing, NEW v \in Nat
    PROVE  Len(Put(w, v).out) = Len(w.out) + (IF w.zeroCount = 2 /\ v <= 3 THEN 2 ELSE 1)
<1>1. w.out \in Seq(Nat)
  BY DEF Writing
<1> DEFINE a == Append(w.out, 3)
           b == Append(a, v)
           c == Append(w.out, v)
<1>2. a \in Seq(Nat) /\ Len(a) = Len(w.out) + 1 /\ Len(c) = Len(w.out) + 1 /\ Len(w.out) \in Nat
  BY <1>1
<1>3. Len(b) = Len(w.out) + 2
  <2> HIDE DEF a
  <2>1. Len(b) = Len(a) + 1
    BY <1>2
  <2> QED BY <1>2, <2>1
<1> HIDE DEF a, b, c
<1>4. Put(w, v) = IF w.zeroCount = 2 /\ v <= 3
                  THEN [out |-> b, zeroCount |-> IF v # 0 THEN 0 ELSE 1]
                  ELSE [out |-> c, zeroCount |-> IF v # 0 THEN 0 ELSE w.zeroCount + 1]
  BY PutAppends DEF a, b, c
<1>5. Put(w, v).out = IF w.zeroCount = 2 /\ v <= 3 THEN b ELSE c
  BY <1>4
<1>6. Len(IF w.zeroCount = 2 /\ v <= 3 THEN b ELSE c)
      = Len(w.out) + (IF w.zeroCount = 2 /\ v <= 3 THEN 2 ELSE 1)
  BY <1>2, <1>3
<1> QED BY <1>5, <1>6

\* A reading r behind n bytes of the payload, and the places it knows.
Placed(r, after, n) ==
    /\ r.pos = 2 + Len(after[n].out)
    /\ Len(r.locations) = Len(after[n].out) - n
    /\ \A m \in 0..n : /\ Len(after[m].out) <= Len(after[n].out)
                       /\ Len(after[m].out) - m <= Len(after[n].out) - n
                       /\ Splits(r.locations, m, Len(after[m].out))

\* One byte of the payload more.
LEMMA PlacedMore ==
    ASSUME NEW after, NEW n \in Nat \ {0}, \A m \in 0..n : after[m] \in Writing,
           NEW r \in Reading, NEW g \in Reading, NEW escape \in BOOLEAN,
           Placed(r, after, n - 1), Follows(g, r, escape),
           Len(after[n].out) = Len(after[n - 1].out) + (IF escape THEN 2 ELSE 1)
    PROVE  Placed(g, after, n)
<1> DEFINE L(m) == Len(after[m].out)
           loc == r.locations
<1>1. /\ r.pos = 2 + L(n - 1) /\ Len(loc) = L(n - 1) - (n - 1)
      /\ \A m \in 0..(n - 1) : /\ L(m) <= L(n - 1) /\ L(m) - m <= L(n - 1) - (n - 1)
                               /\ Splits(loc, m, L(m))
  BY DEF Placed
<1>2. \A m \in 0..n : L(m) \in Nat
  BY DEF Writing
<1>3. /\ g.pos = r.pos + (IF escape THEN 2 ELSE 1)
      /\ g.locations = IF escape THEN Append(loc, r.pos) ELSE loc
  BY DEF Follows
<1>4. loc \in Seq(Nat) /\ r.pos \in Nat
  BY DEF Reading
<1>5. L(n) = L(n - 1) + (IF escape THEN 2 ELSE 1)
  OBVIOUS
<1>6. n - 1 \in 0..n /\ n \in 0..n /\ n - 1 \in 0..(n - 1) /\ n - 1 \in Nat /\ (n - 1) + 1 = n
  OBVIOUS
<1>7. L(n) \in Nat /\ L(n - 1) \in Nat /\ Splits(loc, n - 1, L(n - 1))
  BY <1>1, <1>2, <1>6
<1> HIDE DEF L, loc
<1>8. g.pos = 2 + L(n)
  BY <1>1, <1>3, <1>5, <1>7
<1>9. Len(g.locations) = L(n) - n
  <2>1. Len(Append(loc, r.pos)) = Len(loc) + 1
    BY <1>4
  <2> QED BY <1>1, <1>3, <1>5, <1>7, <2>1
<1>10. ASSUME NEW m \in 0..n
       PROVE  L(m) <= L(n) /\ L(m) - m <= L(n) - n /\ Splits(g.locations, m, L(m))
  <2>1. CASE m = n
    <3>1. /\ Splits(loc, (n - 1) + 1, L(n - 1) + 1)
          /\ Splits(Append(loc, 2 + L(n - 1)), (n - 1) + 1, L(n - 1) + 2)
      BY <1>1, <1>4, <1>6, <1>7, SplitsHere
    <3>2. Splits(g.locations, n, L(n))
      BY <1>1, <1>3, <1>5, <1>6, <3>1
    <3> QED BY <1>7, <2>1, <3>2
  <2>2. CASE m # n
    <3>1. m \in 0..(n - 1) /\ m \in Nat
      BY <2>2
    <3>2. L(m) <= L(n - 1) /\ L(m) - m <= L(n - 1) - (n - 1) /\ Splits(loc, m, L(m)) /\ L(m) \in Nat
      BY <1>1, <1>2, <3>1
    <3>3. L(m) <= L(n) /\ L(m) - m <= L(n) - n
      BY <1>5, <1>7, <3>1, <3>2
    <3>4. r.pos >= 2 + L(m) /\ Len(loc) >= L(m) - m
      BY <1>1, <1>7, <3>1, <3>2
    <3>5. Splits(Append(loc, r.pos), m, L(m))
      BY <1>4, <3>1, <3>2, <3>4, SplitsMore
    <3> QED BY <1>3, <3>2, <3>3, <3>5
  <2> QED BY <2>1, <2>2
<1> QED BY <1>8, <1>9, <1>10 DEF Placed, L

\* The reader is behind each byte of the payload where the writer was.
LEMMA PayloadPlaced ==
    ASSUME NEW h \in Seq(Nat), Through(Got(h), 0), Got(h).pos = 2, Got(h).locations = <<>>,
           NEW p \in Seq(Nat), NEW after, WrittenSteps(after, p)
    PROVE  \A n \in 0..Len(p) : Placed(Got(h \o after[n].out), after, n)
<1> DEFINE N == Len(p)
           now(n) == Got(h \o after[n].out)
           S == {n \in 0..N : Placed(now(n), after, n)}
<1>1. N \in Nat /\ p \in [1..N -> Nat]
  OBVIOUS
<1>2. /\ after[0] = NothingPut /\ \A n \in 1..N : after[n] = Put(after[n - 1], p[n])
      /\ \A n \in 0..N : after[n] \in Writing
  BY DEF WrittenSteps
<1>3. \A n \in 0..N : Through(now(n), after[n].zeroCount)
  BY PayloadSteps
<1>4. \A n \in 0..N : now(n) \in Reading
  <2>1. ASSUME NEW n \in 0..N PROVE now(n) \in Reading
    <3>1. after[n].out \in Seq(Nat)
      BY <1>2 DEF Writing
    <3>2. h \o after[n].out \in Seq(Nat)
      BY <3>1, Joined
    <3> QED BY <3>2, GotType
  <2> HIDE DEF now
  <2> QED BY <2>1
<1>5. 0 \in S
  <2>1. after[0].out = <<>> /\ Len(<<>>) = 0 /\ Len(after[0].out) = 0
    BY <1>2 DEF NothingPut
  <2>2. h \o <<>> = h
    OBVIOUS
  <2>3. now(0) = Got(h)
    BY <2>1, <2>2
  <2>4. Splits(<<>>, 0, 0)
    BY <2>1 DEF Splits
  <2>5. \A m \in 0..0 : m = 0
    OBVIOUS
  <2> HIDE DEF now
  <2>6. Placed(now(0), after, 0)
    BY <2>1, <2>3, <2>4, <2>5 DEF Placed
  <2> QED BY <1>1, <2>6
<1>6. ASSUME NEW n \in 1..N, n - 1 \in S PROVE n \in S
  <2> DEFINE w == after[n - 1]
             escape == w.zeroCount = 2 /\ p[n] <= 3
  <2>1. p[n] \in Nat /\ n - 1 \in 0..N /\ n \in 0..N /\ n \in Nat \ {0}
        /\ \A m \in 0..n : m \in 0..N
    BY <1>1
  <2>2. w \in Writing /\ after[n] = Put(w, p[n])
    BY <1>2, <2>1
  <2>3. Through(Got(h \o w.out), w.zeroCount)
    BY <1>3, <2>1
  <2> HIDE DEF w
  <2>4. Follows(Got(h \o Put(w, p[n]).out), Got(h \o w.out), w.zeroCount = 2 /\ p[n] <= 3)
    BY <2>1, <2>2, <2>3, PutRead
  <2>5. Follows(now(n), now(n - 1), escape)
    BY <2>2, <2>4 DEF w
  <2>6. Len(after[n].out) = Len(after[n - 1].out) + (IF escape THEN 2 ELSE 1)
    <3>1. Len(Put(w, p[n]).out) = Len(w.out) + (IF w.zeroCount = 2 /\ p[n] <= 3 THEN 2 ELSE 1)
      BY <2>1, <2>2, PutLength
    <3> QED BY <2>2, <3>1 DEF w
  <2>7. escape \in BOOLEAN
    OBVIOUS
  <2>8. Placed(now(n - 1), after, n - 1)
    BY <1>6
  <2>9. now(n) \in Reading /\ now(n - 1) \in Reading /\ \A m \in 0..n : after[m] \in Writing
    BY <1>2, <1>4, <2>1
  <2> HIDE DEF now, escape
  <2>10. Placed(now(n), after, n)
    BY <2>1, <2>5, <2>6, <2>7, <2>8, <2>9, PlacedMore
  <2> QED BY <2>1, <2>10
<1> HIDE DEF S
<1>7. 0..N \subseteq S
  BY <1>1, <1>5, <1>6, InductionTo
<1> QED BY <1>7 DEF S

\* What is read of a string is read of its continuation first.
LEMMA GotPrefix ==
    ASSUME NEW s \in Seq(Nat), NEW t \in Seq(Nat), Len(s) <= Len(t),
           \A n \in 1..Len(s) : t[n] = s[n], NEW g, ReadSteps(g, t)
    PROVE  g[Len(s)] = Got(s)
<1> DEFINE N == Len(s)
           M == Len(t)
<1>1. N \in Nat /\ M \in Nat /\ N <= M /\ \A n \in 1..N : t[n] = s[n]
  OBVIOUS
<1>2. PICK f : ReadSteps(f, s) /\ Got(s) = f[Len(s)]
  BY GotSteps
<1>3. /\ f[0] = NothingGot /\ g[0] = NothingGot
      /\ \A n \in 1..N : f[n] = Get(f[n - 1], s[n])
      /\ \A n \in 1..M : g[n] = Get(g[n - 1], t[n])
      /\ Got(s) = f[N]
  BY <1>2 DEF ReadSteps
<1> HIDE DEF N, M
<1> DEFINE S == {n \in 0..N : g[n] = f[n]}
<1>4. 0 \in S
  BY <1>1, <1>3
<1>5. ASSUME NEW n \in 1..N, n - 1 \in S PROVE n \in S
  <2>1. n \in 1..M /\ n \in 0..N
    BY <1>1
  <2>2. g[n - 1] = f[n - 1] /\ t[n] = s[n]
    BY <1>1, <1>5
  <2>3. g[n] = f[n]
    BY <1>3, <2>1, <2>2
  <2> QED BY <2>1, <2>3
<1> HIDE DEF S
<1>6. 0..N \subseteq S
  BY <1>1, <1>4, <1>5, InductionTo
<1>7. N \in 0..N
  BY <1>1
<1> QED BY <1>3, <1>6, <1>7 DEF S, N

\* A reading r at least n bytes of the payload far.
Beyond(r, after, n) ==
    /\ r.pos >= 2 + Len(after[n].out)
    /\ Len(r.locations) >= Len(after[n].out) - n
    /\ \A m \in 0..n : /\ Len(after[m].out) <= Len(after[n].out)
                       /\ Len(after[m].out) - m <= Len(after[n].out) - n
                       /\ Splits(r.locations, m, Len(after[m].out))

\* One byte behind the payload.
LEMMA BeyondMore ==
    ASSUME NEW after, NEW n \in Nat, \A m \in 0..n : after[m] \in Writing,
           NEW r \in Reading, NEW v \in Nat, Beyond(r, after, n)
    PROVE  Beyond(Get(r, v), after, n)
<1> DEFINE L(m) == Len(after[m].out)
           loc == r.locations
           g == Get(r, v)
<1>1. /\ r.pos >= 2 + L(n) /\ Len(loc) >= L(n) - n
      /\ \A m \in 0..n : L(m) <= L(n) /\ L(m) - m <= L(n) - n /\ Splits(loc, m, L(m))
  BY DEF Beyond
<1>2. \A m \in 0..n : L(m) \in Nat
  BY DEF Writing
<1>3. g.pos = r.pos + 1 /\ (g.locations = loc \/ g.locations = Append(loc, r.pos))
  BY GetPlaces
<1>4. loc \in Seq(Nat) /\ r.pos \in Nat /\ Len(loc) \in Nat
      /\ Len(Append(loc, r.pos)) = Len(loc) + 1
  <2>1. loc \in Seq(Nat) /\ r.pos \in Nat
    BY DEF Reading
  <2> HIDE DEF loc
  <2> QED BY <2>1
<1>5. n \in 0..n /\ L(n) \in Nat
  <2>1. n \in 0..n
    OBVIOUS
  <2> QED BY <1>2, <2>1
<1> HIDE DEF L, loc, g
<1>6. g.pos >= 2 + L(n) /\ Len(g.locations) >= L(n) - n
  BY <1>1, <1>3, <1>4, <1>5
<1>7. ASSUME NEW m \in 0..n PROVE Splits(g.locations, m, L(m))
  <2>1. m \in Nat /\ L(m) \in Nat /\ L(m) <= L(n) /\ L(m) - m <= L(n) - n /\ Splits(loc, m, L(m))
    BY <1>1, <1>2
  <2>2. r.pos >= 2 + L(m) /\ Len(loc) >= L(m) - m
    BY <1>1, <1>4, <1>5, <2>1
  <2>3. Splits(Append(loc, r.pos), m, L(m))
    BY <1>4, <2>1, <2>2, SplitsMore
  <2> QED BY <1>3, <2>1, <2>3
<1> QED BY <1>1, <1>6, <1>7 DEF Beyond, L, g

\* What is read behind the payload leaves that as it is.
LEMMA BeyondAll ==
    ASSUME NEW after, NEW n \in Nat, \A m \in 0..n : after[m] \in Writing,
           NEW s \in Seq(Nat), NEW z \in Seq(Nat), Beyond(Got(s), after, n)
    PROVE  Beyond(Got(s \o z), after, n)
<1> DEFINE t == s \o z
           a == Len(s)
           N == Len(z)
<1>1. /\ t \in Seq(Nat) /\ Len(t) = a + N /\ a \in Nat /\ N \in Nat
      /\ \A i \in 1..a : t[i] = s[i]
  BY Joined
<1>2. PICK g : ReadSteps(g, t) /\ Got(t) = g[Len(t)]
  BY <1>1, GotSteps
<1>3. g[a] = Got(s)
  <2>1. Len(s) <= Len(t)
    BY <1>1
  <2> HIDE DEF t
  <2> QED BY <1>1, <1>2, <2>1, GotPrefix
<1>4. /\ \A i \in 0..(a + N) : g[i] \in Reading
      /\ \A i \in 1..(a + N) : g[i] = Get(g[i - 1], t[i])
  BY <1>1, <1>2 DEF ReadSteps
<1>5. \A i \in 1..(a + N) : t[i] \in Nat
  <2> HIDE DEF t, a, N
  <2> QED BY <1>1
<1> HIDE DEF t, a, N
<1> DEFINE S == {i \in 0..N : Beyond(g[a + i], after, n)}
<1>6. 0 \in S
  <2>1. a + 0 = a /\ 0 \in 0..N
    BY <1>1
  <2> QED BY <1>3, <2>1
<1>7. ASSUME NEW i \in 1..N, i - 1 \in S PROVE i \in S
  <2>1. a + i \in 1..(a + N) /\ a + (i - 1) \in 0..(a + N) /\ (a + i) - 1 = a + (i - 1)
        /\ i \in 0..N
    BY <1>1
  <2> DEFINE r == g[a + (i - 1)]
             v == t[a + i]
  <2>2. r \in Reading /\ v \in Nat /\ g[a + i] = Get(r, v)
    BY <1>4, <1>5, <2>1
  <2>3. Beyond(r, after, n)
    BY <1>7
  <2> HIDE DEF r, v
  <2>4. Beyond(Get(r, v), after, n)
    BY <2>2, <2>3, BeyondMore
  <2> QED BY <2>1, <2>2, <2>4
<1> HIDE DEF S
<1>8. 0..N \subseteq S
  BY <1>1, <1>6, <1>7, InductionTo
<1>9. N \in 0..N
  BY <1>1
<1>10. Beyond(g[a + N], after, n)
  BY <1>8, <1>9 DEF S
<1> QED BY <1>1, <1>2, <1>10 DEF t
-----------------------------------------------------------------------------
(* Entry points, read. *)

\* The search for the end of the slice header goes behind the escapes in it.
LEMMA HeaderEnds ==
    ASSUME NEW loc \in Seq(Nat), NEW m \in Nat, NEW l \in Nat, l >= m,
           Splits(loc, m, l), Len(loc) >= l - m
    PROVE  EndOfSliceHeader(loc, 2 + m) = 2 + l
<1> DEFINE N == Len(loc)
           first == 2 + m
           c == l - m
           f == [n \in 0..N |-> first + (IF n <= c THEN n ELSE c)]
           end[n \in 0..N] ==
               IF n = 0 THEN first ELSE end[n - 1] + (IF loc[n] < end[n - 1] THEN 1 ELSE 0)
<1>1. /\ N \in Nat /\ c \in Nat /\ first \in Nat /\ c <= N /\ first + c = 2 + l
      /\ first = 2 + m /\ l = m + c /\ \A n \in 1..N : loc[n] \in Nat
  OBVIOUS
<1>2. \A j \in 1..N : (j <= c => loc[j] < 1 + m + j) /\ (j > c => loc[j] >= 2 + l)
  BY DEF Splits
<1>3. EndOfSliceHeader(loc, first) = end[N]
  BY Zenon DEF EndOfSliceHeader
<1> HIDE DEF N, first, c
<1>4. ASSUME NEW n \in 1..N PROVE f[n] = f[n - 1] + (IF loc[n] < f[n - 1] THEN 1 ELSE 0)
  <2>1. n \in 0..N /\ n - 1 \in 0..N
    BY <1>1
  <2>2. CASE n <= c
    <3>1. f[n] = first + n /\ f[n - 1] = first + (n - 1)
      BY <1>1, <2>1, <2>2
    <3>2. loc[n] < 1 + m + n /\ loc[n] \in Nat
      BY <1>1, <1>2, <2>2
    <3>3. loc[n] < first + (n - 1)
      BY <1>1, <3>2
    <3> HIDE DEF f
    <3> QED BY <1>1, <3>1, <3>3
  <2>3. CASE n > c
    <3>1. f[n] = first + c /\ f[n - 1] = first + c
      BY <1>1, <2>1, <2>3
    <3>2. loc[n] >= 2 + l /\ loc[n] \in Nat
      BY <1>1, <1>2, <2>3
    <3>3. ~(loc[n] < first + c)
      BY <1>1, <3>2
    <3> HIDE DEF f
    <3> QED BY <1>1, <3>1, <3>3
  <2> QED BY <1>1, <2>2, <2>3
<1>5. f[0] = first /\ f[N] = first + c
  BY <1>1
<1>6. f = [n \in 0..N |-> f[n]]
  OBVIOUS
<1> HIDE DEF f
<1>7. f = [n \in 0..N |-> IF n = 0 THEN first
                         ELSE f[n - 1] + (IF loc[n] < f[n - 1] THEN 1 ELSE 0)]
  <2>1. \A n \in 0..N : n = 0 \/ n \in 1..N
    BY <1>1
  <2> QED BY <1>4, <1>5, <1>6, <2>1
<1>8. end = [n \in 0..N |-> IF n = 0 THEN first
                           ELSE end[n - 1] + (IF loc[n] < end[n - 1] THEN 1 ELSE 0)]
  BY <1>7
<1> HIDE DEF end
<1> DEFINE S == {n \in 0..N : end[n] = f[n]}
<1>9. 0 \in S
  BY <1>1, <1>5, <1>8
<1>10. ASSUME NEW n \in 1..N, n - 1 \in S PROVE n \in S
  <2>1. n \in 0..N /\ n # 0
    BY <1>1
  <2>2. end[n] = end[n - 1] + (IF loc[n] < end[n - 1] THEN 1 ELSE 0)
    BY <1>8, <2>1
  <2> QED BY <1>4, <1>10, <2>1, <2>2
<1> HIDE DEF S
<1>11. 0..N \subseteq S
  BY <1>1, <1>9, <1>10, InductionTo
<1>12. end[N] = f[N]
  <2>1. N \in 0..N
    BY <1>1
  <2> QED BY <1>11, <2>1 DEF S
<1> QED BY <1>1, <1>3, <1>5, <1>12 DEF first

\* The ends of the substreams, when their sizes are known.
LEMMA EndsAre ==
    ASSUME NEW entries, Len(entries) \in Nat, NEW first,
           NEW f, f = [n \in 0..Len(entries) |-> f[n]], f[0] = first,
           \A n \in 1..Len(entries) : f[n] = f[n - 1] + entries[n]
    PROVE  SubstreamEnds(entries, first) = f
<1> DEFINE N == Len(entries)
           ends[n \in 0..N] == IF n = 0 THEN first ELSE ends[n - 1] + entries[n]
<1>1. SubstreamEnds(entries, first) = ends
  BY Zenon DEF SubstreamEnds
<1>2. /\ N \in Nat /\ f = [n \in 0..N |-> f[n]] /\ f[0] = first
      /\ \A n \in 1..N : f[n] = f[n - 1] + entries[n]
  OBVIOUS
<1> HIDE DEF N
<1>3. f = [n \in 0..N |-> IF n = 0 THEN first ELSE f[n - 1] + entries[n]]
  <2>1. \A n \in 0..N : n = 0 \/ n \in 1..N
    BY <1>2
  <2> QED BY <1>2, <2>1
<1>4. ends = [n \in 0..N |-> IF n = 0 THEN first ELSE ends[n - 1] + entries[n]]
  BY <1>3
<1> HIDE DEF ends
<1> DEFINE S == {n \in 0..N : ends[n] = f[n]}
<1>5. 0 \in S
  BY <1>2, <1>4
<1>6. ASSUME NEW n \in 1..N, n - 1 \in S PROVE n \in S
  <2>1. n \in 0..N /\ n # 0
    BY <1>2
  <2>2. ends[n] = ends[n - 1] + entries[n]
    BY <1>4, <2>1
  <2> QED BY <1>2, <1>6, <2>1, <2>2
<1> HIDE DEF S
<1>7. 0..N \subseteq S
  BY <1>2, <1>5, <1>6, InductionTo
<1>8. \A n \in 0..N : ends[n] = f[n]
  BY <1>7 DEF S
<1>9. ends = [n \in 0..N |-> ends[n]]
  BY <1>4
<1> QED BY <1>1, <1>2, <1>8, <1>9

\* The escapes between two ends are those that the writer put there.
LEMMA EscapesInside ==
    ASSUME NEW loc \in Seq(Nat), NEW a \in Nat, NEW la \in Nat, NEW b \in Nat, NEW lb \in Nat,
           Splits(loc, a, la), Splits(loc, b, lb), a <= la, la - a <= lb - b, lb - b <= Len(loc)
    PROVE  Cardinality({k \in DOMAIN loc : loc[k] >= 2 + la /\ loc[k] < 2 + lb})
           = (lb - b) - (la - a)
<1> DEFINE N == Len(loc)
           T == {k \in DOMAIN loc : loc[k] >= 2 + la /\ loc[k] < 2 + lb}
           c == la - a
           d == lb - b
<1>1. /\ N \in Nat /\ DOMAIN loc = 1..N /\ c \in Nat /\ d \in Nat /\ c <= d /\ d <= N
      /\ la = a + c /\ lb = b + d /\ \A k \in 1..N : loc[k] \in Nat
  OBVIOUS
<1>2. /\ \A j \in 1..N : (j <= c => loc[j] < 1 + a + j) /\ (j > c => loc[j] >= 2 + la)
      /\ \A j \in 1..N : (j <= d => loc[j] < 1 + b + j) /\ (j > d => loc[j] >= 2 + lb)
  BY DEF Splits
<1> HIDE DEF N, c, d
<1>3. ASSUME NEW k \in 1..N PROVE (loc[k] >= 2 + la /\ loc[k] < 2 + lb) <=> k \in (c + 1)..d
  <2>1. loc[k] \in Nat /\ k \in Nat
    BY <1>1
  <2>2. CASE k <= c
    <3>1. loc[k] < 1 + a + k
      BY <1>2, <2>2
    <3> QED BY <1>1, <2>1, <2>2, <3>1
  <2>3. CASE k > d
    <3>1. loc[k] >= 2 + lb
      BY <1>2, <2>3
    <3> QED BY <1>1, <2>1, <2>3, <3>1
  <2>4. CASE k > c /\ k <= d
    <3>1. loc[k] >= 2 + la /\ loc[k] < 1 + b + k
      BY <1>2, <2>4
    <3> QED BY <1>1, <2>1, <2>4, <3>1
  <2> QED BY <1>1, <2>1, <2>2, <2>3, <2>4
<1>4. T = (c + 1)..d
  <2>1. (c + 1)..d \subseteq 1..N
    BY <1>1
  <2> QED BY <1>1, <1>3, <2>1
<1>5. Cardinality((c + 1)..d) = IF c + 1 > d THEN 0 ELSE d - (c + 1) + 1
  <2>1. c + 1 \in Int /\ d \in Int
    BY <1>1
  <2> QED BY <2>1, FS_Interval
<1> HIDE DEF T
<1>6. Cardinality(T) = d - c
  <2> DEFINE x == Cardinality((c + 1)..d)
  <2>1. x = IF c + 1 > d THEN 0 ELSE d - (c + 1) + 1
    BY <1>5
  <2>2. Cardinality(T) = x
    BY <1>4
  <2> HIDE DEF x
  <2>3. c \in Nat /\ d \in Nat /\ c <= d
    BY <1>1
  <2>4. x = d - c
    BY ONLY <2>1, <2>3
  <2> QED BY <2>2, <2>4
<1> QED BY <1>6 DEF T, c, d
-----------------------------------------------------------------------------
(* The substreams in the bytes of a unit. *)

\* Behind a byte that is not zero, no zeros are counted.
LEMMA ZeroBehind ==
    ASSUME NEW p \in Seq(Nat), NEW after, WrittenSteps(after, p), NEW n \in 0..Len(p),
           n > 0 => p[n] # 0
    PROVE  after[n].zeroCount = 0
<1>1. /\ after[0] = NothingPut /\ \A j \in 1..Len(p) : after[j] = Put(after[j - 1], p[j])
  BY DEF WrittenSteps
<1>2. CASE n = 0
  BY <1>1, <1>2 DEF NothingPut
<1>3. CASE n # 0
  <2>1. n \in 1..Len(p) /\ p[n] # 0
    BY <1>3
  <2> DEFINE w == after[n - 1]
             v == p[n]
  <2>2. after[n] = Put(w, v) /\ v # 0
    BY <1>1, <2>1
  <2> HIDE DEF w, v
  <2>3. Put(w, v).zeroCount = 0
    BY <2>2, Zenon DEF Put
  <2> QED BY <2>2, <2>3
<1> QED BY <1>2, <1>3

\* A part of the payload grows by as many bytes as the encoder counts in it.
LEMMA SegmentWritten ==
    ASSUME NEW p \in Seq(Nat), NEW after, WrittenSteps(after, p), NEW a \in Nat,
           NEW q \in Seq(Nat), a + Len(q) <= Len(p), \A k \in 1..Len(q) : p[a + k] = q[k],
           after[a].zeroCount = 0
    PROVE  /\ countStartCodeEmulations(q) \in Nat
           /\ Len(after[a + Len(q)].out)
              = Len(after[a].out) + Len(q) + countStartCodeEmulations(q)
<1> DEFINE N == Len(q)
           M == Len(p)
           V == [n \in 0..N |-> after[a + n]]
<1>1. /\ N \in Nat /\ M \in Nat /\ a + N <= M /\ \A k \in 1..N : p[a + k] = q[k]
  OBVIOUS
<1>2. /\ \A n \in 0..M : after[n] \in Writing
      /\ \A n \in 1..M : after[n] = Put(after[n - 1], p[n])
  BY DEF WrittenSteps
<1> HIDE DEF N, M
<1>3. V \in [0..N -> Writing]
  <2>1. \A n \in 0..N : a + n \in 0..M
    BY <1>1
  <2> QED BY <1>2, <2>1
<1>4. V[0] = after[a] /\ V[N] = after[a + N]
  <2>1. 0 \in 0..N /\ N \in 0..N /\ a + 0 = a
    BY <1>1
  <2> QED BY <2>1
<1>5. ASSUME NEW n \in 1..N PROVE V[n] = Put(V[n - 1], q[n])
  <2>1. n \in 0..N /\ n - 1 \in 0..N /\ a + n \in 1..M /\ (a + n) - 1 = a + (n - 1)
    BY <1>1
  <2>2. V[n] = after[a + n] /\ V[n - 1] = after[a + (n - 1)] /\ p[a + n] = q[n]
    BY <1>1, <2>1
  <2>3. after[a + n] = Put(after[a + (n - 1)], p[a + n])
    BY <1>2, <2>1
  <2> QED BY <2>2, <2>3
<1> HIDE DEF V
<1>6. SegmentSteps(V, q) /\ V[0].zeroCount = 0
  BY <1>3, <1>4, <1>5 DEF SegmentSteps, N
<1>7. /\ countStartCodeEmulations(q) \in Nat
      /\ Len(V[N].out) = Len(V[0].out) + N + countStartCodeEmulations(q)
  BY <1>6, SegmentCount DEF N
<1> QED BY <1>4, <1>7 DEF N

\* Where the payload of u is cut, and what has been written at each byte of it.
Cut(u, pre, after) ==
    /\ JoinSteps(pre, u.syntax, u.subs)
    /\ pre[Len(u.subs)] = Payload(u)
    /\ WrittenSteps(after, Payload(u))

LEMMA CutExists ==
    ASSUME NEW u \in Units
    PROVE  \E pre, after : Cut(u, pre, after)
<1>1. u.syntax \in Seq(Nat) /\ u.subs \in Seq(Seq(Nat)) /\ Payload(u) \in Seq(Nat)
  BY UnitType, PayloadType
<1>2. PICK pre : JoinSteps(pre, u.syntax, u.subs) /\ pre[Len(u.subs)] = Payload(u)
  BY <1>1, JoinsExist DEF Payload
<1>3. PICK after : WrittenSteps(after, Payload(u))
  BY <1>1, EscapedSteps
<1> QED BY <1>2, <1>3 DEF Cut

\* No part of a payload ends in a zero.
LEMMA CutEnded ==
    ASSUME NEW u \in Units, NEW pre, NEW after, Cut(u, pre, after)
    PROVE  /\ \A n \in 0..Len(u.subs) : /\ pre[n] \in Seq(Nat) /\ Ended(pre[n])
                                        /\ Starts(pre[n], Payload(u))
           /\ Ended(Payload(u))
<1> DEFINE M == Len(u.subs)
<1>1. u.syntax \in Seq(Nat) /\ u.subs \in Seq(Seq(Nat)) /\ M \in Nat
  BY UnitType
<1>2. Ended(u.syntax) /\ \A i \in 1..M : Ended(u.subs[i])
  BY UnitEnded
<1>3. JoinSteps(pre, u.syntax, u.subs) /\ pre[M] = Payload(u)
  BY DEF Cut
<1>4. \A n \in 0..M : pre[n] \in Seq(Nat)
  BY <1>3 DEF JoinSteps
<1>5. \A n \in 0..M : Ended(pre[n])
  BY <1>1, <1>2, <1>3, JoinEnded
<1>6. \A n \in 0..M : Starts(pre[n], pre[M])
  <2>1. ASSUME NEW n \in 0..M PROVE Starts(pre[n], pre[M])
    <3>1. M \in n..M
      BY <1>1
    <3> QED BY <1>1, <1>3, <3>1, JoinStarts
  <2> QED BY <2>1
<1>7. M \in 0..M
  BY <1>1
<1> QED BY <1>3, <1>4, <1>5, <1>6, <1>7

\* Substream i in the payload, and the escapes that it got.
Spanned(u, pre, after, i) ==
    LET a == Len(pre[i - 1])
        q == u.subs[i]
    IN  /\ a \in Nat /\ q \in Seq(Nat)
        /\ Len(pre[i]) = a + Len(q) /\ a + Len(q) <= Len(Payload(u))
        /\ \A k \in 1..Len(q) : Payload(u)[a + k] = q[k]
        /\ countStartCodeEmulations(q) \in Nat
        /\ Len(after[a + Len(q)].out)
           = Len(after[a].out) + Len(q) + countStartCodeEmulations(q)

LEMMA SubstreamSpan ==
    ASSUME NEW u \in Units, NEW pre, NEW after, Cut(u, pre, after), NEW i \in 1..Len(u.subs)
    PROVE  Spanned(u, pre, after, i)
<1> DEFINE M == Len(u.subs)
           p == Payload(u)
           a == Len(pre[i - 1])
           q == u.subs[i]
           b == pre[i - 1]
           c == pre[i]
<1>1. u.subs \in Seq(Seq(Nat)) /\ M \in Nat /\ q \in Seq(Nat) /\ p \in Seq(Nat)
  BY UnitType, PayloadType
<1>2. i \in 0..M /\ i - 1 \in 0..M
  BY <1>1
<1>3. /\ b \in Seq(Nat) /\ c \in Seq(Nat) /\ Ended(b) /\ Starts(b, p) /\ Starts(c, p)
  BY <1>2, CutEnded
<1>4. c = b \o q
  BY DEF Cut, JoinSteps
<1>5. WrittenSteps(after, p)
  BY DEF Cut
<1> HIDE DEF b, c, p, q
<1>6. /\ Len(c) = Len(b) + Len(q) /\ \A k \in 1..Len(b) : c[k] = b[k]
      /\ \A k \in (Len(b) + 1)..(Len(b) + Len(q)) : c[k] = q[k - Len(b)]
  BY <1>1, <1>3, <1>4, Joined
<1>7. Len(b) \in Nat /\ Len(q) \in Nat /\ Len(p) \in Nat
  BY <1>1, <1>3
<1>8. /\ Len(c) <= Len(p) /\ \A k \in 1..Len(c) : p[k] = c[k]
      /\ Len(b) <= Len(p) /\ \A k \in 1..Len(b) : p[k] = b[k]
  BY <1>3 DEF Starts
<1>9. a = Len(b)
  BY DEF b
<1> HIDE DEF a
<1>10. ASSUME NEW k \in 1..Len(q) PROVE p[a + k] = q[k]
  <2>1. a + k \in 1..Len(c) /\ a + k \in (Len(b) + 1)..(Len(b) + Len(q)) /\ (a + k) - Len(b) = k
    BY <1>6, <1>7, <1>9
  <2> QED BY <1>6, <1>8, <2>1
<1>11. a + Len(q) <= Len(p) /\ a \in Nat
  BY <1>6, <1>7, <1>8, <1>9
<1>12. after[a].zeroCount = 0
  <2>1. a \in 0..Len(p)
    BY <1>7, <1>8, <1>9
  <2>2. a > 0 => p[a] # 0
    <3>1. a > 0 => a \in 1..Len(b)
      BY <1>7, <1>9
    <3> QED BY <1>3, <1>8, <1>9, <3>1 DEF Ended
  <2> QED BY <1>1, <1>5, <2>1, <2>2, ZeroBehind
<1>13. /\ countStartCodeEmulations(q) \in Nat
       /\ Len(after[a + Len(q)].out)
          = Len(after[a].out) + Len(q) + countStartCodeEmulations(q)
  BY <1>1, <1>5, <1>10, <1>11, <1>12, SegmentWritten
<1>14. Len(c) = a + Len(q)
  BY <1>6, <1>9
<1> QED BY <1>1, <1>10, <1>11, <1>13, <1>14 DEF a, b, c, p, q, Spanned

\* A unit's payload: where its syntax and its substreams end (at), and how far
\* the writer is there (to); loc are the places of the escapes.
Spans(u, loc, at, to) ==
    LET M == Len(u.subs)
        step(i, q) == /\ at[i] = at[i - 1] + Len(q)
                      /\ countStartCodeEmulations(q) \in Nat
                      /\ to[i] = to[i - 1] + Len(q) + countStartCodeEmulations(q)
                      /\ \A k \in 1..Len(q) : Payload(u)[at[i - 1] + k] = q[k]
    IN  /\ loc \in Seq(Nat)
        /\ at \in [0..M -> Nat] /\ to \in [0..M -> Nat]
        /\ at[0] = Len(u.syntax) /\ at[M] = Len(Payload(u))
        /\ \A i \in 0..M : /\ to[i] >= at[i] /\ to[i] - at[i] <= Len(loc)
                           /\ Splits(loc, at[i], to[i])
                           /\ at[0] <= at[i] /\ at[i] <= at[M]
        /\ \A i \in 1..M : step(i, u.subs[i])

\* The reader knows where each byte of the payload stands among the escapes.
LEMMA PlacesRead ==
    ASSUME NEW u \in Units, NEW after, WrittenSteps(after, Payload(u))
    PROVE  LET loc == read(Written(u)).locations IN
           /\ loc \in Seq(Nat)
           /\ \A m \in 0..Len(Payload(u)) :
                /\ Len(after[m].out) \in Nat
                /\ Splits(loc, m, Len(after[m].out))
                /\ Len(after[m].out) - m <= Len(loc)
<1> DEFINE p == Payload(u)
           N == Len(p)
           h == NalUnitHeader(u.type)
           z == ZeroWords(u.zeroWords)
           s == h \o Escaped(p)
           loc == read(Written(u)).locations
<1>1. p \in Seq(Nat) /\ N \in Nat /\ u.type \in Nat /\ u.zeroWords \in Nat
  BY PayloadType, UnitType
<1>2. /\ h \in Seq(Nat) /\ Through(Got(h), 0) /\ Got(h).pos = 2 /\ Got(h).locations = <<>>
  BY <1>1, HeaderRead
<1>3. z \in Seq(Nat)
  BY <1>1, ZeroWordsClean
<1>4. Ended(p) /\ after[N].zeroCount = 0 /\ Escaped(p) = after[N].out
  BY <1>1, PayloadEnded, EscapedEnds
<1>5. Written(u) = s \o z
  BY DEF Written, Payload
<1>6. loc = Got(Written(u)).locations
  BY UnitsRead
<1>7. \A m \in 0..N : after[m] \in Writing
  BY DEF WrittenSteps
<1>8. \A n \in 0..N : Placed(Got(h \o after[n].out), after, n)
  <2> HIDE DEF h, p
  <2> QED BY <1>1, <1>2, PayloadPlaced DEF p
<1>9. s \in Seq(Nat)
  BY <1>1, <1>2, EscapedClean, Joined
<1>10. s = h \o after[N].out
  BY <1>4
<1> HIDE DEF s, h, z, p, N, loc
<1>11. Beyond(Got(s), after, N)
  <2>1. Placed(Got(s), after, N)
    BY <1>1, <1>8, <1>10
  <2> DEFINE r == Got(s)
             n == Len(after[N].out)
  <2>2. r.pos = 2 + n /\ Len(r.locations) = n - N
    BY <2>1 DEF Placed
  <2>3. n \in Nat /\ N \in 0..N
    BY <1>1, <1>7 DEF Writing
  <2>4. r.pos >= 2 + n /\ Len(r.locations) >= n - N
    BY <1>1, <2>2, <2>3
  <2> HIDE DEF n, r
  <2>5. \A m \in 0..N : /\ Len(after[m].out) <= Len(after[N].out)
                        /\ Len(after[m].out) - m <= Len(after[N].out) - N
                        /\ Splits(r.locations, m, Len(after[m].out))
    BY <2>1, Zenon DEF Placed, r
  <2> QED BY <2>4, <2>5 DEF Beyond, r, n
<1>12. Beyond(Got(s \o z), after, N)
  BY <1>1, <1>3, <1>7, <1>9, <1>11, BeyondAll
<1>13. loc \in Seq(Nat)
  <2>1. s \o z \in Seq(Nat)
    BY <1>3, <1>9, Joined
  <2>2. Got(s \o z) \in Reading
    BY <2>1, GotType
  <2> QED BY <1>5, <1>6, <2>2 DEF Reading
<1>14. /\ Len(loc) >= Len(after[N].out) - N
       /\ \A m \in 0..N : /\ Len(after[m].out) - m <= Len(after[N].out) - N
                          /\ Splits(loc, m, Len(after[m].out))
  BY <1>5, <1>6, <1>12 DEF Beyond
<1>15. \A m \in 0..N : Len(after[m].out) \in Nat
  BY <1>7 DEF Writing
<1>16. \A m \in 0..N : Len(after[m].out) - m <= Len(loc)
  <2> TAKE m \in 0..N
  <2> DEFINE a == Len(after[m].out)
             b == Len(after[N].out)
             c == Len(loc)
  <2>1. c >= b - N /\ a - m <= b - N
    BY <1>14
  <2>2. a \in Nat /\ b \in Nat /\ c \in Nat /\ N \in Nat /\ m \in Int
    BY <1>1, <1>13, <1>15
  <2> HIDE DEF a, b, c
  <2>3. a - m <= c
    BY ONLY <2>1, <2>2
  <2> QED BY <2>3 DEF a, c
<1> QED BY <1>13, <1>14, <1>15, <1>16 DEF loc, p, N

\* Every unit's payload has its spans, with the places that the reader found.
LEMMA SpansExist ==
    ASSUME NEW u \in Units
    PROVE  \E at, to : Spans(u, read(Written(u)).locations, at, to)
<1> DEFINE M == Len(u.subs)
           p == Payload(u)
           loc == read(Written(u)).locations
<1>1. PICK pre, after : Cut(u, pre, after)
  BY CutExists
<1> DEFINE at == [i \in 0..M |-> Len(pre[i])]
           to == [i \in 0..M |-> Len(after[Len(pre[i])].out)]
<1>2. /\ u.syntax \in Seq(Nat) /\ u.subs \in Seq(Seq(Nat)) /\ M \in Nat /\ p \in Seq(Nat)
  BY UnitType, PayloadType
<1>3. /\ JoinSteps(pre, u.syntax, u.subs) /\ pre[M] = p /\ WrittenSteps(after, p)
  BY <1>1 DEF Cut
<1>4. \A i \in 0..M : pre[i] \in Seq(Nat) /\ Ended(pre[i]) /\ Starts(pre[i], p)
  BY <1>1, CutEnded
<1>5. /\ loc \in Seq(Nat)
      /\ \A m \in 0..Len(p) : /\ Len(after[m].out) \in Nat
                              /\ Splits(loc, m, Len(after[m].out))
                              /\ Len(after[m].out) - m <= Len(loc)
  BY <1>3, PlacesRead
<1>6. ASSUME NEW i \in 1..M
      PROVE  LET a == Len(pre[i - 1])
                 q == u.subs[i] IN
             /\ Len(pre[i]) = a + Len(q) /\ \A k \in 1..Len(q) : p[a + k] = q[k]
             /\ countStartCodeEmulations(q) \in Nat
             /\ Len(after[a + Len(q)].out)
                = Len(after[a].out) + Len(q) + countStartCodeEmulations(q)
  <2>1. i \in 1..Len(u.subs)
    OBVIOUS
  <2> HIDE DEF M, p, loc
  <2>2. Spanned(u, pre, after, i)
    BY <1>1, <2>1, SubstreamSpan, Zenon
  <2> QED BY <2>2, Zenon DEF Spanned, p
<1>7. pre[0] = u.syntax
  BY <1>3 DEF JoinSteps
<1> HIDE DEF M, p, loc
<1>8. \A i \in 0..M : Len(pre[i]) \in 0..Len(p) /\ Len(pre[i]) \in Nat
  <2>1. \A i \in 0..M : Len(pre[i]) \in Nat /\ Len(p) \in Nat /\ Len(pre[i]) <= Len(p)
    BY <1>2, <1>4 DEF Starts
  <2> QED BY <2>1
<1>9. at \in [0..M -> Nat] /\ to \in [0..M -> Nat]
  BY <1>5, <1>8
<1>10. at[0] = Len(u.syntax) /\ at[M] = Len(p)
  BY <1>2, <1>3, <1>7
<1>11. ASSUME NEW i \in 1..M
       PROVE  LET q == u.subs[i] IN
              /\ at[i] = at[i - 1] + Len(q)
              /\ countStartCodeEmulations(q) \in Nat
              /\ to[i] = to[i - 1] + Len(q) + countStartCodeEmulations(q)
              /\ \A k \in 1..Len(q) : p[at[i - 1] + k] = q[k]
  <2>1. i \in 0..M /\ i - 1 \in 0..M
    BY <1>2
  <2>2. /\ at[i] = Len(pre[i]) /\ at[i - 1] = Len(pre[i - 1])
        /\ to[i] = Len(after[Len(pre[i])].out) /\ to[i - 1] = Len(after[Len(pre[i - 1])].out)
    BY <2>1
  <2> HIDE DEF at, to
  <2> QED BY <1>6, <2>2
<1>12. to[0] >= at[0]
  <2> DEFINE q == u.syntax
  <2>1. q \in Seq(Nat) /\ Len(q) <= Len(p) /\ \A k \in 1..Len(q) : p[k] = q[k]
    <3>1. 0 \in 0..M
      BY <1>2
    <3> QED BY <1>2, <1>4, <1>7, <3>1 DEF Starts
  <2>2. after[0] = NothingPut /\ NothingPut.zeroCount = 0 /\ NothingPut.out = <<>>
    BY <1>3 DEF WrittenSteps, NothingPut
  <2>3. 0 + Len(q) <= Len(p) /\ \A k \in 1..Len(q) : p[0 + k] = q[k]
    <3>1. Len(q) \in Nat /\ \A k \in 1..Len(q) : 0 + k = k
      BY <2>1
    <3> QED BY <2>1, <3>1
  <2> HIDE DEF q
  <2>4. /\ countStartCodeEmulations(q) \in Nat
        /\ Len(after[0 + Len(q)].out)
           = Len(after[0].out) + Len(q) + countStartCodeEmulations(q)
    <3> DEFINE a == 0
    <3>1. after[a].zeroCount = 0 /\ a \in Nat
      BY <2>2
    <3>2. a + Len(q) <= Len(p) /\ \A k \in 1..Len(q) : p[a + k] = q[k]
      BY <2>3
    <3> HIDE DEF a
    <3>3. /\ countStartCodeEmulations(q) \in Nat
          /\ Len(after[a + Len(q)].out)
             = Len(after[a].out) + Len(q) + countStartCodeEmulations(q)
      BY <1>2, <1>3, <2>1, <3>1, <3>2, SegmentWritten
    <3> QED BY <3>3 DEF a
  <2>5. Len(after[0].out) = 0 /\ Len(q) \in Nat /\ 0 + Len(q) = Len(q)
    BY <2>1, <2>2
  <2>6. to[0] = Len(after[Len(q)].out) /\ at[0] = Len(q)
    <3>1. 0 \in 0..M
      BY <1>2
    <3> QED BY <1>7, <3>1 DEF q
  <2> HIDE DEF at, to
  <2>7. to[0] = 0 + Len(q) + countStartCodeEmulations(q)
    BY <2>4, <2>5, <2>6
  <2> QED BY <2>4, <2>5, <2>6, <2>7
<1>13. \A i \in 0..M : to[i] >= at[i]
  <2> DEFINE S == {i \in 0..M : to[i] >= at[i]}
  <2>1. 0 \in S
    BY <1>2, <1>12
  <2> HIDE DEF at, to
  <2>2. ASSUME NEW i \in 1..M, i - 1 \in S PROVE i \in S
    <3> DEFINE q == u.subs[i]
               a == at[i - 1]
               b == to[i - 1]
               n == Len(q)
               c == countStartCodeEmulations(q)
    <3>1. i \in 0..M /\ i - 1 \in 0..M
      BY <1>2
    <3>2. b >= a /\ a \in Nat /\ b \in Nat
      BY <1>9, <2>2, <3>1
    <3>3. at[i] = a + n /\ to[i] = b + n + c /\ c \in Nat
      BY <1>11
    <3>4. n \in Nat
      BY <1>2 DEF M
    <3> HIDE DEF a, b, n, c
    <3>5. a + n <= b + n + c
      BY ONLY <3>2, <3>3, <3>4
    <3> QED BY <3>1, <3>2, <3>3, <3>4, <3>5
  <2> HIDE DEF S
  <2>3. 0..M \subseteq S
    BY <1>2, <2>1, <2>2, InductionTo
  <2> QED BY <2>3 DEF S
<1>14. ASSUME NEW i \in 0..M
       PROVE  /\ to[i] - at[i] <= Len(loc) /\ Splits(loc, at[i], to[i])
              /\ at[0] <= at[i] /\ at[i] <= at[M]
  <2>1. at[i] = Len(pre[i]) /\ to[i] = Len(after[at[i]].out) /\ at[i] \in 0..Len(p)
    BY <1>8
  <2>2. at[M] = Len(p) /\ Len(p) \in Nat
    BY <1>2, <1>10
  <2>3. at[0] <= at[i]
    <3>1. 0 \in 0..M
      BY <1>2
    <3>2. Starts(pre[0], pre[i])
      <4>1. 0 \in 0..Len(u.subs) /\ i \in 0..Len(u.subs)
        BY <3>1 DEF M
      <4> QED BY <1>2, <1>3, <4>1, JoinStarts
    <3> QED BY <3>1, <3>2 DEF Starts
  <2> HIDE DEF at, to
  <2> QED BY <1>5, <2>1, <2>2, <2>3
<1> HIDE DEF at, to
<1>15. Spans(u, loc, at, to)
  BY <1>5, <1>9, <1>10, <1>11, <1>13, <1>14 DEF Spans, M, p
<1> QED BY <1>15 DEF loc

\* The sizes that the reader finds are those of the substreams.
LEMMA SizesRead ==
    ASSUME NEW u \in Units, NEW loc, NEW at, NEW to, Spans(u, loc, at, to), Len(u.subs) > 0
    PROVE  SubstreamSizes(EntryPoints(u), loc, 2 + at[0])
           = [i \in 1..(Len(u.subs) - 1) |-> Len(u.subs[i])]
<1> DEFINE M == Len(u.subs)
           N == M - 1
           entries == EntryPoints(u)
           first == EndOfSliceHeader(loc, 2 + at[0])
           f == [n \in 0..N |-> 2 + to[n]]
           inside(i) == {k \in DOMAIN loc : loc[k] >= f[i - 1] /\ loc[k] < f[i]}
<1>1. u.subs \in Seq(Seq(Nat)) /\ M \in Nat /\ N \in Nat /\ \A i \in 1..M : Len(u.subs[i]) \in Nat
  BY UnitType
<1>2. /\ loc \in Seq(Nat)
      /\ \A i \in 0..M : /\ at[i] \in Nat /\ to[i] \in Nat /\ to[i] >= at[i]
                         /\ to[i] - at[i] <= Len(loc) /\ Splits(loc, at[i], to[i])
      /\ \A i \in 1..M :
            /\ at[i] = at[i - 1] + Len(u.subs[i])
            /\ countStartCodeEmulations(u.subs[i]) \in Nat
            /\ to[i] = to[i - 1] + Len(u.subs[i]) + countStartCodeEmulations(u.subs[i])
  BY DEF Spans
<1>3. entries = [i \in 1..N |-> Len(u.subs[i]) + countStartCodeEmulations(u.subs[i])]
  BY Zenon DEF EntryPoints
<1>4. Len(entries) = N /\ DOMAIN entries = 1..N
  <2> HIDE DEF N, M
  <2> QED BY <1>1, <1>3
<1>5. N \in 0..M /\ 1..N \subseteq 1..M /\ 0..N \subseteq 0..M
  BY <1>1
<1> HIDE DEF M, N, entries
<1>6. first = 2 + to[0]
  <2>1. 0 \in 0..M
    BY <1>1
  <2>2. /\ at[0] \in Nat /\ to[0] \in Nat /\ to[0] >= at[0]
        /\ to[0] - at[0] <= Len(loc) /\ Splits(loc, at[0], to[0])
    BY <1>2, <2>1
  <2> DEFINE a == at[0]
             b == to[0]
             c == Len(loc)
  <2>3. a \in Nat /\ b \in Nat /\ b >= a /\ b - a <= c /\ c \in Nat
    BY <1>2, <2>2
  <2>4. c >= b - a /\ b >= a
    <3> HIDE DEF a, b, c
    <3> QED BY <2>3
  <2> HIDE DEF first
  <2>5. EndOfSliceHeader(loc, 2 + a) = 2 + b
    <3>1. Splits(loc, a, b)
      BY <2>2
    <3> HIDE DEF a, b
    <3> QED BY <1>2, <2>3, <2>4, <3>1, HeaderEnds DEF c
  <2> QED BY <2>5 DEF first
<1> HIDE DEF first
<1>7. SubstreamEnds(entries, first) = f
  <2>1. f = [n \in 0..N |-> f[n]]
    OBVIOUS
  <2>2. f[0] = first
    <3>1. 0 \in 0..N
      BY <1>1
    <3> QED BY <1>6, <3>1
  <2>3. ASSUME NEW n \in 1..N PROVE f[n] = f[n - 1] + entries[n]
    <3> DEFINE q == Len(u.subs[n])
               c == countStartCodeEmulations(u.subs[n])
               t == to[n - 1]
    <3>1. n \in 0..N /\ n - 1 \in 0..N /\ n \in 1..M /\ n - 1 \in 0..M
      BY <1>1, <1>5
    <3>2. f[n] = 2 + to[n] /\ f[n - 1] = 2 + t
      BY <3>1
    <3>3. to[n] = t + q + c /\ t \in Nat /\ q \in Nat /\ c \in Nat
      BY <1>1, <1>2, <3>1
    <3>4. entries[n] = q + c
      BY <1>3
    <3> HIDE DEF f, q, c, t
    <3> QED BY <3>2, <3>3, <3>4
  <2> HIDE DEF f
  <2>4. Len(entries) \in Nat
    BY <1>1, <1>4
  <2> QED BY <1>4, <2>1, <2>2, <2>3, <2>4, EndsAre
<1> HIDE DEF f
<1>8. SubstreamSizes(entries, loc, 2 + at[0])
      = [i \in DOMAIN entries |-> entries[i] - Cardinality(inside(i))]
  <2>1. SubstreamSizes(entries, loc, 2 + at[0])
        = LET ends == SubstreamEnds(entries, first)
              in(i) == {k \in DOMAIN loc : loc[k] >= ends[i - 1] /\ loc[k] < ends[i]}
          IN  [i \in DOMAIN entries |-> entries[i] - Cardinality(in(i))]
    BY Zenon DEF SubstreamSizes, first
  <2> QED BY <1>7, <2>1, Zenon
<1>9. ASSUME NEW i \in 1..N PROVE entries[i] - Cardinality(inside(i)) = Len(u.subs[i])
  <2> DEFINE q == Len(u.subs[i])
             c == countStartCodeEmulations(u.subs[i])
             a == at[i - 1]
             la == to[i - 1]
             b == at[i]
             lb == to[i]
             x == Cardinality(inside(i))
  <2>1. i \in 0..N /\ i - 1 \in 0..N /\ i \in 1..M /\ i \in 0..M /\ i - 1 \in 0..M
    BY <1>1, <1>5
  <2>2. f[i] = 2 + lb /\ f[i - 1] = 2 + la
    BY <2>1 DEF f
  <2>3. /\ a \in Nat /\ la \in Nat /\ b \in Nat /\ lb \in Nat /\ a <= la
        /\ Splits(loc, a, la) /\ Splits(loc, b, lb) /\ lb - b <= Len(loc)
    BY <1>2, <2>1
  <2>4. b = a + q /\ lb = la + q + c /\ q \in Nat /\ c \in Nat
    BY <1>1, <1>2, <2>1
  <2>5. inside(i) = {k \in DOMAIN loc : loc[k] >= 2 + la /\ loc[k] < 2 + lb}
    BY <2>2
  <2> HIDE DEF q, c, a, la, b, lb
  <2>6. la - a <= lb - b
    BY ONLY <2>3, <2>4
  <2>7. x = (lb - b) - (la - a)
    <3> DEFINE T == {k \in DOMAIN loc : loc[k] >= 2 + la /\ loc[k] < 2 + lb}
    <3>1. Cardinality(T) = (lb - b) - (la - a)
      BY <1>2, <2>3, <2>6, EscapesInside
    <3>2. inside(i) = T
      BY <2>5
    <3> HIDE DEF T, inside
    <3> QED BY <3>1, <3>2
  <2>8. entries[i] = q + c
    BY <1>3 DEF q, c
  <2> HIDE DEF x
  <2>9. (q + c) - x = q
    BY ONLY <2>3, <2>4, <2>7
  <2> QED BY <2>8, <2>9 DEF x, q
<1> HIDE DEF inside
<1>10. [i \in 1..N |-> entries[i] - Cardinality(inside(i))] = [i \in 1..N |-> Len(u.subs[i])]
  BY <1>9
<1> QED BY <1>4, <1>8, <1>10 DEF M, N, entries

\* How much is extracted with each substream, if there is enough.
LEMMA ExtractedAre ==
    ASSUME NEW data, Len(data) \in Nat, NEW sizes, Len(sizes) \in Nat,
           NEW f \in [0..Len(sizes) -> Nat], f[0] = 0,
           \A n \in 1..Len(sizes) : f[n] = f[n - 1] + sizes[n],
           \A n \in 1..Len(sizes) : f[n] <= Len(data)
    PROVE  ExtractedUpTo(data, sizes) = f
<1> DEFINE N == Len(sizes)
           D == Len(data)
           idx[n \in 0..N] == IF n = 0 THEN 0 ELSE Min({idx[n - 1] + sizes[n], D})
<1>1. ExtractedUpTo(data, sizes) = idx
  BY Zenon DEF ExtractedUpTo
<1>2. /\ N \in Nat /\ D \in Nat /\ f \in [0..N -> Nat] /\ f[0] = 0
      /\ \A n \in 1..N : f[n] = f[n - 1] + sizes[n] /\ f[n] <= D
  OBVIOUS
<1> HIDE DEF N, D
<1>3. ASSUME NEW n \in 1..N PROVE Min({f[n - 1] + sizes[n], D}) = f[n]
  <2> DEFINE T == {f[n - 1] + sizes[n], D}
             k == f[n]
  <2>1. T = {k, D} /\ k <= D /\ k \in Nat /\ D \in Nat
    <3>1. n \in 0..N
      BY <1>2
    <3> QED BY <1>2, <3>1
  <2> HIDE DEF T, k
  <2>2. T \in SUBSET Nat /\ k \in T /\ \A j \in T : k <= j
    BY <2>1
  <2>3. Min(T) = k
    BY <2>2, MinIs
  <2> QED BY <2>3 DEF T, k
<1>4. f = [n \in 0..N |-> IF n = 0 THEN 0 ELSE Min({f[n - 1] + sizes[n], D})]
  <2>1. \A n \in 0..N : n = 0 \/ (n \in 1..N /\ n # 0)
    BY <1>2
  <2>2. \A n \in 0..N : f[n] = IF n = 0 THEN 0 ELSE Min({f[n - 1] + sizes[n], D})
    BY <1>2, <1>3, <2>1
  <2> QED BY <1>2, <2>2
<1>5. idx = [n \in 0..N |-> IF n = 0 THEN 0 ELSE Min({idx[n - 1] + sizes[n], D})]
  BY <1>4
<1> HIDE DEF idx
<1> DEFINE S == {n \in 0..N : idx[n] = f[n]}
<1>6. 0 \in S
  BY <1>2, <1>5
<1>7. ASSUME NEW n \in 1..N, n - 1 \in S PROVE n \in S
  <2>1. n \in 0..N /\ n # 0
    BY <1>2
  <2>2. idx[n] = Min({idx[n - 1] + sizes[n], D})
    BY <1>5, <2>1
  <2> QED BY <1>3, <1>7, <2>1, <2>2
<1> HIDE DEF S
<1>8. 0..N \subseteq S
  BY <1>2, <1>6, <1>7, InductionTo
<1>9. \A n \in 0..N : idx[n] = f[n]
  BY <1>8 DEF S
<1>10. idx = [n \in 0..N |-> idx[n]]
  BY <1>5
<1> QED BY <1>1, <1>2, <1>9, <1>10

LEMMA SameSequence ==
    ASSUME NEW a \in Seq(Nat), NEW b \in Seq(Nat), Len(a) = Len(b),
           \A k \in 1..Len(a) : a[k] = b[k]
    PROVE  a = b
OBVIOUS

\* The data behind the syntax is cut where the substreams were joined.
LEMMA SubstreamsRead ==
    ASSUME NEW u \in Units, NEW loc, NEW at, NEW to, Spans(u, loc, at, to), Len(u.subs) > 0,
           NEW data \in Seq(Nat), Len(data) = Len(Payload(u)) - at[0],
           \A j \in 1..Len(data) : data[j] = Payload(u)[at[0] + j]
    PROVE  Extracted(data, [i \in 1..(Len(u.subs) - 1) |-> Len(u.subs[i])]) = u.subs
<1> DEFINE M == Len(u.subs)
           N == M - 1
           D == Len(data)
           p == Payload(u)
           sizes == [i \in 1..N |-> Len(u.subs[i])]
           f == [n \in 0..N |-> at[n] - at[0]]
           piece(n, idx) == IF n > N THEN SubSeq(data, idx[N] + 1, D)
                            ELSE [k \in 1..sizes[n] |->
                                     IF idx[n - 1] + k > D THEN 0 ELSE data[idx[n - 1] + k]]
<1>1. /\ u.subs \in Seq(Seq(Nat)) /\ M \in Nat /\ N \in Nat /\ D \in Nat /\ N + 1 = M
      /\ \A i \in 1..M : u.subs[i] \in Seq(Nat) /\ Len(u.subs[i]) \in Nat
      /\ u.subs = [i \in 1..M |-> u.subs[i]]
  <2>1. u.subs \in Seq(Seq(Nat))
    BY UnitType
  <2> QED BY <2>1
<1>2. /\ \A i \in 0..M : at[i] \in Nat /\ at[0] <= at[i] /\ at[i] <= at[M]
      /\ at[M] = Len(p)
      /\ \A i \in 1..M : /\ at[i] = at[i - 1] + Len(u.subs[i])
                         /\ \A k \in 1..Len(u.subs[i]) : p[at[i - 1] + k] = u.subs[i][k]
  BY DEF Spans
<1>3. D = at[M] - at[0] /\ \A j \in 1..D : data[j] = p[at[0] + j]
  BY <1>2
<1> HIDE DEF M, N, D, p
<1>4. Len(sizes) = N
  BY <1>1
<1>5. at[0] \in Nat /\ 0 \in 0..N /\ N \in 0..N /\ N \in 0..M
  <2>1. 0 \in 0..M /\ 0 \in 0..N /\ N \in 0..N /\ N \in 0..M
    BY <1>1
  <2> QED BY <1>2, <2>1
<1>6. f \in [0..N -> Nat] /\ f[0] = 0
  <2>1. \A n \in 0..N : at[n] - at[0] \in Nat
    <3>1. \A n \in 0..N : n \in 0..M
      BY <1>1
    <3> QED BY <1>2, <1>5, <3>1
  <2> QED BY <1>5, <2>1
<1>7. ASSUME NEW n \in 1..N PROVE f[n] = f[n - 1] + sizes[n] /\ f[n] <= D
  <2> DEFINE a == at[n - 1]
             b == at[n]
             c == at[0]
             d == at[M]
             q == Len(u.subs[n])
  <2>1. n \in 1..M /\ n \in 0..M /\ n - 1 \in 0..M /\ n \in 0..N /\ n - 1 \in 0..N /\ M \in 0..M
    BY <1>1
  <2>2. a \in Nat /\ b \in Nat /\ c \in Nat /\ d \in Nat /\ q \in Nat /\ b <= d /\ b = a + q
    BY <1>1, <1>2, <1>5, <2>1
  <2>3. f[n] = b - c /\ f[n - 1] = a - c /\ sizes[n] = q /\ D = d - c
    BY <1>3, <2>1
  <2> HIDE DEF a, b, c, d, q, f, sizes
  <2> QED BY <2>2, <2>3
<1>8. ExtractedUpTo(data, sizes) = f
  <2> HIDE DEF f, sizes
  <2>1. Len(data) \in Nat /\ Len(sizes) \in Nat
    BY <1>1, <1>4 DEF D
  <2>2. /\ f \in [0..Len(sizes) -> Nat] /\ \A n \in 1..Len(sizes) : f[n] = f[n - 1] + sizes[n]
        /\ \A n \in 1..Len(sizes) : f[n] <= Len(data)
    BY <1>4, <1>6, <1>7 DEF D
  <2> QED BY <1>6, <2>1, <2>2, ExtractedAre
<1>9. Extracted(data, sizes) = [n \in 1..(N + 1) |-> piece(n, f)]
  <2> HIDE DEF f, sizes
  <2>1. Extracted(data, sizes)
        = LET idx == ExtractedUpTo(data, sizes)
              K == Len(sizes)
          IN  [n \in 1..(K + 1) |->
                  IF n > K THEN SubSeq(data, idx[K] + 1, Len(data))
                  ELSE [k \in 1..sizes[n] |-> IF idx[n - 1] + k > Len(data) THEN 0
                                              ELSE data[idx[n - 1] + k]]]
    BY Zenon DEF Extracted
  <2> QED BY <1>4, <1>8, <2>1, Zenon DEF D
<1>10. ASSUME NEW n \in 1..N PROVE piece(n, f) = u.subs[n]
  <2> DEFINE q == u.subs[n]
             t == [k \in 1..Len(q) |-> q[k]]
             a == at[n - 1]
             c == at[0]
  <2>1. n \in 1..M /\ n \in 0..M /\ n - 1 \in 0..M /\ n - 1 \in 0..N /\ ~(n > N) /\ M \in 0..M
    BY <1>1
  <2>2. q \in Seq(Nat) /\ Len(q) \in Nat /\ sizes[n] = Len(q) /\ f[n - 1] = a - c
    BY <1>1, <2>1
  <2>3. /\ a \in Nat /\ c \in Nat /\ c <= a /\ at[n] <= at[M] /\ at[n] = a + Len(q)
        /\ at[M] \in Nat /\ \A k \in 1..Len(q) : p[a + k] = q[k]
    BY <1>2, <1>5, <2>1
  <2>4. ASSUME NEW k \in 1..Len(q)
        PROVE  (IF f[n - 1] + k > D THEN 0 ELSE data[f[n - 1] + k]) = q[k]
    <3> DEFINE j == (a - c) + k
               l == Len(q)
               d == at[M]
               b == at[n]
    <3>1. l \in Nat /\ k \in 1..l
      BY <2>2
    <3>2. a \in Nat /\ c \in Nat /\ c <= a /\ b <= d /\ b = a + l /\ D = d - c /\ d \in Nat
      BY <1>3, <2>3
    <3>3. j \in 1..D /\ c + j = a + k /\ ~(j > D)
      <4> HIDE DEF a, c, l, d, b
      <4> QED BY ONLY <3>1, <3>2
    <3> HIDE DEF j
    <3>4. data[j] = p[a + k]
      BY <1>3, <3>3
    <3>5. f[n - 1] + k = j
      BY <2>2 DEF j
    <3> HIDE DEF f
    <3> QED BY <2>3, <3>3, <3>4, <3>5
  <2>5. piece(n, f) = [k \in 1..Len(q) |-> IF f[n - 1] + k > D THEN 0 ELSE data[f[n - 1] + k]]
    <3> HIDE DEF f, sizes, q
    <3> QED BY <2>1, <2>2
  <2> HIDE DEF f, sizes, piece, q
  <2>6. piece(n, f) = [k \in 1..Len(q) |-> q[k]]
    BY <2>4, <2>5
  <2>7. q = [k \in 1..Len(q) |-> q[k]]
    BY <2>2
  <2> QED BY <2>6, <2>7 DEF q
<1>11. piece(M, f) = u.subs[M]
  <2> DEFINE q == u.subs[M]
             a == at[N]
             c == at[0]
             d == at[M]
             r == SubSeq(data, f[N] + 1, D)
  <2>1. M \in 1..M /\ M \in 0..M /\ M > N /\ M - 1 = N
    BY <1>1
  <2>2. q \in Seq(Nat) /\ Len(q) \in Nat /\ f[N] = a - c
    BY <1>1, <1>5, <2>1
  <2>3. /\ a \in Nat /\ c \in Nat /\ c <= a /\ a <= d /\ d \in Nat /\ d = a + Len(q) /\ D = d - c
        /\ \A k \in 1..Len(q) : p[a + k] = q[k]
    BY <1>2, <1>3, <1>5, <2>1
  <2>4. piece(M, f) = r
    <3> HIDE DEF f, r
    <3> QED BY <2>1 DEF r
  <2> DEFINE b == f[N] + 1
             l == Len(q)
  <2>5. /\ b \in Nat /\ b > 0 /\ b <= D + 1 /\ D - b + 1 = l /\ l \in Nat
        /\ b = (a - c) + 1
    <3>1. f[N] = a - c /\ l \in Nat /\ d = a + l
      BY <2>2, <2>3
    <3> HIDE DEF f, a, c, d, l
    <3> QED BY <2>3, <3>1
  <2> HIDE DEF b
  <2>6. r \in Seq(Nat) /\ Len(r) = l /\ \A k \in 1..l : r[k] = data[b + k - 1]
    <3>1. r = SubSeq(data, b, D)
      BY DEF b
    <3> HIDE DEF r, l
    <3>2. D <= Len(data)
      BY <1>1 DEF D
    <3> DEFINE e == SubSeq(data, b, D)
    <3>3. /\ e \in Seq(Nat) /\ Len(e) = D - b + 1
          /\ \A k \in 1..(D - b + 1) : e[k] = data[b + k - 1]
      <4>1. data \in Seq(Nat) /\ b \in Nat /\ D \in Nat /\ b > 0 /\ b <= D + 1 /\ D <= Len(data)
        BY <1>1, <2>5, <3>2
      <4> HIDE DEF l, e
      <4> QED BY <4>1, CutOut DEF e
    <3> HIDE DEF e
    <3>4. r = e
      BY <3>1 DEF e
    <3> QED BY <2>5, <3>3, <3>4
  <2>7. ASSUME NEW k \in 1..l PROVE r[k] = q[k]
    <3> DEFINE j == b + k - 1
    <3>1. j \in 1..D /\ c + j = a + k
      <4> HIDE DEF a, c, l, d
      <4> QED BY <1>1, <2>3, <2>5
    <3> HIDE DEF j
    <3>2. data[j] = p[a + k]
      BY <1>3, <3>1
    <3>3. r[k] = data[j]
      BY <2>6 DEF j
    <3> HIDE DEF r
    <3> QED BY <2>3, <3>2, <3>3
  <2> HIDE DEF r, q
  <2>8. r = q
    BY <2>2, <2>6, <2>7, SameSequence
  <2> QED BY <2>4, <2>8 DEF q
<1> HIDE DEF piece, f, sizes
<1>12. \A n \in 1..M : piece(n, f) = u.subs[n]
  <2>1. \A n \in 1..M : n = M \/ n \in 1..N
    BY <1>1
  <2> QED BY <1>10, <1>11, <2>1
<1>13. Extracted(data, sizes) = [n \in 1..M |-> u.subs[n]]
  BY <1>1, <1>9, <1>12
<1> QED BY <1>1, <1>13 DEF sizes, N, M

\* A unit that is read and parsed is the unit that was written: its type, its syntax and
\* its substreams, each with the bytes it had (read, parseSliceHeader, extractSubstream).
THEOREM UnitsParsed ==
    ASSUME NEW u \in Units
    PROVE  Parsed(read(Written(u)), Len(u.syntax), EntryPoints(u)) = Content(u)
<1> DEFINE nalu == read(Written(u))
           h == NalUnitHeader(u.type)
           p == Payload(u)
           s == Len(u.syntax)
           M == Len(u.subs)
           end == Min({2 + s, Len(nalu.rbsp)})
           data == SubSeq(nalu.rbsp, end + 1, Len(nalu.rbsp))
           subs == IF nalu.type \in VclTypes
                   THEN Extracted(data, SubstreamSizes(EntryPoints(u), nalu.locations, end))
                   ELSE <<>>
<1>1. /\ u.syntax \in Seq(Nat) /\ u.subs \in Seq(Seq(Nat)) /\ p \in Seq(Nat) /\ u.type \in Nat
      /\ s \in Nat /\ M \in Nat
  BY UnitType, PayloadType
<1>2. nalu.type = u.type /\ nalu.rbsp = h \o p
  BY UnitsRead
<1>3. h \in Seq(Nat) /\ Len(h) = 2
  BY <1>1, HeaderRead
<1>4. PICK at, to : Spans(u, nalu.locations, at, to)
  BY SpansExist
<1>5. at[0] = s /\ s <= Len(p) /\ Len(p) \in Nat
  <2>1. at[0] = s /\ at[M] = Len(p) /\ at[0] <= at[M]
    <3>1. M \in 0..M
      BY <1>1
    <3> QED BY <1>4, <3>1 DEF Spans
  <2> QED BY <1>1, <2>1
<1>6. Parsed(nalu, s, EntryPoints(u))
      = [type |-> nalu.type, syntax |-> SubSeq(nalu.rbsp, 3, end), subs |-> subs]
  BY Zenon DEF Parsed
<1>7. \A k \in 1..s : p[k] = u.syntax[k]
  <2> DEFINE flat == FlattenSeq(u.subs)
  <2>1. flat \in Seq(Nat)
    BY <1>1, FlattenType
  <2>2. p = u.syntax \o flat
    BY DEF Payload
  <2> HIDE DEF flat, p
  <2> QED BY <1>1, <2>1, <2>2, Joined
<1> DEFINE rbsp == nalu.rbsp
           L == Len(rbsp)
<1>8. /\ rbsp \in Seq(Nat) /\ L = 2 + Len(p) /\ L \in Nat
      /\ \A k \in 1..Len(p) : rbsp[2 + k] = p[k]
  <2> HIDE DEF h, p, nalu
  <2>1. /\ h \o p \in Seq(Nat) /\ Len(h \o p) = 2 + Len(p)
        /\ \A i \in (2 + 1)..(2 + Len(p)) : (h \o p)[i] = p[i - 2]
    <3> DEFINE n == Len(h)
               t == h \o p
    <3>1. /\ t \in Seq(Nat) /\ Len(t) = n + Len(p)
          /\ \A i \in (n + 1)..(n + Len(p)) : t[i] = p[i - n]
      BY <1>1, <1>3, Joined
    <3>2. n = 2
      BY <1>3
    <3> HIDE DEF n, t
    <3>3. /\ t \in Seq(Nat) /\ Len(t) = 2 + Len(p)
          /\ \A i \in (2 + 1)..(2 + Len(p)) : t[i] = p[i - 2]
      BY <3>1, <3>2, Zenon
    <3> QED BY <3>3 DEF t
  <2>2. \A k \in 1..Len(p) : 2 + k \in (2 + 1)..(2 + Len(p)) /\ (2 + k) - 2 = k
    BY <1>5
  <2> QED BY <1>2, <1>5, <2>1, <2>2
<1>9. end = 2 + s
  <2> DEFINE T == {2 + s, L}
  <2>1. T \in SUBSET Nat /\ 2 + s \in T /\ \A j \in T : 2 + s <= j
    <3> HIDE DEF L, s, p
    <3> QED BY <1>1, <1>5, <1>8
  <2> HIDE DEF T
  <2>2. Min(T) = 2 + s
    BY <2>1, MinIs
  <2> QED BY <2>2 DEF T
<1> HIDE DEF end, nalu, p
<1>10. SubSeq(rbsp, 3, end) = u.syntax
  <2> DEFINE a == SubSeq(rbsp, 3, 2 + s)
  <2> HIDE DEF rbsp, s
  <2>1. /\ a \in Seq(Nat) /\ Len(a) = (2 + s) - 3 + 1
        /\ \A k \in 1..((2 + s) - 3 + 1) : a[k] = rbsp[3 + k - 1]
    <3>1. 3 \in Nat /\ 2 + s \in Nat /\ 3 > 0 /\ 3 <= (2 + s) + 1 /\ 2 + s <= Len(rbsp)
      BY <1>1, <1>5, <1>8
    <3> QED BY <1>8, <3>1, CutOut
  <2>2. (2 + s) - 3 + 1 = s /\ \A k \in 1..s : 3 + k - 1 = 2 + k /\ k \in 1..Len(p)
    BY <1>1, <1>5
  <2> HIDE DEF a
  <2>3. Len(a) = s /\ \A k \in 1..s : a[k] = u.syntax[k]
    BY <1>7, <1>8, <2>1, <2>2
  <2>4. a = u.syntax
    BY <1>1, <2>1, <2>3, SameSequence DEF s
  <2> QED BY <1>9, <2>4 DEF a
<1>11. ASSUME u.type \in VclTypes
       PROVE  Extracted(data, SubstreamSizes(EntryPoints(u), nalu.locations, end)) = u.subs
  <2>1. M > 0
    BY <1>1, <1>11, UnitEnded
  <2>2. SubstreamSizes(EntryPoints(u), nalu.locations, 2 + at[0])
        = [i \in 1..(M - 1) |-> Len(u.subs[i])]
    BY <1>4, <2>1, SizesRead
  <2>3. /\ data \in Seq(Nat) /\ Len(data) = Len(p) - at[0]
        /\ \A j \in 1..Len(data) : data[j] = p[at[0] + j]
    <3> DEFINE b == (2 + s) + 1
               e == SubSeq(rbsp, b, L)
    <3>1. b \in Nat /\ b > 0 /\ b <= L + 1 /\ L <= Len(rbsp)
      <4> HIDE DEF s
      <4> QED BY <1>1, <1>5, <1>8
    <3>2. e \in Seq(Nat) /\ Len(e) = L - b + 1 /\ \A k \in 1..(L - b + 1) : e[k] = rbsp[b + k - 1]
      <4> HIDE DEF b, L, rbsp, e
      <4> QED BY <1>8, <3>1, CutOut DEF e
    <3>3. L - b + 1 = Len(p) - s
      <4> HIDE DEF s, L
      <4> QED BY <1>1, <1>5, <1>8
    <3>4. \A k \in 1..(Len(p) - s) : b + k - 1 = 2 + (s + k) /\ s + k \in 1..Len(p)
      <4> HIDE DEF s
      <4> QED BY <1>1, <1>5
    <3> HIDE DEF e, b
    <3>5. \A k \in 1..(Len(p) - s) : e[k] = p[s + k]
      BY <1>8, <3>2, <3>3, <3>4
    <3>6. e = data
      BY <1>9 DEF e, b
    <3> HIDE DEF data
    <3> QED BY <1>5, <3>2, <3>3, <3>5, <3>6
  <2> HIDE DEF data, M
  <2>4. Extracted(data, [i \in 1..(M - 1) |-> Len(u.subs[i])]) = u.subs
    BY <1>4, <2>1, <2>3, SubstreamsRead DEF M, p
  <2> QED BY <1>5, <1>9, <2>2, <2>4
<1>12. subs = u.subs
  <2>1. u.type \notin VclTypes => u.subs = <<>>
    BY UnitEnded
  <2> HIDE DEF data
  <2> QED BY <1>2, <1>11, <2>1
<1> QED BY <1>2, <1>6, <1>10, <1>12, Zenon DEF Content, nalu

-----------------------------------------------------------------------------
(* The channel. *)

\* The steps of the abstract channel, with the variables of this module.
LEMMA SendsOne ==
    ASSUME ReaderInv, NEW u \in Units, Write(u)
    PROVE  Channel!Send
<1>1. sent' = Append(sent, Content(u)) /\ UNCHANGED received
  BY DEF Write, decoder
<1>2. sent \in Seq(Contents) /\ Content(u) \in Contents
  BY DEF ReaderInv, StreamInv, Contents
<1> DEFINE v == Content(u)
           t == Append(sent, v)
<1> HIDE DEF v
<1>3. Len(t) = Len(sent) + 1 /\ SubSeq(t, 1, Len(sent)) = sent
  <2>1. v \in Contents
    BY <1>2 DEF v
  <2> QED BY <1>2, <2>1
<1> QED BY <1>1, <1>3 DEF Channel!Send, v

\* What is read is what is next among the units sent.
LEMMA ReceivesOne ==
    ASSUME ReaderInv, ReadUnit
    PROVE  Channel!Receive /\ mode' # "failed"
<1> DEFINE got == byteStreamNALUnit(file, reader)
           nalu == read(got.unit)
           k == Len(received) + 1
<1>1. mode = "read" /\ UNCHANGED writer
  BY DEF ReadUnit
<1>2. StreamInv
  BY DEF ReaderInv
<1>3. eof = FALSE /\ reader \in [pos : Nat, future : Nat]
  BY <1>1 DEF ReaderInv
<1>4. Len(received) \in Nat /\ Facts(k) /\ InFront(file, starts[k], From)
  <2>1. mode \in Working
    BY <1>1 DEF Working
  <2> QED BY <1>3, <2>1, UnitAhead
<1>5. PICK u \in Units : /\ sent[k] = Content(u) /\ offsets[k] = EntryPoints(u)
                         /\ UnitStands(file, starts, k, Written(u))
  BY <1>4 DEF Facts
<1>6. k \in 1..Len(starts) /\ Len(starts) = Len(sent) /\ Len(sent) \in Nat
  BY <1>2, <1>4 DEF Facts, StreamInv, FileInv
<1>7. got.unit = Written(u) /\ got.unit # <<>>
  <2> HIDE DEF k
  <2> QED BY <1>2, <1>3, <1>4, <1>5, <1>6, ReadsUnit DEF From
<1>8. nalu.sound
  BY <1>7, UnitsRead
<1>9. Parsed(nalu, Len(sent[k].syntax), offsets[k]) = sent[k]
  <2>1. Len(sent[k].syntax) = Len(u.syntax)
    BY <1>5 DEF Content
  <2> QED BY <1>5, <1>7, <2>1, UnitsParsed
<1>10. k <= Len(sent)
  BY <1>6
<1> HIDE DEF got
<1>11. mode' = "look" /\ received' = Append(received, Parsed(nalu, Len(sent[k].syntax), offsets[k]))
  BY <1>7, <1>8, <1>10 DEF ReadUnit, got
<1> HIDE DEF nalu
<1>12. Len(received) < Len(sent)
  BY <1>4, <1>6
<1>13. UNCHANGED sent
  BY <1>1 DEF writer
<1> QED BY <1>9, <1>11, <1>12, <1>13 DEF Channel!Receive

\* Every step is one of the channel, or leaves it as it is.
LEMMA ChannelStep ==
    ReaderInv /\ [Next]_vars => [Channel!Next]_<<sent, received>>
<1> SUFFICES ASSUME ReaderInv, [Next]_vars
             PROVE  Channel!Send \/ Channel!Receive \/ UNCHANGED <<sent, received>>
  BY DEF Channel!Next
<1>1. ASSUME CloseFile \/ IsNewPicture \/ IsNewAccessUnit \/ FinishPicture \/ UNCHANGED vars
      PROVE  UNCHANGED <<sent, received>>
  BY <1>1 DEF CloseFile, IsNewPicture, IsNewAccessUnit, FinishPicture, vars, writer, decoder
<1> QED BY <1>1, SendsOne, ReceivesOne DEF Next, Encoder, Decoder

\* The decoder never meets a CHECK of the reader that fails.
Unfailing == mode # "failed"

\* No step of the decoder fails.
LEMMA NoStepFails == ReaderInv /\ Unfailing /\ [Next]_vars => Unfailing'
<1> SUFFICES ASSUME ReaderInv, Unfailing, [Next]_vars PROVE Unfailing'
  OBVIOUS
<1>1. ASSUME NEW u \in Units, Write(u) PROVE Unfailing'
  BY <1>1 DEF Write, Unfailing
<1>2. CASE CloseFile \/ IsNewAccessUnit \/ FinishPicture \/ UNCHANGED vars
  BY <1>2 DEF CloseFile, IsNewAccessUnit, FinishPicture, vars, Unfailing
<1>3. CASE IsNewPicture
  BY <1>3 DEF IsNewPicture, Unfailing
<1>4. CASE ReadUnit
  BY <1>4, ReceivesOne DEF Unfailing
<1> QED BY <1>1, <1>2, <1>3, <1>4 DEF Next, Encoder, Decoder

\* Whatever the units hold, the decoder gets them one by one in the order of the
\* encoder, each with the type, the syntax and the substreams that it was written with
\* (the safety half of Delivered), and no CHECK of the byte stream, of emulation
\* prevention or of the unit fails (byteStreamNALUnit, convertPayloadToRBSP, read).
THEOREM DeliveredSafely == Spec => Channel!Safe /\ []Unfailing
<1>1. Spec => []ReaderInv
  BY ReaderStart, ReaderStep, PTL DEF Spec
<1>2. Init => Channel!Init
  BY DEF Init, Channel!Init
<1>3. Spec => [][Channel!Next]_<<sent, received>>
  BY <1>1, ChannelStep, PTL DEF Spec
<1>4. Init => Unfailing
  BY DEF Init, Unfailing
<1>5. Spec => []Unfailing
  BY <1>1, <1>4, NoStepFails, PTL DEF Spec
<1> QED BY <1>2, <1>3, <1>5, PTL DEF Spec, Channel!Safe

-----------------------------------------------------------------------------
(* Pictures.  What the units say of them is known from their contents. *)
PartOf(j) == Part(sent[j])
IsVcl(j) == sent[j].type \in VclTypes
Telling(j) == Tells(sent[j].type)
Starting(c) ==
    c.type \in {20, 12, 13, 14, 15, 16, PH} \/ (c.type \in VclTypes /\ c.syntax[1] >= 128)
Opening == {"prefix", "header", "picture"}
Parts == {"prefix", "header", "picture", "slice", "suffix", "end"}

\* What a unit is, and what a look-ahead makes of it.
LEMMA WhatIs ==
    ASSUME NEW u \in Units
    PROVE  LET c == Content(u) IN
           /\ Part(c) = Part(u) /\ Part(c) \in Parts
           /\ c.type = u.type /\ c.syntax = u.syntax
           /\ c.type \in VclTypes <=> Part(c) \in {"picture", "slice"}
           /\ c.type = EOS <=> Part(c) = "end"
           /\ Part(c) \in {"header", "picture"} => Tells(c.type) /\ Starting(c)
           /\ Part(c) \in {"slice", "suffix", "end"} => Tells(c.type) /\ ~Starting(c)
           /\ Part(c) = "prefix" => (Tells(c.type) <=> Starting(c))
<1> DEFINE c == Content(u)
           t == u.type
           head == u.syntax[1] >= 128
<1>1. c.type = t /\ c.syntax = u.syntax
  BY Zenon DEF Content
<1>2. t \in Nat /\ t <= 31 /\ t # 22
  <2>1. u.type \in (0..31) \ {EOB}
    BY NalAssumption, Zenon
  <2> QED BY <2>1 DEF EOB
<1>3. t \in VclTypes <=> t <= 11
  BY <1>2 DEF VclTypes
<1>4. Part(c) = Part(u)
  BY <1>1, Zenon DEF Part, PictureHeaderInSliceHeader
<1>5. Part(u) = CASE t <= 11 -> IF head THEN "picture" ELSE "slice"
                  [] t = 19 -> "header"
                  [] t \in {18, 24, 25} -> "suffix"
                  [] t = 21 -> "end"
                  [] OTHER -> "prefix"
  BY <1>3 DEF Part, PictureHeaderInSliceHeader, PH, EOS
<1>6. Starting(c) <=> t \in {20, 12, 13, 14, 15, 16, 19} \/ (t <= 11 /\ head)
  BY <1>1, <1>3, Zenon DEF Starting, PH
<1>7. Tells(c.type) <=> t \notin {17, 23, 26, 27, 28, 29, 30, 31}
  BY <1>1, Zenon DEF Tells
<1>8. c.type = EOS <=> t = 21
  BY <1>1, Zenon DEF EOS
<1> HIDE DEF t, head, c
<1>9. CASE t <= 11 /\ head
  <2>1. Part(u) = "picture"
    BY <1>5, <1>9
  <2>2. t \notin {17, 23, 26, 27, 28, 29, 30, 31} /\ t # 21
    BY <1>2, <1>9
  <2> QED BY <1>1, <1>3, <1>4, <1>6, <1>7, <1>8, <1>9, <2>1, <2>2 DEF Parts, c, t, head
<1>10. CASE t <= 11 /\ ~head
  BY <1>1, <1>2, <1>3, <1>4, <1>5, <1>6, <1>7, <1>8, <1>10 DEF Parts, c, t, head
<1>11. CASE t = 19
  BY <1>1, <1>2, <1>3, <1>4, <1>5, <1>6, <1>7, <1>8, <1>11 DEF Parts, c, t, head
<1>12. CASE t \in {18, 24, 25}
  BY <1>1, <1>2, <1>3, <1>4, <1>5, <1>6, <1>7, <1>8, <1>12 DEF Parts, c, t, head
<1>13. CASE t = 21
  BY <1>1, <1>2, <1>3, <1>4, <1>5, <1>6, <1>7, <1>8, <1>13 DEF Parts, c, t, head
<1>14. CASE t > 11 /\ t \notin {18, 19, 21, 24, 25}
  <2>1. Part(u) = "prefix"
    BY <1>2, <1>5, <1>14
  <2>2. t \in {12, 13, 14, 15, 16, 17, 20, 23, 26, 27, 28, 29, 30, 31}
    BY <1>2, <1>14
  <2>3. (t \notin {17, 23, 26, 27, 28, 29, 30, 31}) <=> t \in {20, 12, 13, 14, 15, 16, 19}
    BY <2>2
  <2> QED BY <1>1, <1>2, <1>3, <1>4, <1>6, <1>7, <1>8, <1>14, <2>1, <2>3 DEF Parts, c, t, head
<1> QED BY <1>2, <1>9, <1>10, <1>11, <1>12, <1>13, <1>14

\* Of a unit sent.
LEMMA WhatIsSent ==
    ASSUME StreamInv, NEW j \in 1..Len(sent)
    PROVE  /\ PartOf(j) \in Parts
           /\ IsVcl(j) <=> PartOf(j) \in {"picture", "slice"}
           /\ sent[j].type = EOS <=> PartOf(j) = "end"
           /\ PartOf(j) \in {"header", "picture"} => Telling(j) /\ Starting(sent[j])
           /\ PartOf(j) \in {"slice", "suffix", "end"} => Telling(j) /\ ~Starting(sent[j])
           /\ PartOf(j) = "prefix" => (Telling(j) <=> Starting(sent[j]))
<1>1. j \in 1..Len(starts)
  BY DEF StreamInv
<1>2. PICK u \in Units : sent[j] = Content(u)
  BY <1>1 DEF StreamInv, UnitIs
<1> QED BY <1>2, WhatIs, Zenon DEF PartOf, IsVcl, Telling

\* A unit read looks the same as the unit sent.
LEMMA SameTold ==
    ASSUME NEW u \in Units
    PROVE  LET nalu == read(Written(u)) IN
           /\ nalu.type = u.type
           /\ StartsNewPicture(nalu) <=> Starting(Content(u))
<1> DEFINE nalu == read(Written(u))
           c == Content(u)
           h == NalUnitHeader(u.type)
           p == Payload(u)
<1>1. nalu.type = u.type /\ nalu.rbsp = h \o p
  BY UnitsRead
<1>2. c.type = u.type /\ c.syntax = u.syntax
  BY Zenon DEF Content
<1>3. ASSUME u.type \in VclTypes PROVE nalu.rbsp[3] = u.syntax[1]
  <2>1. u.syntax # <<>>
    BY <1>3, StopBitsAssumption
  <2>2. u.syntax \in Seq(Nat) /\ u.subs \in Seq(Seq(Nat)) /\ u.type \in Nat
    BY UnitType
  <2>3. h \in Seq(Nat) /\ Len(h) = 2
    BY <2>2, HeaderRead
  <2>4. FlattenSeq(u.subs) \in Seq(Nat)
    BY <2>2, FlattenType
  <2>5. p = u.syntax \o FlattenSeq(u.subs)
    BY Zenon DEF Payload
  <2> DEFINE a == u.syntax
             b == FlattenSeq(u.subs)
  <2>6. a \in Seq(Nat) /\ b \in Seq(Nat) /\ a # <<>> /\ p = a \o b
    BY <2>1, <2>2, <2>4, <2>5
  <2> HIDE DEF a, b, h, p
  <2>7. Len(a) \in Nat /\ Len(a) > 0
    BY <2>6, EmptySeq
  <2>8. p \in Seq(Nat) /\ Len(p) = Len(a) + Len(b) /\ p[1] = a[1]
    BY <2>6, <2>7
  <2>9. (h \o p)[3] = p[1]
    <3>1. 1 \in 1..Len(p) /\ 3 \in (Len(h) + 1)..(Len(h) + Len(p))
      <4>1. Len(b) \in Nat
        BY <2>6
      <4> QED BY <2>3, <2>7, <2>8, <4>1
    <3>2. (h \o p)[3] = p[3 - Len(h)]
      BY <2>3, <2>8, <3>1, Joined
    <3> QED BY <2>3, <3>2
  <2> QED BY <1>1, <2>8, <2>9 DEF a
<1> HIDE DEF nalu, c
<1> QED BY <1>1, <1>2, <1>3, Zenon DEF StartsNewPicture, Starting, nalu, c

\* Looking ahead for a new picture: the first unit that tells, and what it tells.
NewPictureFrom(k) ==
    \E j \in k..Len(sent) : /\ Telling(j) /\ Starting(sent[j])
                            /\ \A i \in k..(j - 1) : ~Telling(i)
Silent(k, j) == \A i \in k..j : ~Telling(i)

Look == [reader : [pos : Nat, future : Nat], eof : BOOLEAN, answer : BOOLEAN, done : BOOLEAN]
LookFrom(r) == [reader |-> r, eof |-> FALSE, answer |-> FALSE, done |-> FALSE]
LookOn(x) ==
    LET got  == byteStreamNALUnit(file, x.reader)
        nalu == read(got.unit)
    IN  IF x.done \/ x.eof THEN x
        ELSE [reader |-> got.reader, eof |-> got.eof,
              done   |-> got.unit # <<>> /\ Tells(nalu.type),
              answer |-> /\ got.unit # <<>>
                         /\ Tells(nalu.type)
                         /\ StartsNewPicture(nalu)]

\* A look after s steps from unit k.
Seen(x, k, s) ==
    /\ x \in Look
    /\ \/ x.done /\ (x.answer <=> NewPictureFrom(k))
       \/ ~x.done /\ ~x.answer /\ x.eof /\ Silent(k, Len(sent))
       \/ /\ ~x.done /\ ~x.answer /\ ~x.eof
          /\ k + s <= Len(sent) /\ Silent(k, k + s - 1)
          /\ InFront(file, starts[k + s], x.reader.pos - x.reader.future + 1)

LEMMA SeenMore ==
    ASSUME StreamInv, NEW k \in Nat, k > 0, NEW s \in Nat, NEW x, Seen(x, k, s)
    PROVE  Seen(LookOn(x), k, s + 1)
<1> DEFINE n == Len(sent)
           j == k + s
           got == byteStreamNALUnit(file, x.reader)
           nalu == read(got.unit)
           y == LookOn(x)
<1>1. x \in Look
  BY DEF Seen
<1>2. CASE x.done \/ x.eof
  <2>1. y = x
    BY <1>2, Zenon DEF LookOn
  <2> HIDE DEF y
  <2>2. Seen(y, k, s + 1)
    BY <1>2, <2>1 DEF Seen
  <2> QED BY <2>2 DEF y
<1>3. CASE ~x.done /\ ~x.eof
  <2>1. /\ ~x.answer /\ j <= n /\ Silent(k, j - 1)
        /\ InFront(file, starts[j], x.reader.pos - x.reader.future + 1)
    BY <1>3 DEF Seen
  <2>2. x.reader \in [pos : Nat, future : Nat]
    BY <1>1 DEF Look
  <2>3. n \in Nat /\ n = Len(starts)
    BY DEF StreamInv
  <2>4. j \in 1..Len(starts) /\ j \in k..n /\ j \in Nat
    <3> HIDE DEF n
    <3> QED BY <2>1, <2>3
  <2> HIDE DEF j, n
  <2>5. PICK u \in Units : sent[j] = Content(u) /\ UnitStands(file, starts, j, Written(u))
    BY <2>4 DEF StreamInv, UnitIs
  <2>6. /\ got.unit = Written(u) /\ got.unit # <<>>
        /\ got.eof = (j = n)
        /\ got.reader \in [pos : Nat, future : Nat]
        /\ j < n => InFront(file, starts[j + 1], got.reader.pos - got.reader.future + 1)
    BY <2>1, <2>2, <2>3, <2>4, <2>5, ReadsUnit
  <2>7. (Tells(nalu.type) <=> Telling(j)) /\ (StartsNewPicture(nalu) <=> Starting(sent[j]))
    <3>1. nalu.type = u.type /\ (StartsNewPicture(nalu) <=> Starting(Content(u)))
      BY <2>6, SameTold
    <3>2. sent[j].type = u.type
      BY <2>5 DEF Content
    <3> HIDE DEF nalu
    <3> QED BY <2>5, <3>1, <3>2, Zenon DEF Telling
  <2> HIDE DEF nalu, got
  <2>8. y = [reader |-> got.reader, eof |-> got.eof,
             done   |-> got.unit # <<>> /\ Tells(nalu.type),
             answer |-> /\ got.unit # <<>>
                        /\ Tells(nalu.type)
                        /\ StartsNewPicture(nalu)]
    BY <1>3, Zenon DEF LookOn, nalu, got
  <2> HIDE DEF y
  <2>9. /\ y \in Look /\ y.reader = got.reader /\ y.eof = (j = n)
        /\ y.done <=> Telling(j)
        /\ y.answer <=> Telling(j) /\ Starting(sent[j])
    <3>1. (j = n) \in BOOLEAN
      OBVIOUS
    <3> QED BY <2>6, <2>7, <2>8, <3>1 DEF Look
  <2>10. CASE Telling(j)
    <3>1. ASSUME NEW i \in k..n, Telling(i), Silent(k, i - 1) PROVE i = j
      <4>1. i \in Nat /\ ~(j \in k..(i - 1)) /\ ~(i \in k..(j - 1))
        BY <2>1, <2>3, <2>4, <2>10, <3>1 DEF Silent
      <4> QED BY <2>4, <4>1
    <3>2. NewPictureFrom(k) <=> Starting(sent[j])
      BY <2>1, <2>4, <2>10, <3>1 DEF NewPictureFrom, Silent, n
    <3>3. Seen(y, k, s + 1)
      BY <2>9, <2>10, <3>2 DEF Seen
    <3> QED BY <3>3 DEF y
  <2>11. CASE ~Telling(j)
    <3>1. Silent(k, j)
      <4>1. ASSUME NEW i \in k..j PROVE i = j \/ i \in k..(j - 1)
        BY <2>4
      <4> QED BY <2>1, <2>11, <4>1 DEF Silent
    <3>2. CASE j = n
      <4>1. Seen(y, k, s + 1)
        BY <2>9, <2>11, <3>1, <3>2 DEF Seen, n
      <4> QED BY <4>1 DEF y
    <3>3. CASE j # n
      <4>1. k + (s + 1) = j + 1 /\ j + 1 <= n /\ k + (s + 1) - 1 = j /\ j < n
        BY <2>3, <2>4, <3>3 DEF j
      <4>2. Seen(y, k, s + 1)
        BY <2>6, <2>9, <2>11, <3>1, <3>3, <4>1 DEF Seen, n
      <4> QED BY <4>2 DEF y
    <3> QED BY <3>2, <3>3
  <2> QED BY <2>10, <2>11
<1> QED BY <1>2, <1>3

\* A look-ahead tells whether the units that are left begin with those of a picture.
LEMMA Looking ==
    ASSUME ReaderInv, mode = "look", eof = FALSE, Len(sent) <= MaxUnits
    PROVE  LookAhead(reader, Tells, StartsNewPicture)
               <=> NewPictureFrom(Len(received) + 1)
<1> DEFINE k == Len(received) + 1
           N == MaxUnits
           base == LookFrom(reader)
           ahead[n \in 0..N] == IF n = 0 THEN base ELSE LookOn(ahead[n - 1])
           step == [xn \in Look \X (1..N) |->
                       IF LookOn(xn[1]) \in Look THEN LookOn(xn[1]) ELSE base]
<1>1. N \in Nat
  BY NalAssumption, Zenon
<1>2. LookAhead(reader, Tells, StartsNewPicture) = ahead[N].answer
  BY Zenon DEF LookAhead, LookOn, LookFrom
<1>3. StreamInv /\ reader \in [pos : Nat, future : Nat]
  BY DEF ReaderInv
<1>4. /\ k \in Nat /\ k > 0 /\ k \in 1..Len(sent) /\ Len(sent) \in Nat
      /\ InFront(file, starts[k], reader.pos - reader.future + 1)
  <2>1. mode \in Working
    BY DEF Working
  <2>2. Len(received) \in Nat /\ Facts(k) /\ InFront(file, starts[k], From)
    BY <2>1, UnitAhead
  <2>3. Len(sent) = Len(starts) /\ Len(sent) \in Nat
    BY <1>3 DEF StreamInv
  <2> QED BY <2>2, <2>3 DEF Facts, From
<1> HIDE DEF N, k
<1>5. Seen(base, k, 0)
  <2>1. base \in Look /\ ~base.done /\ ~base.answer /\ ~base.eof /\ base.reader = reader
    BY <1>3 DEF LookFrom, Look
  <2> HIDE DEF base
  <2>2. Silent(k, k - 1)
    <3>1. k..(k - 1) = {}
      BY <1>4
    <3> QED BY <3>1 DEF Silent
  <2>3. k + 0 = k /\ k + 0 - 1 = k - 1 /\ k <= Len(sent)
    BY <1>4
  <2> QED BY <1>4, <2>1, <2>2, <2>3 DEF Seen
<1> HIDE DEF base
<1>6. base \in Look
  BY <1>5 DEF Seen
<1>7. step \in [Look \X (1..N) -> Look]
  BY <1>6
<1>8. PICK f \in [0..N -> Look] :
         f[0] = base /\ \A n \in 1..N : f[n] = step[<<f[n - 1], n>>]
  <2> HIDE DEF step, ahead
  <2>1. Steppable(N, Look, base, step)
    BY <1>1, <1>6, <1>7 DEF Steppable
  <2>2. \E f : Steps(f, N, Look, base, step)
    BY <2>1, StepsExist
  <2> QED BY <2>2 DEF Steps
<1>9. \A n \in 1..N : f[n - 1] \in Look /\ n - 1 \in Nat
      /\ f[n] = IF LookOn(f[n - 1]) \in Look THEN LookOn(f[n - 1]) ELSE base
  <2>1. ASSUME NEW n \in 1..N
        PROVE  f[n - 1] \in Look /\ n - 1 \in Nat
               /\ f[n] = IF LookOn(f[n - 1]) \in Look THEN LookOn(f[n - 1]) ELSE base
    <3>1. n - 1 \in 0..N /\ n - 1 \in Nat
      BY <1>1
    <3>2. <<f[n - 1], n>> \in Look \X (1..N)
      BY <1>8, <3>1
    <3> QED BY <1>8, <3>1, <3>2
  <2> QED BY <2>1
<1> HIDE DEF step, ahead
<1>10. ASSUME NEW n \in 1..N, Seen(f[n - 1], k, n - 1)
       PROVE  f[n] = LookOn(f[n - 1]) /\ Seen(f[n], k, n)
  <2>1. n - 1 \in Nat /\ n - 1 + 1 = n
    BY <1>1
  <2>2. Seen(LookOn(f[n - 1]), k, n)
    BY <1>3, <1>4, <1>10, <2>1, SeenMore
  <2>3. LookOn(f[n - 1]) \in Look
    BY <2>2 DEF Seen
  <2> QED BY <1>9, <2>2, <2>3
<1>11. \A n \in 0..N : Seen(f[n], k, n)
  <2> DEFINE S == {n \in 0..N : Seen(f[n], k, n)}
  <2>1. 0 \in S
    BY <1>1, <1>5, <1>8
  <2>2. ASSUME NEW n \in 1..N, n - 1 \in S PROVE n \in S
    BY <1>10, <2>2
  <2> HIDE DEF S
  <2>3. 0..N \subseteq S
    BY <1>1, <2>1, <2>2, InductionTo
  <2> QED BY <2>3 DEF S
<1>12. f = [n \in 0..N |-> IF n = 0 THEN base ELSE LookOn(f[n - 1])]
  <2>1. ASSUME NEW n \in 0..N PROVE f[n] = IF n = 0 THEN base ELSE LookOn(f[n - 1])
    <3>1. CASE n = 0
      BY <1>8, <3>1
    <3>2. CASE n # 0
      <4>1. n \in 1..N /\ n - 1 \in 0..N
        BY <1>1, <3>2
      <4> QED BY <1>10, <1>11, <3>2, <4>1
    <3> QED BY <3>1, <3>2
  <2> QED BY <1>8, <2>1
<1>13. ahead = [n \in 0..N |-> IF n = 0 THEN base ELSE LookOn(ahead[n - 1])]
  BY <1>12 DEF ahead
<1>14. \A n \in 0..N : Seen(ahead[n], k, n)
  <2> DEFINE S == {n \in 0..N : Seen(ahead[n], k, n)}
  <2>0. 0 \in 0..N /\ N \in 0..N
    BY <1>1
  <2>1. 0 \in S
    <3>1. ahead[0] = base
      BY <1>13, <2>0
    <3> QED BY <1>5, <2>0, <3>1
  <2>2. ASSUME NEW n \in 1..N, n - 1 \in S PROVE n \in S
    <3>1. n - 1 \in Nat /\ n - 1 + 1 = n /\ n \in 0..N /\ n # 0
      BY <1>1
    <3>2. ahead[n] = LookOn(ahead[n - 1])
      BY <1>13, <3>1
    <3>3. Seen(LookOn(ahead[n - 1]), k, n - 1 + 1)
      BY <1>3, <1>4, <2>2, <3>1, SeenMore
    <3> QED BY <3>1, <3>2, <3>3
  <2> HIDE DEF S
  <2>3. 0..N \subseteq S
    BY <1>1, <2>1, <2>2, InductionTo
  <2> QED BY <2>3 DEF S
<1>15. Seen(ahead[N], k, N)
  BY <1>1, <1>14
<1>16. ahead[N].answer <=> NewPictureFrom(k)
  <2> DEFINE x == ahead[N]
  <2> HIDE DEF x
  <2>1. Seen(x, k, N)
    BY <1>15 DEF x
  <2>2. ~(k + N <= Len(sent))
    BY <1>1, <1>4 DEF N
  <2>3. Silent(k, Len(sent)) => ~NewPictureFrom(k)
    BY DEF Silent, NewPictureFrom
  <2>4. x.answer <=> NewPictureFrom(k)
    BY <2>1, <2>2, <2>3 DEF Seen
  <2> QED BY <2>4 DEF x
<1> QED BY <1>2, <1>16 DEF k

-----------------------------------------------------------------------------
(* The pictures of the units sent. *)
MayStand(j) == PartOf(j) \in MayFollow(PartOf(j + 1))
Counted(j) ==
    pictures[j + 1] = IF PartOf(j + 1) \in Opening /\ PartOf(j) # "prefix"
                      THEN pictures[j] + 1 ELSE pictures[j]

PicturesInv ==
    /\ pictures \in Seq(Nat) /\ Len(pictures) = Len(sent) /\ Len(sent) <= MaxUnits
    /\ picture \in Nat
    /\ IF Len(sent) = 0 THEN written = "end" /\ picture = 0
       ELSE /\ written = PartOf(Len(sent)) /\ picture = pictures[Len(sent)]
            /\ PartOf(1) \in Opening /\ pictures[1] = 1
    /\ \A j \in 1..(Len(sent) - 1) : MayStand(j) /\ Counted(j)
    /\ \A i, j \in 1..Len(sent) : i <= j => pictures[i] <= pictures[j]

LEMMA PicturesStart == Init => PicturesInv
<1> SUFFICES ASSUME Init PROVE PicturesInv
  OBVIOUS
<1>1. /\ pictures = <<>> /\ sent = <<>> /\ written = "end" /\ picture = 0
      /\ Len(<<>>) = 0 /\ MaxUnits \in Nat
  BY NalAssumption, Zenon DEF Init
<1>2. Len(sent) = 0
  BY <1>1
<1>3. pictures \in Seq(Nat) /\ Len(pictures) = 0
  BY <1>1
<1> QED BY <1>1, <1>2, <1>3 DEF PicturesInv

\* The parts of a picture come in their order.
LEMMA Order ==
    ASSUME NEW a \in Parts, NEW b \in Parts, a \in MayFollow(b)
    PROVE  /\ b = "slice" => a \in {"header", "slice"}
           /\ b \in {"suffix", "end"} => a \in {"slice", "picture", "suffix"}
           /\ b \in Opening => a # "header"
BY DEF MayFollow, Parts, Opening

LEMMA PicturesWrites ==
    ASSUME StreamInv, PicturesInv, NEW u \in Units, Write(u)
    PROVE  PicturesInv'
<1> DEFINE n == Len(sent)
           c == Content(u)
           s == Append(sent, c)
           starting == Part(u) \in Opening /\ written # "prefix"
           next == IF starting THEN picture + 1 ELSE picture
           t == Append(pictures, next)
           P(j) == Part(s[j])
<1>1. /\ n < MaxUnits /\ written \in MayFollow(Part(u))
      /\ picture' = next /\ pictures' = Append(pictures, picture') /\ written' = Part(u)
      /\ sent' = s
  BY DEF Write, StartsPicture, Opening
<1>2. /\ pictures \in Seq(Nat) /\ Len(pictures) = n /\ picture \in Nat /\ n \in Nat
      /\ MaxUnits \in Nat /\ sent \in Seq(Contents) /\ c \in Contents
  BY NalAssumption, Zenon, LenProperties DEF PicturesInv, StreamInv, Contents
<1>3. Part(c) = Part(u) /\ Part(u) \in Parts
  BY WhatIs
<1> HIDE DEF c, n
<1>4. Len(s) = n + 1 /\ s[n + 1] = c /\ \A j \in 1..n : s[j] = sent[j]
  BY <1>2, AppendedAny DEF n
<1>5. next \in Nat
  BY <1>2
<1> HIDE DEF next, starting
<1>6. t \in Seq(Nat) /\ Len(t) = n + 1 /\ t[n + 1] = next /\ \A j \in 1..n : t[j] = pictures[j]
  BY <1>2, <1>5, Appended
<1>7. pictures' = t /\ Len(sent') = n + 1
  BY <1>1, <1>4
<1> HIDE DEF s, t, P
<1>8. /\ P(n + 1) = Part(u) /\ \A j \in 1..n : P(j) = PartOf(j)
      /\ \A j : PartOf(j)' = P(j)
  BY <1>1, <1>3, <1>4 DEF PartOf, P
<1>9. n > 0 => n \in 1..n /\ written = PartOf(n) /\ picture = pictures[n]
               /\ PartOf(1) \in Opening /\ pictures[1] = 1 /\ 1 \in 1..n
  BY <1>2 DEF PicturesInv, n
<1>10. n = 0 => written = "end" /\ picture = 0
  BY DEF PicturesInv, n
<1>11. P(1) \in Opening /\ t[1] = 1
  <2>1. CASE n = 0
    <3>1. Part(u) \in Opening
      BY <1>1, <1>3, <1>10, <2>1, Order DEF Parts, Opening
    <3>2. starting /\ next = 1
      BY <1>10, <2>1, <3>1 DEF next, starting
    <3>3. n + 1 = 1
      BY <2>1
    <3> QED BY <1>6, <1>8, <3>1, <3>2, <3>3
  <2>2. CASE n > 0
    BY <1>6, <1>8, <1>9, <2>2
  <2> QED BY <1>2, <2>1, <2>2
<1>12. ASSUME NEW j \in 1..n PROVE MayStand(j)' /\ Counted(j)'
  <2>1. CASE j = n
    <3>1. n > 0
      BY <1>2, <2>1
    <3>2. P(n) = written /\ t[n] = picture
      BY <1>6, <1>8, <1>9, <3>1
    <3> QED BY <1>1, <1>6, <1>7, <1>8, <2>1, <3>2 DEF MayStand, Counted, next, starting
  <2>2. CASE j # n
    <3>1. j \in 1..(n - 1) /\ j + 1 \in 1..n
      BY <1>2, <2>2
    <3>2. MayStand(j) /\ Counted(j)
      BY <3>1 DEF PicturesInv, n
    <3>3. P(j + 1) = PartOf(j + 1) /\ P(j) = PartOf(j)
      BY <1>8, <3>1
    <3>4. t[j + 1] = pictures[j + 1] /\ t[j] = pictures[j]
      BY <1>6, <3>1
    <3> QED BY <1>7, <1>8, <3>2, <3>3, <3>4 DEF MayStand, Counted
  <2> QED BY <2>1, <2>2
<1>13. ASSUME NEW i \in 1..(n + 1), NEW j \in 1..(n + 1), i <= j
       PROVE  t[i] <= t[j]
  <2>1. CASE j \in 1..n
    <3>1. i \in 1..n
      BY <1>2, <1>13, <2>1
    <3> QED BY <1>6, <1>13, <2>1, <3>1 DEF PicturesInv, n
  <2>2. CASE j = n + 1 /\ i = n + 1
    BY <1>5, <1>6, <2>2
  <2>3. CASE j = n + 1 /\ i \in 1..n
    <3>1. n > 0 /\ n \in 1..n /\ i <= n
      BY <1>2, <2>3
    <3>2. pictures[i] <= picture /\ pictures[i] \in Nat
      BY <1>2, <1>9, <2>3, <3>1 DEF PicturesInv, n
    <3>3. picture <= next
      BY <1>2 DEF next
    <3> QED BY <1>2, <1>5, <1>6, <2>3, <3>2, <3>3
  <2> QED BY <1>2, <2>1, <2>2, <2>3
<1>14. Len(sent') # 0 /\ Len(sent') - 1 = n /\ Len(sent') <= MaxUnits
  BY <1>1, <1>2, <1>7
<1>15. written' = P(n + 1) /\ picture' = t[n + 1]
  BY <1>1, <1>6, <1>8
<1>16. written' = PartOf(Len(sent))' /\ PartOf(1)' \in Opening
       /\ picture' = pictures'[Len(sent')] /\ pictures'[1] = 1
  <2>1. PartOf(Len(sent))' = Part(sent'[Len(sent')]) /\ PartOf(1)' = P(1)
    BY <1>8 DEF PartOf
  <2>2. Part(sent'[Len(sent')]) = P(n + 1)
    BY <1>1, <1>7 DEF P
  <2> QED BY <1>7, <1>11, <1>15, <2>1, <2>2
<1> QED BY <1>1, <1>5, <1>6, <1>7, <1>12, <1>13, <1>14, <1>16 DEF PicturesInv

-----------------------------------------------------------------------------
(* The pictures of the decoder, which reads unit k next. *)

\* No slice of the picture of k has been read.
AtFirst(k) ==
    /\ pictures[k] = finished + 1
    /\ \A j \in 1..(k - 1) : IsVcl(j) => pictures[j] <= finished
    /\ PartOf(k) \in Opening \/ (k > 1 /\ PartOf(k) = "slice" /\ PartOf(k - 1) = "header")

\* The picture of the unit in front of k has begun, and an EOS has not finished it.
Inside(k) ==
    /\ PartOf(k - 1) \in {"slice", "picture", "suffix"}
    /\ pictures[k - 1] = finished + 1
    /\ \E j \in 1..(k - 1) : IsVcl(j) /\ pictures[j] = pictures[k - 1]

\* An EOS has finished it.
Closed(k) == PartOf(k - 1) = "end" /\ pictures[k - 1] = finished

\* From j on there are prefix units without a picture.
Trailing(j) == \A i \in j..Len(sent) : PartOf(i) = "prefix" /\ ~Telling(i)

Upcoming == Len(received) + 1

PictureInv ==
    /\ PicturesInv
    /\ \A j \in 1..Len(received) : received[j] = sent[j]
    /\ finished \in Nat /\ firstSliceInPicture \in BOOLEAN
    /\ mode = "write" => finished = 0
    /\ mode \in Working /\ eof = FALSE =>
          IF firstSliceInPicture THEN mode \in {"look", "read"} /\ AtFirst(Upcoming)
          ELSE /\ Upcoming > 1
               /\ \/ Trailing(Upcoming - 1) /\ mode \in {"look", "read"}
                  \/ /\ Inside(Upcoming) \/ Closed(Upcoming)
                     /\ mode \in {"access unit", "finish"} => PartOf(Upcoming) \in Opening
                     /\ mode = "read" => PartOf(Upcoming) \notin Opening \/ Trailing(Upcoming)

\* A look-ahead between two pictures.
LEMMA FoundPicture ==
    ASSUME StreamInv, PicturesInv, NEW k \in 1..Len(sent), NewPictureFrom(k)
    PROVE  PartOf(k) \in Opening
<1>1. PICK j \in k..Len(sent) : Telling(j) /\ Starting(sent[j]) /\ \A i \in k..(j - 1) : ~Telling(i)
  BY DEF NewPictureFrom
<1>2. PartOf(k) \in Parts
  BY WhatIsSent
<1>3. CASE j = k
  BY <1>1, <1>2, <1>3, WhatIsSent DEF Parts, Opening
<1>4. CASE j # k
  <2>1. k \in k..(j - 1)
    BY <1>1, <1>4
  <2> QED BY <1>1, <1>2, <2>1, WhatIsSent DEF Parts, Opening
<1> QED BY <1>3, <1>4

LEMMA NoPictureFound ==
    ASSUME StreamInv, PicturesInv, NEW k \in 1..Len(sent), ~NewPictureFrom(k),
           PartOf(k) \in Opening
    PROVE  Trailing(k)
<1> DEFINE n == Len(sent)
<1>0. n \in Nat
  BY DEF StreamInv
<1>1. ASSUME NEW i \in k..n, Silent(k, i) PROVE PartOf(i) = "prefix"
  <2>1. i \in k..i /\ i \in 1..Len(sent)
    BY <1>0
  <2>2. ~Telling(i) /\ PartOf(i) \in Parts
    BY <1>1, <2>1, WhatIsSent DEF Silent
  <2> QED BY <2>1, <2>2, WhatIsSent DEF Parts
<1>2. ASSUME NEW i \in k..n, Silent(k, i - 1) PROVE Silent(k, i)
  <2>1. i \in 1..Len(sent) /\ i \in Nat
    BY <1>0
  <2>2. PartOf(i) \in Opening
    <3>1. CASE i = k
      BY <3>1
    <3>2. CASE i # k
      <4>1. i - 1 \in k..n /\ i - 1 \in 1..(n - 1) /\ i - 1 + 1 = i
        BY <1>0, <3>2
      <4>2. PartOf(i - 1) = "prefix"
        BY <1>1, <1>2, <4>1
      <4>3. MayStand(i - 1)
        BY <4>1 DEF PicturesInv
      <4>4. "prefix" \in MayFollow(PartOf(i)) /\ PartOf(i) \in Parts
        BY <2>1, <4>1, <4>2, <4>3, WhatIsSent DEF MayStand
      <4> QED BY <4>4, Order DEF Parts, Opening
    <3> QED BY <3>1, <3>2
  <2>3. Telling(i) => Starting(sent[i])
    BY <2>1, <2>2, WhatIsSent DEF Opening
  <2>4. ~(Telling(i) /\ Starting(sent[i]))
    BY <1>2 DEF NewPictureFrom, Silent
  <2>5. ASSUME NEW m \in k..i PROVE m = i \/ m \in k..(i - 1)
    BY <2>1
  <2> QED BY <1>2, <2>3, <2>4, <2>5 DEF Silent
<1>3. ASSUME NEW i \in k..n PROVE Silent(k, i)
  <2> DEFINE S == {m \in 0..(n - k) : Silent(k, k + m)}
  <2>1. n - k \in Nat /\ k \in k..n /\ k \in Nat
    BY <1>0
  <2>2. 0 \in S
    <3>1. k..(k - 1) = {} /\ k + 0 = k
      BY <2>1
    <3>2. Silent(k, k)
      BY <1>2, <2>1, <3>1 DEF Silent
    <3> QED BY <2>1, <3>1, <3>2
  <2>3. ASSUME NEW m \in 1..(n - k), m - 1 \in S PROVE m \in S
    <3>1. k + m \in k..n /\ k + m - 1 = k + (m - 1) /\ m \in 0..(n - k)
      BY <2>1
    <3> QED BY <1>2, <2>3, <3>1
  <2> HIDE DEF S
  <2>4. 0..(n - k) \subseteq S
    BY <2>1, <2>2, <2>3, InductionTo
  <2>5. i - k \in 0..(n - k) /\ k + (i - k) = i
    BY <2>1
  <2> QED BY <2>4, <2>5 DEF S
<1>4. ASSUME NEW i \in k..n PROVE PartOf(i) = "prefix" /\ ~Telling(i)
  <2>1. i \in k..i
    BY <1>0
  <2> QED BY <1>1, <1>3, <2>1 DEF Silent
<1> QED BY <1>4 DEF Trailing

LEMMA PictureStart == Init => PictureInv
<1> SUFFICES ASSUME Init PROVE PictureInv
  OBVIOUS
<1>1. mode = "write" /\ received = <<>> /\ finished = 0 /\ firstSliceInPicture = TRUE
  BY DEF Init
<1>2. mode \notin Working /\ 1..Len(received) = {}
  BY <1>1 DEF Working
<1> QED BY <1>1, <1>2, PicturesStart DEF PictureInv

\* Where the decoder is, as long as there is a unit in front of it.
LEMMA UnitsLeft ==
    ASSUME ReaderInv, mode \in Working, eof = FALSE
    PROVE  /\ StreamInv /\ Upcoming \in 1..Len(sent) /\ Upcoming \in Nat
           /\ Len(sent) \in Nat /\ Len(received) \in Nat /\ Upcoming = Len(received) + 1
<1>1. StreamInv
  BY DEF ReaderInv
<1>2. Len(received) \in Nat /\ Facts(Len(received) + 1)
  BY UnitAhead
<1>3. Len(sent) = Len(starts) /\ Len(sent) \in Nat
  BY <1>1 DEF StreamInv
<1> QED BY <1>1, <1>2, <1>3 DEF Facts, Upcoming

\* What the invariant says of the pictures depends on these variables alone.
LEMMA SamePictures ==
    ASSUME UNCHANGED writer, UNCHANGED received
    PROVE  /\ PicturesInv => PicturesInv'
           /\ Upcoming' = Upcoming /\ Len(sent)' = Len(sent)
           /\ \A j : PartOf(j)' = PartOf(j) /\ IsVcl(j)' = IsVcl(j)
           /\ \A j : Trailing(j)' = Trailing(j)
           /\ (\A j \in 1..Len(received) : received[j] = sent[j])
              => \A j \in 1..Len(received') : received'[j] = sent'[j]
<1>1. UNCHANGED <<sent, pictures, picture, written, received>>
  BY DEF writer
<1>2. \A j : PartOf(j)' = PartOf(j) /\ IsVcl(j)' = IsVcl(j) /\ Telling(j)' = Telling(j)
  BY <1>1 DEF PartOf, IsVcl, Telling
<1>3. \A j : Trailing(j)' = Trailing(j)
  BY <1>1, <1>2 DEF Trailing
<1>4. PicturesInv => PicturesInv'
  BY <1>1, <1>2 DEF PicturesInv, MayStand, Counted
<1> QED BY <1>1, <1>2, <1>3, <1>4 DEF Upcoming

LEMMA PictureWrites ==
    ASSUME ReaderInv, PictureInv, NEW u \in Units, Write(u)
    PROVE  PictureInv'
<1>1. PicturesInv'
  BY PicturesWrites DEF ReaderInv, PictureInv
<1>2. mode = "write" /\ UNCHANGED <<mode, received, firstSliceInPicture, finished, eof>>
  BY DEF Write, decoder
<1>3. received = <<>>
  BY <1>2 DEF ReaderInv
<1>4. 1..Len(received') = {}
  BY <1>2, <1>3
<1>5. mode' \notin Working
  BY <1>2 DEF Working
<1> QED BY <1>1, <1>2, <1>4, <1>5 DEF PictureInv

LEMMA PictureCloses ==
    ASSUME ReaderInv, PictureInv, CloseFile
    PROVE  PictureInv'
<1>1. mode = "write" /\ sent # <<>> /\ mode' = "look" /\ UNCHANGED <<writer, decoder>>
  BY DEF CloseFile
<1>2. UNCHANGED <<received, firstSliceInPicture, finished, eof, pictures, sent>>
  BY <1>1 DEF decoder, writer
<1>3. received = <<>> /\ firstSliceInPicture /\ finished = 0 /\ Len(received) = 0
  BY <1>1 DEF ReaderInv, PictureInv
<1>4. Upcoming' = 1
  BY <1>2, <1>3 DEF Upcoming
<1>5. Len(sent) # 0
  BY <1>1, EmptySeq DEF ReaderInv, StreamInv
<1>6. PicturesInv' /\ (\A j : PartOf(j)' = PartOf(j))
  BY <1>1, <1>2, SamePictures DEF PictureInv
<1>7. PartOf(1) \in Opening /\ pictures[1] = 1
  BY <1>5 DEF PictureInv, PicturesInv
<1>8. AtFirst(1)'
  <2>1. 1..(1 - 1) = {}
    OBVIOUS
  <2> QED BY <1>2, <1>3, <1>6, <1>7, <2>1 DEF AtFirst
<1>9. 1..Len(received') = {}
  BY <1>2, <1>3
<1>10. AtFirst(Upcoming)'
  BY <1>4, <1>8
<1> QED BY <1>1, <1>2, <1>3, <1>6, <1>9, <1>10 DEF PictureInv

LEMMA PictureLooks ==
    ASSUME ReaderInv, PictureInv, IsNewPicture
    PROVE  PictureInv'
<1> DEFINE k == Upcoming
<1>1. /\ mode = "look" /\ eof = FALSE
      /\ UNCHANGED <<writer, received, eof, firstSliceInPicture, finished>>
      /\ mode' \in {"access unit", "finish", "read"}
      /\ firstSliceInPicture => mode' = "read"
      /\ ~firstSliceInPicture =>
            (mode' = "read" <=> ~LookAhead(reader, Tells, StartsNewPicture))
  BY DEF IsNewPicture, ReaderInv
<1>2. mode \in Working
  BY <1>1 DEF Working
<1>3. StreamInv /\ k \in 1..Len(sent) /\ k \in Nat /\ Len(sent) \in Nat
  BY <1>1, <1>2, UnitsLeft
<1>4. Len(sent) <= MaxUnits /\ PicturesInv
  BY DEF PictureInv, PicturesInv
<1>5. LookAhead(reader, Tells, StartsNewPicture) <=> NewPictureFrom(k)
  BY <1>1, <1>4, Looking DEF Upcoming
<1>6. /\ PicturesInv' /\ k' = k /\ \A j : PartOf(j)' = PartOf(j) /\ IsVcl(j)' = IsVcl(j)
      /\ \A j : Trailing(j)' = Trailing(j)
      /\ \A j \in 1..Len(received') : received'[j] = sent'[j]
  BY <1>1, SamePictures DEF PictureInv
<1>7. pictures' = pictures
  BY <1>1 DEF writer
<1> HIDE DEF k
<1>8. CASE firstSliceInPicture
  <2>1. AtFirst(k)
    BY <1>1, <1>2, <1>8 DEF PictureInv, k
  <2>2. AtFirst(k)'
    BY <1>1, <1>6, <1>7, <2>1 DEF AtFirst
  <2>3. AtFirst(Upcoming)'
    BY <2>2 DEF k
  <2> QED BY <1>1, <1>6, <1>8, <2>3 DEF PictureInv
<1>9. CASE ~firstSliceInPicture
  <2>1. k > 1 /\ (Trailing(k - 1) \/ Inside(k) \/ Closed(k))
    BY <1>1, <1>2, <1>9 DEF PictureInv, k
  <2>2. Trailing(k - 1) => ~NewPictureFrom(k)
    <3>1. k..Len(sent) \subseteq (k - 1)..Len(sent)
      BY <1>3
    <3> QED BY <3>1 DEF Trailing, NewPictureFrom
  <2>3. NewPictureFrom(k) => PartOf(k) \in Opening
    BY <1>3, <1>4, FoundPicture
  <2>4. ~NewPictureFrom(k) /\ PartOf(k) \in Opening => Trailing(k)
    BY <1>3, <1>4, NoPictureFound
  <2>5. (Inside(k) => Inside(k)') /\ (Closed(k) => Closed(k)')
    BY <1>1, <1>6, <1>7 DEF Inside, Closed
  <2>6. mode' = "read" <=> ~NewPictureFrom(k)
    BY <1>1, <1>5, <1>9
  <2>7. \/ Trailing(k - 1)' /\ mode' = "read"
        \/ /\ Inside(k)' \/ Closed(k)'
           /\ mode' \in {"access unit", "finish"} => PartOf(k)' \in Opening
           /\ mode' = "read" => PartOf(k)' \notin Opening \/ Trailing(k)'
    <3>1. k' = k
      BY <1>6
    <3>2. (k - 1)' = k - 1
      BY <3>1
    <3>3. Trailing(k - 1)' = Trailing(k - 1) /\ Trailing(k)' = Trailing(k) /\ PartOf(k)' = PartOf(k)
      BY <1>6
    <3> QED BY <1>1, <2>1, <2>2, <2>3, <2>4, <2>5, <2>6, <3>3
  <2> QED BY <1>1, <1>6, <1>9, <2>1, <2>7 DEF PictureInv, k
<1> QED BY <1>8, <1>9

LEMMA PictureLooksOn ==
    ASSUME ReaderInv, PictureInv, IsNewAccessUnit
    PROVE  PictureInv'
<1> DEFINE k == Upcoming
<1>1. /\ mode = "access unit" /\ mode' = "finish"
      /\ UNCHANGED <<writer, received, eof, firstSliceInPicture, finished>>
  BY DEF IsNewAccessUnit
<1>2. mode \in Working /\ eof = FALSE
  BY <1>1 DEF Working, ReaderInv
<1>3. /\ PicturesInv' /\ k' = k /\ \A j : PartOf(j)' = PartOf(j) /\ IsVcl(j)' = IsVcl(j)
      /\ \A j \in 1..Len(received') : received'[j] = sent'[j]
  BY <1>1, SamePictures DEF PictureInv
<1>4. pictures' = pictures
  BY <1>1 DEF writer
<1> HIDE DEF k
<1>5. /\ ~firstSliceInPicture /\ k > 1 /\ PartOf(k) \in Opening
      /\ Inside(k) \/ Closed(k)
  BY <1>1, <1>2 DEF PictureInv, k
<1>6. (Inside(k) => Inside(k)') /\ (Closed(k) => Closed(k)') /\ PartOf(k)' \in Opening
  BY <1>1, <1>3, <1>4, <1>5 DEF Inside, Closed
<1> QED BY <1>1, <1>3, <1>5, <1>6 DEF PictureInv, k

\* The unit in front of the decoder and the one that it read last.
LEMMA TwoUnits ==
    ASSUME ReaderInv, PictureInv, mode \in Working, eof = FALSE, Upcoming > 1
    PROVE  LET k == Upcoming IN
           /\ k - 1 \in 1..Len(sent) /\ received[k - 1] = sent[k - 1]
           /\ Len(received) = k - 1
           /\ pictures[k - 1] \in Nat /\ pictures[k] \in Nat
           /\ PartOf(k - 1) \in MayFollow(PartOf(k))
           /\ PartOf(k - 1) \in Parts /\ PartOf(k) \in Parts
           /\ pictures[k] = IF PartOf(k) \in Opening /\ PartOf(k - 1) # "prefix"
                            THEN pictures[k - 1] + 1 ELSE pictures[k - 1]
<1> DEFINE k == Upcoming
           n == Len(sent)
<1>1. /\ StreamInv /\ k \in 1..n /\ k \in Nat /\ n \in Nat /\ Len(received) \in Nat
      /\ k = Len(received) + 1
  BY UnitsLeft
<1> HIDE DEF k, n
<1>2. /\ k - 1 \in 1..n /\ k - 1 \in 1..(n - 1) /\ (k - 1) + 1 = k /\ k > 1
      /\ Len(received) = k - 1 /\ k - 1 \in 1..Len(received)
  BY <1>1 DEF k
<1>3. MayStand(k - 1) /\ Counted(k - 1)
  BY <1>2 DEF PictureInv, PicturesInv, n
<1>4. PartOf(k - 1) \in MayFollow(PartOf(k))
      /\ pictures[k] = IF PartOf(k) \in Opening /\ PartOf(k - 1) # "prefix"
                       THEN pictures[k - 1] + 1 ELSE pictures[k - 1]
  BY <1>2, <1>3 DEF MayStand, Counted
<1>5. pictures \in Seq(Nat) /\ Len(pictures) = n
  BY DEF PictureInv, PicturesInv, n
<1>6. pictures[k - 1] \in Nat /\ pictures[k] \in Nat
  BY <1>1, <1>2, <1>5
<1>7. received[k - 1] = sent[k - 1]
  BY <1>2 DEF PictureInv
<1>8. PartOf(k - 1) \in Parts /\ PartOf(k) \in Parts
  BY <1>1, <1>2, WhatIsSent DEF n
<1> QED BY <1>2, <1>4, <1>6, <1>7, <1>8 DEF k, n

LEMMA PictureFinishes ==
    ASSUME ReaderInv, PictureInv, FinishPicture
    PROVE  PictureInv'
<1> DEFINE k == Upcoming
<1>1. /\ mode = "finish" /\ mode' = "look" /\ firstSliceInPicture' = TRUE
      /\ finished' = IF received[Len(received)].type = EOS THEN finished ELSE finished + 1
      /\ UNCHANGED <<writer, received, eof>>
  BY DEF FinishPicture
<1>2. mode \in Working /\ eof = FALSE
  BY <1>1 DEF Working, ReaderInv
<1>3. /\ PicturesInv' /\ k' = k /\ \A j : PartOf(j)' = PartOf(j) /\ IsVcl(j)' = IsVcl(j)
      /\ \A j \in 1..Len(received') : received'[j] = sent'[j]
  BY <1>1, SamePictures DEF PictureInv
<1>4. pictures' = pictures
  BY <1>1 DEF writer
<1>5. /\ ~firstSliceInPicture /\ k > 1 /\ PartOf(k) \in Opening
      /\ Inside(k) \/ Closed(k)
  BY <1>1, <1>2 DEF PictureInv
<1>6. /\ k - 1 \in 1..Len(sent) /\ received[k - 1] = sent[k - 1] /\ Len(received) = k - 1
      /\ pictures[k - 1] \in Nat /\ pictures[k] \in Nat
      /\ pictures[k] = IF PartOf(k) \in Opening /\ PartOf(k - 1) # "prefix"
                       THEN pictures[k - 1] + 1 ELSE pictures[k - 1]
  BY <1>2, <1>5, TwoUnits
<1> HIDE DEF k
<1>7. finished \in Nat /\ StreamInv
  BY DEF PictureInv, ReaderInv
<1>8. received[Len(received)].type = EOS <=> PartOf(k - 1) = "end"
  BY <1>6, <1>7, WhatIsSent
<1>9. finished' = pictures[k - 1] /\ PartOf(k - 1) # "prefix"
  <2>1. CASE Inside(k)
    BY <1>1, <1>7, <1>8, <2>1 DEF Inside
  <2>2. CASE Closed(k)
    BY <1>1, <1>8, <2>2 DEF Closed
  <2> QED BY <1>5, <2>1, <2>2
<1>10. pictures[k] = finished' + 1 /\ finished' \in Nat
  BY <1>5, <1>6, <1>9
<1>11. ASSUME NEW j \in 1..(k - 1) PROVE pictures[j] <= finished'
  <2>1. j \in 1..Len(sent) /\ j <= k - 1
    BY <1>6
  <2>2. pictures[j] <= pictures[k - 1]
    BY <1>6, <2>1 DEF PictureInv, PicturesInv
  <2> QED BY <1>9, <2>2
<1>12. AtFirst(k)'
  BY <1>3, <1>4, <1>5, <1>10, <1>11 DEF AtFirst
<1>13. AtFirst(Upcoming)'
  BY <1>12 DEF k
<1> QED BY <1>1, <1>3, <1>10, <1>13 DEF PictureInv

\* A unit read is the one sent.
LEMMA ReadsSent ==
    ASSUME ReaderInv, PictureInv, ReadUnit
    PROVE  /\ mode = "read" /\ eof = FALSE /\ mode' = "look"
           /\ UNCHANGED writer
           /\ received' = Append(received, sent[Upcoming])
           /\ eof' = (Upcoming = Len(sent))
           /\ firstSliceInPicture' =
                 (firstSliceInPicture /\ sent[Upcoming].type \notin VclTypes \cup {EOS})
           /\ finished' = IF sent[Upcoming].type = EOS THEN finished + 1 ELSE finished
<1> DEFINE got == byteStreamNALUnit(file, reader)
           nalu == read(got.unit)
           k == Upcoming
<1>1. mode = "read" /\ UNCHANGED writer /\ eof' = got.eof
  BY DEF ReadUnit
<1>2. eof = FALSE /\ reader \in [pos : Nat, future : Nat] /\ mode \in Working
  BY <1>1 DEF ReaderInv, Working
<1>3. StreamInv /\ k \in 1..Len(sent) /\ Len(received) \in Nat /\ k = Len(received) + 1
  BY <1>2, UnitsLeft
<1>4. Facts(k) /\ InFront(file, starts[k], reader.pos - reader.future + 1)
  BY <1>2, <1>3, UnitAhead DEF From, Upcoming
<1>5. PICK u \in Units : /\ sent[k] = Content(u) /\ offsets[k] = EntryPoints(u)
                         /\ UnitStands(file, starts, k, Written(u))
  BY <1>4 DEF Facts
<1>6. k \in 1..Len(starts) /\ Len(starts) = Len(sent) /\ Len(sent) \in Nat
  BY <1>3 DEF StreamInv
<1> HIDE DEF k
<1>7. got.unit = Written(u) /\ got.unit # <<>> /\ got.eof = (k = Len(starts))
  BY <1>2, <1>3, <1>4, <1>5, <1>6, ReadsUnit
<1>8. nalu.sound /\ nalu.type = u.type
  BY <1>7, UnitsRead
<1>9. Parsed(nalu, Len(sent[k].syntax), offsets[k]) = sent[k] /\ sent[k].type = u.type
  <2>1. sent[k].syntax = u.syntax /\ sent[k].type = u.type
    BY <1>5 DEF Content
  <2> QED BY <1>5, <1>7, <2>1, UnitsParsed
<1>10. k <= Len(sent)
  BY <1>6
<1> HIDE DEF got, nalu
<1>11. /\ mode' = "look"
       /\ received' = Append(received, Parsed(nalu, Len(sent[k].syntax), offsets[k]))
       /\ firstSliceInPicture' = (firstSliceInPicture /\ nalu.type \notin VclTypes \cup {EOS})
       /\ finished' = IF nalu.type = EOS THEN finished + 1 ELSE finished
  BY <1>3, <1>7, <1>8, <1>10, Zenon DEF ReadUnit, got, nalu
<1>12. eof' = (k = Len(sent))
  BY <1>1, <1>6, <1>7
<1>13. nalu.type = sent[k].type
  BY <1>8, <1>9
<1>14. received' = Append(received, sent[k])
  BY <1>9, <1>11
<1> QED BY <1>1, <1>2, <1>11, <1>12, <1>13, <1>14 DEF k

\* Reading a unit, the decoder goes on in its picture, or begins it, or ends it.
LEMMA PictureReads ==
    ASSUME ReaderInv, PictureInv, ReadUnit
    PROVE  PictureInv'
<1>1. PICK k : k = Upcoming
  OBVIOUS
<1> DEFINE c == sent[k]
           n == Len(sent)
<1>2. /\ mode = "read" /\ eof = FALSE /\ mode' = "look" /\ UNCHANGED writer
      /\ received' = Append(received, c) /\ eof' = (k = n)
      /\ firstSliceInPicture' = (firstSliceInPicture /\ c.type \notin VclTypes \cup {EOS})
      /\ finished' = IF c.type = EOS THEN finished + 1 ELSE finished
  BY <1>1, ReadsSent
<1>3. /\ mode \in Working
      /\ StreamInv /\ k \in 1..n /\ k \in Nat /\ n \in Nat
      /\ Len(received) \in Nat /\ k = Len(received) + 1
  <2>1. mode \in Working
    BY <1>2 DEF Working
  <2> QED BY <1>1, <1>2, <2>1, UnitsLeft
<1>4. UNCHANGED <<sent, pictures, picture, written>>
  BY <1>2 DEF writer
<1>5. \A j : PartOf(j)' = PartOf(j) /\ IsVcl(j)' = IsVcl(j) /\ Telling(j)' = Telling(j)
  BY <1>4 DEF PartOf, IsVcl, Telling
<1>6. PicturesInv'
  BY <1>4, <1>5 DEF PictureInv, PicturesInv, MayStand, Counted
<1>7. Len(received') = k /\ \A j \in 1..Len(received') : received'[j] = sent'[j]
  <2>1. PICK S : received \in Seq(S)
    BY DEF ReaderInv
  <2>2. c \in S \cup {c} /\ received \in Seq(S \cup {c})
    BY <2>1
  <2> HIDE DEF c
  <2>3. /\ Len(received') = k /\ received'[k] = c
        /\ \A j \in 1..Len(received) : received'[j] = received[j]
    BY <1>2, <1>3, <2>2, AppendedAny
  <2>4. ASSUME NEW j \in 1..k PROVE j = k \/ j \in 1..Len(received)
    BY <1>3
  <2> QED BY <1>4, <2>3, <2>4 DEF PictureInv, c
<1>8. Upcoming' = k + 1
  BY <1>7 DEF Upcoming
<1>9. /\ PartOf(k) \in Parts
      /\ c.type \in VclTypes <=> PartOf(k) \in {"picture", "slice"}
      /\ c.type = EOS <=> PartOf(k) = "end"
      /\ IsVcl(k) <=> c.type \in VclTypes
  BY <1>3, WhatIsSent DEF IsVcl
<1> HIDE DEF c, n
<1>10. /\ finished \in Nat /\ finished' \in Nat
       /\ firstSliceInPicture \in BOOLEAN /\ firstSliceInPicture' \in BOOLEAN
  BY <1>2 DEF PictureInv
<1>11. /\ (k + 1) - 1 = k /\ k \in 1..k /\ k + 1 > 1
       /\ \A j \in 1..k : j = k \/ j \in 1..(k - 1)
  BY <1>3
<1>12. SUFFICES ASSUME eof' = FALSE
                PROVE  IF firstSliceInPicture' THEN AtFirst(k + 1)'
                       ELSE Trailing(k)' \/ Inside(k + 1)' \/ Closed(k + 1)'
  <2>1. mode' \notin {"access unit", "finish", "read", "write"} /\ mode' \in {"look", "read"}
    BY <1>2
  <2> DEFINE Goal == IF firstSliceInPicture' THEN AtFirst(k + 1)'
                     ELSE Trailing(k)' \/ Inside(k + 1)' \/ Closed(k + 1)'
  <2>2. SUFFICES ASSUME eof' = FALSE => Goal PROVE PictureInv'
    OBVIOUS
  <2>3. ASSUME eof' = FALSE
        PROVE  IF firstSliceInPicture' THEN mode' \in {"look", "read"} /\ AtFirst(Upcoming)'
               ELSE /\ Upcoming' > 1
                    /\ \/ Trailing(Upcoming - 1)' /\ mode' \in {"look", "read"}
                       \/ /\ Inside(Upcoming)' \/ Closed(Upcoming)'
                          /\ mode' \in {"access unit", "finish"} => PartOf(Upcoming)' \in Opening
                          /\ mode' = "read" =>
                                PartOf(Upcoming)' \notin Opening \/ Trailing(Upcoming)'
    BY <1>2, <1>8, <1>11, <2>2, <2>3
  <2> QED BY <1>2, <1>6, <1>7, <1>10, <2>1, <2>3 DEF PictureInv
<1>13. /\ k + 1 \in 1..n /\ k \in 1..(n - 1)
  <2>1. k # n
    BY <1>2, <1>12
  <2> QED BY <1>3, <2>1
<1>14. /\ PartOf(k) \in MayFollow(PartOf(k + 1))
       /\ pictures[k + 1] = IF PartOf(k + 1) \in Opening /\ PartOf(k) # "prefix"
                            THEN pictures[k] + 1 ELSE pictures[k]
       /\ PartOf(k + 1) \in Parts
  <2>1. MayStand(k) /\ Counted(k)
    BY <1>13 DEF PictureInv, PicturesInv, n
  <2> QED BY <1>3, <1>13, <2>1, WhatIsSent DEF MayStand, Counted, n
<1>15. pictures[k] \in Nat
  <2>1. pictures \in Seq(Nat) /\ Len(pictures) = n
    BY DEF PictureInv, PicturesInv, n
  <2> QED BY <1>3, <2>1
<1>16. CASE firstSliceInPicture
  <2>1. AtFirst(k)
    BY <1>1, <1>2, <1>3, <1>16 DEF PictureInv
  <2>2. PartOf(k) \in {"prefix", "header", "picture", "slice"}
    BY <2>1 DEF AtFirst, Opening
  <2>3. CASE PartOf(k) \in {"picture", "slice"}
    <3>1. ~firstSliceInPicture' /\ finished' = finished /\ IsVcl(k)
      BY <1>2, <1>9, <2>3
    <3>2. Inside(k + 1)'
      BY <1>4, <1>5, <1>11, <2>1, <2>3, <3>1 DEF Inside, AtFirst
    <3> QED BY <3>1, <3>2
  <2>4. CASE PartOf(k) \in {"prefix", "header"}
    <3>1. firstSliceInPicture' /\ finished' = finished /\ ~IsVcl(k)
      BY <1>2, <1>9, <1>16, <2>4
    <3>2. /\ pictures[k + 1] = pictures[k]
          /\ PartOf(k + 1) \in Opening \/ (PartOf(k + 1) = "slice" /\ PartOf(k) = "header")
      BY <1>9, <1>14, <2>4, Order DEF Parts, Opening
    <3>3. AtFirst(k + 1)'
      <4>1. pictures'[k + 1] = finished' + 1
        BY <1>4, <2>1, <3>1, <3>2 DEF AtFirst
      <4>2. \A j \in 1..k : IsVcl(j)' => pictures'[j] <= finished'
        BY <1>4, <1>5, <1>11, <2>1, <3>1 DEF AtFirst
      <4> QED BY <1>5, <1>11, <3>2, <4>1, <4>2 DEF AtFirst
    <3> QED BY <3>1, <3>3
  <2> QED BY <2>2, <2>3, <2>4
<1>17. CASE ~firstSliceInPicture
  <2>1. ~firstSliceInPicture'
    BY <1>2, <1>17
  <2>2. ASSUME Trailing(k) PROVE Trailing(k)'
    BY <1>4, <1>5, <2>2 DEF Trailing
  <2>3. k > 1 /\ \/ Trailing(k - 1)
                 \/ (Inside(k) \/ Closed(k)) /\ (PartOf(k) \notin Opening \/ Trailing(k))
    BY <1>1, <1>2, <1>3, <1>17 DEF PictureInv
  <2>4. CASE Trailing(k - 1)
    <3>1. k..Len(sent) \subseteq (k - 1)..Len(sent)
      BY <1>3 DEF n
    <3>2. Trailing(k)
      BY <2>4, <3>1 DEF Trailing
    <3> QED BY <2>1, <2>2, <3>2
  <2>5. CASE Trailing(k)
    BY <2>1, <2>2, <2>5
  <2>6. CASE (Inside(k) \/ Closed(k)) /\ PartOf(k) \notin Opening
    <3>1. /\ PartOf(k - 1) \in MayFollow(PartOf(k)) /\ PartOf(k - 1) \in Parts
          /\ pictures[k] = pictures[k - 1]
      BY <1>1, <1>2, <1>3, <2>3, <2>6, TwoUnits
    <3>2. PartOf(k) \in {"slice", "suffix", "end"}
      BY <1>9, <2>6 DEF Parts, Opening
    <3>3. Inside(k)
      BY <1>9, <2>6, <3>1, <3>2, Order DEF Closed, Parts
    <3>4. CASE PartOf(k) = "end"
      <4>1. finished' = finished + 1
        BY <1>2, <1>9, <3>4
      <4>2. Closed(k + 1)'
        BY <1>4, <1>5, <1>11, <3>1, <3>3, <3>4, <4>1 DEF Closed, Inside
      <4> QED BY <2>1, <4>2
    <3>5. CASE PartOf(k) \in {"slice", "suffix"}
      <4>1. finished' = finished
        BY <1>2, <1>9, <3>5
      <4>2. PICK j \in 1..(k - 1) : IsVcl(j) /\ pictures[j] = pictures[k - 1]
        BY <3>3 DEF Inside
      <4>3. j \in 1..k
        BY <1>3
      <4>4. Inside(k + 1)'
        BY <1>4, <1>5, <1>11, <3>1, <3>3, <3>5, <4>1, <4>2, <4>3 DEF Inside
      <4> QED BY <2>1, <4>4
    <3> QED BY <3>2, <3>4, <3>5
  <2> QED BY <2>3, <2>4, <2>5, <2>6
<1> QED BY <1>10, <1>16, <1>17

LEMMA PictureStep == ReaderInv /\ PictureInv /\ [Next]_vars => PictureInv'
<1> SUFFICES ASSUME ReaderInv, PictureInv, [Next]_vars PROVE PictureInv'
  OBVIOUS
<1>1. CASE UNCHANGED vars
  <2>1. UNCHANGED writer /\ UNCHANGED <<mode, received, eof, finished, firstSliceInPicture,
                                        pictures, sent>>
    BY <1>1 DEF vars, writer
  <2>2. /\ PicturesInv' /\ Upcoming' = Upcoming
        /\ \A j : PartOf(j)' = PartOf(j) /\ IsVcl(j)' = IsVcl(j)
        /\ \A j : Trailing(j)' = Trailing(j)
        /\ \A j \in 1..Len(received') : received'[j] = sent'[j]
    BY <2>1, SamePictures DEF PictureInv
  <2> QED BY <2>1, <2>2 DEF PictureInv, AtFirst, Inside, Closed
<1> QED BY <1>1, PictureWrites, PictureCloses, PictureLooks, PictureLooksOn, PictureFinishes,
           PictureReads DEF Next, Encoder, Decoder

LEMMA PictureImplies == ReaderInv /\ PictureInv => PictureBoundaries
<1> DEFINE k == Upcoming
           earlier == {j \in 1..(k - 1) : pictures[j] = pictures[k]
                                          /\ sent[j].type \in VclTypes}
<1> SUFFICES ASSUME ReaderInv, PictureInv, mode = "read", k <= Len(sent),
                    sent[k].type \in VclTypes
             PROVE  (firstSliceInPicture <=> earlier = {}) /\ finished = pictures[k] - 1
  BY Zenon DEF PictureBoundaries, Upcoming
<1>1. mode \in Working /\ eof = FALSE
  BY DEF Working, ReaderInv
<1>2. StreamInv /\ k \in 1..Len(sent) /\ k \in Nat /\ Len(sent) \in Nat
  BY <1>1, UnitsLeft
<1> HIDE DEF k
<1>3. PartOf(k) \in {"picture", "slice"} /\ PartOf(k) # "prefix"
  BY <1>2, WhatIsSent DEF IsVcl
<1>4. finished \in Nat
  BY DEF PictureInv
<1>5. CASE firstSliceInPicture
  <2>1. AtFirst(k)
    BY <1>1, <1>5 DEF PictureInv, k
  <2>2. pictures[k] = finished + 1
    BY <2>1 DEF AtFirst
  <2>3. ASSUME NEW j \in 1..(k - 1), pictures[j] = pictures[k], IsVcl(j) PROVE FALSE
    <3>1. finished + 1 <= finished
      BY <2>1, <2>2, <2>3 DEF AtFirst
    <3> QED BY <1>4, <3>1
  <2> QED BY <1>4, <1>5, <2>2, <2>3 DEF IsVcl
<1>6. CASE ~firstSliceInPicture
  <2>1. ~Trailing(k - 1) /\ ~Trailing(k)
    <3>1. k \in (k - 1)..Len(sent) /\ k \in k..Len(sent)
      BY <1>2
    <3> QED BY <1>3, <3>1 DEF Trailing
  <2>2. k > 1 /\ (Inside(k) \/ Closed(k)) /\ PartOf(k) \notin Opening
    BY <1>1, <1>6, <2>1 DEF PictureInv, k
  <2>3. /\ PartOf(k - 1) \in MayFollow(PartOf(k)) /\ PartOf(k - 1) \in Parts
        /\ PartOf(k) \in Parts /\ pictures[k] = pictures[k - 1]
    BY <1>1, <2>2, TwoUnits DEF k
  <2>4. PartOf(k) = "slice"
    BY <1>3, <2>2 DEF Opening
  <2>5. Inside(k)
    BY <2>2, <2>3, <2>4, Order DEF Closed
  <2> QED BY <1>4, <1>6, <2>3, <2>5 DEF Inside, IsVcl
<1> QED BY <1>5, <1>6 DEF PictureInv

\* Whatever units there are, a slice is taken for the first of its picture exactly when
\* it is, and all pictures before it are finished then: the look-ahead, the flag of the
\* first slice and the EOS agree on where pictures end (isNewPicture, DecApp::decode).
THEOREM BoundariesCorrect == Spec => []PictureBoundaries
<1>1. Spec => []ReaderInv
  BY ReaderStart, ReaderStep, PTL DEF Spec
<1>2. Spec => []PictureInv
  BY <1>1, PictureStart, PictureStep, PTL DEF Spec
<1> QED BY <1>1, <1>2, PictureImplies, PTL
=============================================================================
