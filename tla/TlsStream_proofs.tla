--------------------------- MODULE TlsStream_proofs ---------------------------
(***************************************************************************)
(* Theorems about TlsStream, for every script of records, every place the  *)
(* connection may end at and every size of the buffers.                    *)
(***************************************************************************)
EXTENDS TlsStream, CommonLemmas, TLAPS

-----------------------------------------------------------------------------
(* Sums of sizes.                                                          *)

\* Before gives, for each place, the sum of the sizes ahead of it.
LEMMA BeforeProperties ==
    ASSUME NEW sizes \in Seq(Nat)
    PROVE  /\ Before(sizes) \in [1..(Len(sizes) + 1) -> Nat]
           /\ Before(sizes)[1] = 0
           /\ \A i \in 1..Len(sizes) : Before(sizes)[i + 1] = Before(sizes)[i] + sizes[i]
<1> DEFINE n == Len(sizes)
           Sums(g, k) == \A i \in 1..(k + 1) :
                            g[i] = IF i = 1 THEN 0 ELSE g[i - 1] + sizes[i - 1]
           S == {k \in Nat : k <= n => \E g \in [1..(k + 1) -> Nat] : Sums(g, k)}
<1>1. n \in Nat /\ \A i \in 1..n : sizes[i] \in Nat
  OBVIOUS
<1> HIDE DEF n
<1>2. 0 \in S
  <2> DEFINE zero == [i \in 1..(0 + 1) |-> 0]
  <2>1. ASSUME NEW i \in 1..(0 + 1)
        PROVE  zero[i] = IF i = 1 THEN 0 ELSE zero[i - 1] + sizes[i - 1]
    <3>1. i = 1 /\ i \in 1..(0 + 1) /\ zero[i] = 0
      OBVIOUS
    <3> QED
      BY <3>1
  <2>2. zero \in [1..(0 + 1) -> Nat]
    OBVIOUS
  <2> HIDE DEF zero
  <2>3. Sums(zero, 0)
    BY <2>1
  <2> QED
    BY <2>2, <2>3
<1>3. ASSUME NEW k \in S
      PROVE  k + 1 \in S
  <2> SUFFICES ASSUME k + 1 <= n
               PROVE  \E g \in [1..(k + 1 + 1) -> Nat] : Sums(g, k + 1)
    <3> HIDE DEF Sums
    <3> QED
      OBVIOUS
  <2>1. k \in Nat /\ k <= n
    BY <1>1
  <2>2. PICK g \in [1..(k + 1) -> Nat] : Sums(g, k)
    BY <2>1
  <2> DEFINE h == [i \in 1..(k + 1 + 1) |->
                      IF i = k + 2 THEN g[k + 1] + sizes[k + 1] ELSE g[i]]
  <2>3. g[k + 1] \in Nat /\ sizes[k + 1] \in Nat
    BY <1>1, <2>1, <2>2
  <2>4. h \in [1..(k + 1 + 1) -> Nat]
    BY <2>1, <2>2, <2>3
  <2>5. ASSUME NEW i \in 1..(k + 1 + 1)
        PROVE  h[i] = IF i = 1 THEN 0 ELSE h[i - 1] + sizes[i - 1]
    <3>1. CASE i = k + 2
      <4>1. i # 1 /\ i - 1 = k + 1 /\ k + 1 \in 1..(k + 1 + 1) /\ k + 1 # k + 2
        BY <2>1, <3>1
      <4>2. h[i] = g[k + 1] + sizes[k + 1] /\ h[k + 1] = g[k + 1]
        BY <3>1, <4>1
      <4> QED
        BY <4>1, <4>2
    <3>2. CASE i # k + 2
      <4>1. i \in 1..(k + 1)
        BY <2>1, <3>2
      <4>2. h[i] = g[i]
        BY <3>2
      <4>3. i # 1 => i - 1 \in 1..(k + 1 + 1) /\ i - 1 # k + 2
        BY <2>1, <4>1
      <4>4. i # 1 => h[i - 1] = g[i - 1]
        BY <4>3
      <4> HIDE DEF h
      <4> QED
        BY <2>2, <4>1, <4>2, <4>4
    <3> QED
      BY <3>1, <3>2
  <2> QED
    BY <2>4, <2>5
<1>4. S = Nat
  <2>1. S \in SUBSET Nat
    OBVIOUS
  <2> HIDE DEF S
  <2> QED
    BY <1>2, <1>3, <2>1, SetInduction
<1>5. PICK g \in [1..(n + 1) -> Nat] : Sums(g, n)
  <2>1. n \in S
    BY <1>1, <1>4
  <2> QED
    BY <1>1, <2>1
<1> DEFINE Is(f) == f = [i \in 1..(n + 1) |-> IF i = 1 THEN 0 ELSE f[i - 1] + sizes[i - 1]]
<1>6. Is(g)
  BY <1>5
<1>7. Before(sizes) = CHOOSE f : Is(f)
  BY DEF Before, n
<1> DEFINE sum == Before(sizes)
<1>8. Is(sum)
  <2> HIDE DEF Is
  <2> QED
    BY <1>6, <1>7
<1> HIDE DEF sum, S
<1>9. /\ DOMAIN sum = 1..(n + 1) /\ sum[1] = 0
      /\ \A i \in 1..(n + 1) : sum[i] = IF i = 1 THEN 0 ELSE sum[i - 1] + sizes[i - 1]
  BY <1>1, <1>8
<1>10. \A i \in 1..n : sum[i + 1] = sum[i] + sizes[i]
  <2> SUFFICES ASSUME NEW i \in 1..n PROVE sum[i + 1] = sum[i] + sizes[i]
    OBVIOUS
  <2>1. i + 1 \in 1..(n + 1) /\ i + 1 # 1 /\ i + 1 - 1 = i
    BY <1>1
  <2> QED
    BY <1>9, <2>1
<1> DEFINE T == {k \in Nat : k <= n => sum[k + 1] \in Nat}
<1>11. T = Nat
  <2>1. 0 \in T
    <3>1. 0 + 1 = 1
      OBVIOUS
    <3> QED
      BY <1>9, <3>1
  <2>2. ASSUME NEW k \in T
        PROVE  k + 1 \in T
    <3> SUFFICES ASSUME k + 1 <= n PROVE sum[k + 1 + 1] \in Nat
      OBVIOUS
    <3>1. k + 1 \in 1..n /\ sum[k + 1] \in Nat
      BY <1>1
    <3>2. sum[k + 1 + 1] = sum[k + 1] + sizes[k + 1]
      BY <1>10, <3>1
    <3>3. sizes[k + 1] \in Nat
      BY <1>1, <3>1
    <3> QED
      BY <3>1, <3>2, <3>3
  <2>3. T \in SUBSET Nat
    OBVIOUS
  <2> HIDE DEF T
  <2> QED
    BY <2>1, <2>2, <2>3, SetInduction
<1>12. ASSUME NEW i \in 1..(n + 1) PROVE sum[i] \in Nat
  <2>1. i - 1 \in Nat /\ i - 1 <= n /\ i - 1 + 1 = i
    BY <1>1
  <2>2. i - 1 \in T
    BY <1>11, <2>1
  <2> QED
    BY <2>1, <2>2
<1>13. sum \in [1..(n + 1) -> Nat]
  BY <1>8, <1>9, <1>12
<1> QED
  BY <1>9, <1>10, <1>13 DEF sum, n

-----------------------------------------------------------------------------
(* The script.                                                             *)

\* A script is a sequence of records with sizes.
LEMMA ScriptIsSeq ==
    ASSUME NEW s \in Scripts
    PROVE  /\ Len(s) \in Nat /\ DOMAIN s = 1..Len(s)
           /\ \A i \in 1..Len(s) :
                /\ s[i].kind \in Kinds /\ s[i].len \in Nat \ {0} /\ s[i].data \in Nat
                /\ s[i].answered \in BOOLEAN
                /\ s[i].kind = "data" \/ s[i].data = 0
<1>1. s \in Seq(Records)
  BY TlsStreamAssumption
<1>2. Len(s) \in Nat /\ DOMAIN s = 1..Len(s) /\ \A i \in 1..Len(s) : s[i] \in Records
  BY <1>1
<1> QED
  BY <1>2 DEF Records

\* Where the records of a script begin, one after the other.
LEMMA OffsetsProperties ==
    ASSUME NEW s \in Scripts
    PROVE  /\ \A i \in 1..(Len(s) + 1) : Offsets[s][i] \in Nat
           /\ Offsets[s][1] = 0
           /\ \A i \in 1..Len(s) : Offsets[s][i + 1] = Offsets[s][i] + s[i].len
<1> DEFINE sizes == [k \in DOMAIN s |-> s[k].len]
<1>1. /\ Len(s) \in Nat /\ DOMAIN s = 1..Len(s)
      /\ \A i \in 1..Len(s) : s[i].len \in Nat
  BY ScriptIsSeq
<1>2. sizes \in [1..Len(s) -> Nat] /\ \A i \in 1..Len(s) : sizes[i] = s[i].len
  BY <1>1
<1>3. Offsets[s] = Before(sizes)
  BY DEF Offsets
<1> HIDE DEF sizes
<1>4. sizes \in Seq(Nat) /\ Len(sizes) = Len(s)
  BY <1>1, <1>2, FunctionIsSeq
<1> DEFINE sum == Before(sizes)
<1>5. /\ sum \in [1..(Len(s) + 1) -> Nat] /\ sum[1] = 0
      /\ \A i \in 1..Len(s) : sum[i + 1] = sum[i] + sizes[i]
  BY <1>4, BeforeProperties
<1> HIDE DEF sum
<1>6. /\ \A i \in 1..(Len(s) + 1) : sum[i] \in Nat
      /\ \A i \in 1..Len(s) : sum[i + 1] = sum[i] + s[i].len
  BY <1>2, <1>5
<1> QED
  BY <1>3, <1>5, <1>6 DEF sum

\* How much plaintext comes before each of them.
LEMMA PlainsProperties ==
    ASSUME NEW s \in Scripts
    PROVE  /\ \A i \in 1..(Len(s) + 1) : Plains[s][i] \in Nat
           /\ Plains[s][1] = 0
           /\ \A i \in 1..Len(s) : Plains[s][i + 1] = Plains[s][i] + s[i].data
<1> DEFINE sizes == [k \in DOMAIN s |-> s[k].data]
<1>1. /\ Len(s) \in Nat /\ DOMAIN s = 1..Len(s)
      /\ \A i \in 1..Len(s) : s[i].data \in Nat
  BY ScriptIsSeq
<1>2. sizes \in [1..Len(s) -> Nat] /\ \A i \in 1..Len(s) : sizes[i] = s[i].data
  BY <1>1
<1>3. Plains[s] = Before(sizes)
  BY DEF Plains
<1> HIDE DEF sizes
<1>4. sizes \in Seq(Nat) /\ Len(sizes) = Len(s)
  BY <1>1, <1>2, FunctionIsSeq
<1> DEFINE sum == Before(sizes)
<1>5. /\ sum \in [1..(Len(s) + 1) -> Nat] /\ sum[1] = 0
      /\ \A i \in 1..Len(s) : sum[i + 1] = sum[i] + sizes[i]
  BY <1>4, BeforeProperties
<1> HIDE DEF sum
<1>6. /\ \A i \in 1..(Len(s) + 1) : sum[i] \in Nat
      /\ \A i \in 1..Len(s) : sum[i + 1] = sum[i] + s[i].data
  BY <1>2, <1>5
<1> QED
  BY <1>3, <1>5, <1>6 DEF sum

\* Sums of sizes only grow, and sums of sizes that are not zero grow at every
\* place.
LEMMA Grows ==
    ASSUME NEW n \in Nat, NEW sum, NEW sizes,
           \A i \in 1..(n + 1) : sum[i] \in Nat,
           \A i \in 1..n : sum[i + 1] = sum[i] + sizes[i] /\ sizes[i] \in Nat,
           NEW i \in 1..(n + 1), NEW j \in 1..(n + 1), i < j
    PROVE  /\ sum[i] <= sum[j]
           /\ (\A k \in 1..n : sizes[k] # 0) => sum[i] < sum[j]
<1> DEFINE S == {k \in Nat : i + 1 + k <= n + 1 =>
                     /\ sum[i] <= sum[i + 1 + k]
                     /\ (\A m \in 1..n : sizes[m] # 0) => sum[i] < sum[i + 1 + k]}
<1>1. ASSUME NEW k \in 1..n
      PROVE  /\ sum[k + 1] = sum[k] + sizes[k]
             /\ sum[k] \in Nat /\ sum[k + 1] \in Nat /\ sizes[k] \in Nat
  OBVIOUS
<1>2. 0 \in S
  <2>1. i \in 1..n /\ i + 1 + 0 = i + 1
    OBVIOUS
  <2>2. sum[i] <= sum[i + 1] /\ (sizes[i] # 0 => sum[i] < sum[i + 1])
    BY <1>1, <2>1
  <2>3. /\ sum[i] <= sum[i + 1 + 0]
        /\ (\A m \in 1..n : sizes[m] # 0) => sum[i] < sum[i + 1 + 0]
    BY <2>1, <2>2
  <2> QED
    BY <2>3
<1>3. ASSUME NEW k \in S
      PROVE  k + 1 \in S
  <2> DEFINE p == i + 1 + k
  <2>1. k \in Nat /\ p \in Nat /\ i + 1 + (k + 1) = p + 1
    OBVIOUS
  <2>2. ASSUME p + 1 <= n + 1
        PROVE  /\ sum[i] <= sum[p + 1]
               /\ (\A m \in 1..n : sizes[m] # 0) => sum[i] < sum[p + 1]
    <3>1. p \in 1..n /\ p <= n + 1
      BY <2>1, <2>2
    <3>2. /\ sum[i] <= sum[p]
          /\ (\A m \in 1..n : sizes[m] # 0) => sum[i] < sum[p]
      BY <3>1
    <3> HIDE DEF p, S
    <3>3. sum[p + 1] = sum[p] + sizes[p] /\ sum[p] \in Nat /\ sizes[p] \in Nat /\ sum[i] \in Nat
      BY <1>1, <3>1
    <3>4. /\ sum[i] <= sum[p + 1]
          /\ sum[i] < sum[p] => sum[i] < sum[p + 1]
      BY <3>2, <3>3
    <3> QED
      BY <3>2, <3>4
  <2>3. i + 1 + (k + 1) <= n + 1 =>
           /\ sum[i] <= sum[i + 1 + (k + 1)]
           /\ (\A m \in 1..n : sizes[m] # 0) => sum[i] < sum[i + 1 + (k + 1)]
    <3> HIDE DEF p
    <3> QED
      BY <2>1, <2>2
  <2> QED
    BY <2>1, <2>3
<1>4. S = Nat
  <2>1. S \in SUBSET Nat
    OBVIOUS
  <2> HIDE DEF S
  <2> QED
    BY <1>2, <1>3, <2>1, SetInduction
<1>5. j - (i + 1) \in S /\ i + 1 + (j - (i + 1)) = j
  <2>1. j - (i + 1) \in Nat /\ i + 1 + (j - (i + 1)) = j
    OBVIOUS
  <2> HIDE DEF S
  <2> QED
    BY <1>4, <2>1
<1> QED
  BY <1>5

\* Both grow along a script, and no two records begin at the same place.
LEMMA ScriptGrows ==
    ASSUME NEW s \in Scripts,
           NEW i \in 1..(Len(s) + 1), NEW j \in 1..(Len(s) + 1), i < j
    PROVE  Offsets[s][i] < Offsets[s][j] /\ Plains[s][i] <= Plains[s][j]
<1> DEFINE n == Len(s)
           lens == [k \in 1..n |-> s[k].len]
           datas == [k \in 1..n |-> s[k].data]
<1>1. n \in Nat /\ \A k \in 1..n : s[k].len \in Nat \ {0} /\ s[k].data \in Nat
  BY ScriptIsSeq
<1>2. /\ \A k \in 1..n : lens[k] = s[k].len /\ lens[k] \in Nat /\ lens[k] # 0
      /\ \A k \in 1..n : datas[k] = s[k].data /\ datas[k] \in Nat
  BY <1>1
<1> DEFINE offs == Offsets[s]
           plains == Plains[s]
<1>3. /\ \A k \in 1..(n + 1) : offs[k] \in Nat
      /\ \A k \in 1..n : offs[k + 1] = offs[k] + s[k].len
      /\ \A k \in 1..(n + 1) : plains[k] \in Nat
      /\ \A k \in 1..n : plains[k + 1] = plains[k] + s[k].data
  BY OffsetsProperties, PlainsProperties
<1> HIDE DEF n, lens, datas, offs, plains
<1>4. i \in 1..(n + 1) /\ j \in 1..(n + 1) /\ i < j
  BY DEF n
<1>5. offs[i] < offs[j]
  <2>1. \A k \in 1..n : offs[k + 1] = offs[k] + lens[k] /\ lens[k] \in Nat
    BY <1>2, <1>3
  <2>2. \A k \in 1..n : lens[k] # 0
    BY <1>2
  <2>3. \A k \in 1..(n + 1) : offs[k] \in Nat
    BY <1>3
  <2>4. (\A k \in 1..n : lens[k] # 0) => offs[i] < offs[j]
    BY <1>1, <1>4, <2>1, <2>3, Grows
  <2> QED
    BY <2>2, <2>4
<1>6. plains[i] <= plains[j]
  <2>1. \A k \in 1..n : plains[k + 1] = plains[k] + datas[k] /\ datas[k] \in Nat
    BY <1>2, <1>3
  <2>2. \A k \in 1..(n + 1) : plains[k] \in Nat
    BY <1>3
  <2> QED
    BY <1>1, <1>4, <2>1, <2>2, Grows
<1> QED
  BY <1>5, <1>6 DEF offs, plains

\* What a reader is due, when the records ahead of the p-th arrive and hold no
\* goodbye: at least their plaintext, and no more if the p-th is the goodbye or
\* the connection ends there.
LEMMA DueProperties ==
    ASSUME NEW s \in Scripts, NEW c \in Nat
    PROVE  /\ Due(s, c).length \in 0..Plains[s][Len(s) + 1]
           /\ Due(s, c).ending \in {"goodbye", "silence", "torn"}
           /\ \A p \in 1..(Len(s) + 1) :
                Offsets[s][p] <= c /\ (\A k \in 1..(p - 1) : s[k].kind # "notify") =>
                  /\ Plains[s][p] <= Due(s, c).length
                  /\ Offsets[s][p] = c =>
                        Due(s, c).length = Plains[s][p] /\ Due(s, c).ending = "silence"
                  /\ p <= Len(s) /\ s[p].kind = "notify" /\ Offsets[s][p + 1] <= c =>
                        Due(s, c).length = Plains[s][p + 1] /\ Due(s, c).ending = "goodbye"
<1> DEFINE n == Len(s)
           arrives == {i \in 1..n : Offsets[s][i + 1] <= c}
           goodbyes == {i \in arrives : s[i].kind = "notify"}
           last == IF goodbyes # {} THEN Min(goodbyes) ELSE Max(arrives \cup {0})
<1>1. /\ Due(s, c).length = Plains[s][last + 1]
      /\ Due(s, c).ending = IF goodbyes # {} THEN "goodbye"
                            ELSE IF Offsets[s][last + 1] = c THEN "silence" ELSE "torn"
  BY DEF Due
<1>2. n \in Nat
  BY ScriptIsSeq
<1>3. goodbyes # {} => last \in goodbyes /\ \A y \in goodbyes : last <= y
  <2>1. goodbyes \in SUBSET Nat
    BY <1>2
  <2> HIDE DEF goodbyes
  <2> QED
    BY <2>1, MinOfNats
<1>4. goodbyes = {} => last \in arrives \cup {0} /\ \A y \in arrives \cup {0} : y <= last
  <2> DEFINE S == arrives \cup {0}
  <2>1. S \in SUBSET Nat /\ \A y \in S : y <= n
    BY <1>2
  <2>2. S # {}
    OBVIOUS
  <2> HIDE DEF S
  <2>3. Max(S) \in S /\ \A y \in S : y <= Max(S)
    BY <1>2, <2>1, <2>2, MaxOfNats
  <2>4. goodbyes = {} => last = Max(S)
    BY DEF S
  <2> QED
    BY <2>3, <2>4 DEF S
<1>5. last \in 0..n
  BY <1>2, <1>3, <1>4
<1> HIDE DEF last
<1> DEFINE offs == Offsets[s]
           plains == Plains[s]
<1>6. /\ \A i \in 1..(n + 1) : offs[i] \in Nat /\ plains[i] \in Nat
      /\ \A i, j \in 1..(n + 1) : i < j => offs[i] < offs[j] /\ plains[i] <= plains[j]
  BY OffsetsProperties, PlainsProperties, ScriptGrows
<1>7. arrives = {i \in 1..n : offs[i + 1] <= c}
  OBVIOUS
<1> HIDE DEF arrives, offs, plains, n
<1>8. plains[last + 1] \in Nat /\ plains[last + 1] <= plains[n + 1]
  <2>1. last + 1 \in 1..(n + 1) /\ n + 1 \in 1..(n + 1) /\ last \in Nat
    BY <1>2, <1>5
  <2>2. CASE last = n
    BY <1>6, <2>1, <2>2
  <2>3. CASE last # n
    <3>1. last + 1 < n + 1
      BY <1>2, <1>5, <2>3
    <3> QED
      BY <1>6, <2>1, <3>1
  <2> QED
    BY <2>2, <2>3
<1>9. ASSUME NEW p \in 1..(n + 1), offs[p] <= c,
             \A k \in 1..(p - 1) : s[k].kind # "notify"
      PROVE  /\ plains[p] <= plains[last + 1]
             /\ offs[p] = c => last = p - 1 /\ goodbyes = {}
             /\ p <= n /\ s[p].kind = "notify" /\ offs[p + 1] <= c =>
                   last = p /\ goodbyes # {}
  <2>1. p \in Nat /\ p >= 1 /\ p <= n + 1 /\ p - 1 \in Nat
    BY <1>2
  <2>2. \A i \in goodbyes : i >= p /\ i \in 1..n /\ offs[i + 1] <= c
    <3> SUFFICES ASSUME NEW i \in goodbyes PROVE i >= p /\ i \in 1..n /\ offs[i + 1] <= c
      OBVIOUS
    <3>1. i \in 1..n /\ s[i].kind = "notify" /\ offs[i + 1] <= c
      BY <1>7
    <3>2. i \notin 1..(p - 1)
      BY <1>9, <3>1
    <3> QED
      BY <1>2, <2>1, <3>1, <3>2
  <2>3. p - 1 <= last
    <3>1. CASE goodbyes # {}
      <4>1. last >= p
        BY <1>3, <2>2, <3>1
      <4> QED
        BY <1>2, <1>5, <2>1, <4>1
    <3>2. CASE goodbyes = {}
      <4>1. p - 1 \in arrives \cup {0}
        <5>1. CASE p = 1
          BY <5>1
        <5>2. CASE p # 1
          <6>1. p - 1 \in 1..n /\ p - 1 + 1 = p
            BY <2>1, <5>2, <1>2
          <6> QED
            BY <1>7, <1>9, <6>1
        <5> QED
          BY <5>1, <5>2
      <4> QED
        BY <1>4, <3>2, <4>1
    <3> QED
      BY <3>1, <3>2
  <2>4. plains[p] <= plains[last + 1]
    <3>1. last + 1 \in 1..(n + 1) /\ p <= last + 1
      BY <1>2, <1>5, <2>1, <2>3
    <3>2. CASE p = last + 1
      BY <1>6, <3>2
    <3>3. CASE p # last + 1
      <4>1. p < last + 1
        BY <1>2, <1>5, <2>1, <3>1, <3>3
      <4> QED
        BY <1>6, <3>1, <4>1
    <3> QED
      BY <3>2, <3>3
  <2>5. ASSUME offs[p] = c
        PROVE  last = p - 1 /\ goodbyes = {}
    <3>1. \A i \in arrives : i <= p - 1
      <4> SUFFICES ASSUME NEW i \in arrives, i >= p PROVE FALSE
        BY <1>2, <1>7, <2>1
      <4>1. i \in 1..n /\ i + 1 \in 1..(n + 1) /\ p < i + 1 /\ offs[i + 1] <= c
        BY <1>2, <1>7, <2>1
      <4>2. offs[p] < offs[i + 1] /\ offs[p] \in Nat /\ offs[i + 1] \in Nat
        BY <1>6, <4>1
      <4> QED
        BY <2>5, <4>1, <4>2
    <3>2. goodbyes = {}
      <4> SUFFICES ASSUME NEW i \in goodbyes PROVE FALSE
        OBVIOUS
      <4>1. i \in arrives /\ i >= p /\ i \in 1..n
        BY <2>2
      <4>2. i <= p - 1
        BY <3>1, <4>1
      <4> QED
        BY <2>1, <4>1, <4>2
    <3>3. last \in arrives \cup {0}
      BY <1>4, <3>2
    <3>4. last <= p - 1
      BY <2>1, <3>1, <3>3
    <3> QED
      BY <1>5, <2>1, <2>3, <3>2, <3>4
  <2>6. ASSUME p <= n, s[p].kind = "notify", offs[p + 1] <= c
        PROVE  last = p /\ goodbyes # {}
    <3>1. p \in goodbyes
      BY <1>2, <1>7, <2>1, <2>6
    <3>2. last <= p /\ last \in goodbyes
      BY <1>3, <3>1
    <3>3. last >= p
      BY <2>2, <3>2
    <3> QED
      BY <1>5, <2>1, <3>1, <3>2, <3>3
  <2> QED
    BY <2>4, <2>5, <2>6
<1>10. \A p \in 1..(n + 1) : p - 1 + 1 = p
  BY <1>2
<1>11. /\ Due(s, c).length = plains[last + 1]
       /\ Due(s, c).ending = IF goodbyes # {} THEN "goodbye"
                             ELSE IF offs[last + 1] = c THEN "silence" ELSE "torn"
  BY <1>1 DEF offs, plains
<1> HIDE DEF goodbyes
<1>12. Due(s, c).length \in 0..plains[n + 1]
  <2>1. plains[n + 1] \in Nat
    BY <1>2, <1>6
  <2> QED
    BY <1>8, <1>11, <2>1
<1>13. Due(s, c).ending \in {"goodbye", "silence", "torn"}
  BY <1>11
<1>14. ASSUME NEW p \in 1..(n + 1), offs[p] <= c,
              \A k \in 1..(p - 1) : s[k].kind # "notify"
       PROVE  /\ plains[p] <= Due(s, c).length
              /\ offs[p] = c => Due(s, c).length = plains[p] /\ Due(s, c).ending = "silence"
              /\ p <= n /\ s[p].kind = "notify" /\ offs[p + 1] <= c =>
                    Due(s, c).length = plains[p + 1] /\ Due(s, c).ending = "goodbye"
  BY <1>9, <1>10, <1>11, <1>14
<1> QED
  BY <1>12, <1>13, <1>14 DEF n, offs, plains

-----------------------------------------------------------------------------
(* The inductive invariant.                                                *)

Places == 1..(Len(script) + 1)

NoGoodbye(records) == \A k \in records : script[k].kind # "notify"

\* incoming_ begins with a record, plaintext_ ends where that record's begins,
\* and the goodbye was the last record taken if it has been taken.
Boundary ==
    \E p \in Places :
        /\ Offset[p] = consumed
        /\ plain.end = PlainBefore[p] + 1
        /\ IF peerClosed /\ ~noNotify
             THEN p > 1 /\ script[p - 1].kind = "notify" /\ NoGoodbye(1..(p - 2))
             ELSE NoGoodbye(1..(p - 1))

\* No more is asked for than the record that incoming_ begins with lacks.
Asked ==
    /\ need > 0 => \A i \in Here : need <= script[i].len - used
    /\ pc = "fill" => want > 0 /\ \A i \in Here : want <= script[i].len - used
    /\ pc = "negotiate" /\ needInput => \A i \in Here : ~Whole(i)
    /\ pc \in {"fill", "finish"} \/ (pc = "negotiate" /\ ~needInput) => need = 0
    /\ pc = "first" => fed = 0 /\ need = 0

\* What the ends that were seen say of each other.
Ends ==
    /\ due = Due(script, cut)
    /\ innerEof => fed = cut
    /\ noNotify => told /\ used = 0 /\ fed = cut
    /\ told => peerClosed /\ ~HasPlain
    /\ pc \in {"first", "negotiate", "fill", "finish"} => ~peerClosed

\* The caller has the plaintext up to where plaintext_ begins.
Received ==
    got \in Seq(Nat) /\ plain.next = Len(got) + 1 /\ got = [i \in 1..Len(got) |-> i]

\* A call that failed has returned, and a closed stream has no context.
Failed ==
    /\ result \in Errors => pc \in {"idle", "gone"}
    /\ result = "closed" => pc = "idle" /\ ~hasContext

\* While something may still be sent, nothing that was sent is torn, and a
\* close_notify was noted.
MaySend ==
    pc \notin {"idle", "gone"} \/ (pc = "idle" /\ result \notin Errors /\ hasContext)
Wire ==
    MaySend =>
        \A i \in 1..Len(out) :
            out[i].whole /\ (out[i].kind = "notify" => shutdownSent)

Inv == TypeOK /\ Boundary /\ Asked /\ Ends /\ Received /\ Failed /\ Wire
         /\ WireIsSound /\ FitsOrRefused

-----------------------------------------------------------------------------
(* What the state says of the numbers, and of what lies ahead.             *)

LEMMA Numbers ==
    ASSUME TypeOK
    PROVE  /\ script \in Scripts /\ Len(script) \in Nat
           /\ cut \in Nat /\ fed \in Nat /\ consumed \in Nat /\ used \in Nat
           /\ consumed <= fed /\ fed <= cut /\ cut <= Offset[Len(script) + 1]
           /\ capacity \in Nat /\ ReadChunk <= capacity /\ capacity <= MaxIncoming
           /\ used <= capacity /\ need \in Nat /\ want \in Nat
           /\ ReadChunk \in Nat \ {0} /\ MaxIncoming \in Nat
           /\ plain.next \in Nat /\ plain.end \in Nat /\ plain.next <= plain.end
           /\ fed = consumed + used
<1>1. script \in Scripts /\ cut \in 0..Offset[Len(script) + 1]
  BY DEF TypeOK
<1>2. Len(script) \in Nat
  BY <1>1, ScriptIsSeq
<1>3. Offset[Len(script) + 1] \in Nat
  BY <1>1, <1>2, OffsetsProperties DEF Offset
<1>4. cut \in Nat /\ fed \in 0..cut /\ consumed \in 0..fed
  BY <1>1, <1>3 DEF TypeOK
<1>5. used \in Nat /\ fed = consumed + used
  BY <1>4 DEF used
<1> QED
  BY <1>1, <1>2, <1>3, <1>4, <1>5, TlsStreamAssumption DEF TypeOK

\* The record that incoming_ begins with is the one at its place, if it is not
\* the end of the script, where nothing is left.
LEMMA HereProperties ==
    ASSUME TypeOK, NEW p \in Places, Offset[p] = consumed
    PROVE  /\ p \in Nat /\ \A i \in Here : i = p
           /\ p \notin Here => used = 0
           /\ p \in Here => /\ p \in 1..Len(script) /\ p + 1 \in Places
                            /\ script[p].len \in Nat \ {0}
                            /\ Offset[p + 1] = consumed + script[p].len
                            /\ PlainBefore[p] \in Nat /\ script[p].data \in Nat
                            /\ PlainBefore[p + 1] = PlainBefore[p] + script[p].data
                            /\ script[p].kind # "data" => script[p].data = 0
<1>1. /\ script \in Scripts /\ Len(script) \in Nat /\ cut <= Offset[Len(script) + 1]
      /\ cut \in Nat /\ fed \in Nat /\ consumed \in Nat /\ consumed <= fed /\ fed <= cut
      /\ fed = consumed + used /\ used \in Nat
  BY Numbers
<1>2. p \in Nat /\ p >= 1 /\ p <= Len(script) + 1
  BY <1>1 DEF Places
<1>3. ASSUME NEW i \in Here, i # p PROVE FALSE
  <2>1. i \in 1..(Len(script) + 1) /\ Offset[i] = consumed /\ i \in Nat
    BY <1>1 DEF Here
  <2>2. Offset[i] < Offset[p] \/ Offset[p] < Offset[i]
    BY <1>1, <1>2, <1>3, <2>1, ScriptGrows DEF Offset, Places
  <2> QED
    BY <1>1, <2>1, <2>2
<1>4. ASSUME p \notin Here PROVE used = 0
  <2>1. p = Len(script) + 1
    BY <1>1, <1>2, <1>4 DEF Here
  <2> QED
    BY <1>1, <2>1
<1>5. ASSUME p \in Here
      PROVE  /\ p \in 1..Len(script) /\ p + 1 \in Places
             /\ script[p].len \in Nat \ {0}
             /\ Offset[p + 1] = consumed + script[p].len
             /\ PlainBefore[p] \in Nat /\ script[p].data \in Nat
             /\ PlainBefore[p + 1] = PlainBefore[p] + script[p].data
             /\ script[p].kind # "data" => script[p].data = 0
  <2>1. p \in 1..Len(script) /\ p + 1 \in Places
    BY <1>1, <1>5 DEF Here, Places
  <2>2. /\ script[p].len \in Nat \ {0} /\ script[p].data \in Nat
        /\ script[p].kind # "data" => script[p].data = 0
    BY <1>1, <2>1, ScriptIsSeq
  <2>3. Offset[p + 1] = Offset[p] + script[p].len
    BY <1>1, <2>1, OffsetsProperties DEF Offset
  <2>4. PlainBefore[p] \in Nat /\ PlainBefore[p + 1] = PlainBefore[p] + script[p].data
    BY <1>1, <2>1, PlainsProperties DEF PlainBefore, Places
  <2> QED
    BY <2>1, <2>2, <2>3, <2>4
<1> QED
  BY <1>2, <1>3, <1>4, <1>5

\* Schannel takes a whole record, up to where the next one begins.
LEMMA TakeProperties ==
    ASSUME TypeOK, NEW p \in Places, Offset[p] = consumed,
           NEW kinds, NEW i \in Have(kinds)
    PROVE  /\ i = p /\ p \in Here /\ script[p].kind \in kinds
           /\ fed - (used - script[p].len) = Offset[p + 1]
           /\ Offset[p + 1] \in Nat /\ Offset[p + 1] <= fed
<1>1. i \in Here /\ used >= script[i].len /\ script[i].kind \in kinds
  BY DEF Have, Whole
<1>2. i = p
  BY <1>1, HereProperties
<1>3. /\ script[p].len \in Nat /\ Offset[p + 1] = consumed + script[p].len
      /\ consumed \in Nat /\ used \in Nat /\ fed = consumed + used
  BY <1>1, <1>2, HereProperties, Numbers
<1> QED
  BY <1>1, <1>2, <1>3

\* Schannel asks for no more than the record lacks.
LEMMA MissingProperties ==
    ASSUME TypeOK, Boundary, Incomplete
    PROVE  /\ \A i \in Here : ~Whole(i)
           /\ \A m \in Missing : m \in Nat /\ \A i \in Here : m <= script[i].len - used
<1>1. PICK p \in Places : Offset[p] = consumed
  BY DEF Boundary
<1>2. used \in Nat
  BY Numbers
<1>3. ASSUME NEW i \in Here
      PROVE  script[i].len \in Nat /\ used < script[i].len
  <2>1. i = p /\ script[i].len \in Nat \ {0}
    BY <1>1, HereProperties
  <2>2. CASE used = 0
    BY <2>1, <2>2
  <2>3. CASE \E j \in Here : ~Whole(j)
    <3>1. ~Whole(i)
      BY <1>1, <2>1, <2>3, HereProperties
    <3> QED
      BY <1>2, <2>1, <3>1 DEF Whole
  <2> QED
    BY <2>1, <2>2, <2>3 DEF Incomplete
<1>4. \A i \in Here : ~Whole(i)
  BY <1>2, <1>3 DEF Whole
<1>5. ASSUME NEW m \in Missing
      PROVE  m \in Nat /\ \A i \in Here : m <= script[i].len - used
  <2>1. CASE m = 1
    BY <1>2, <1>3, <2>1
  <2>2. CASE m # 1
    <3>1. PICK j \in Here : m = script[j].len - used
      BY <2>2 DEF Missing
    <3>2. \A i \in Here : i = j
      BY <1>1, HereProperties
    <3>3. m \in Nat
      BY <1>2, <1>3, <3>1
    <3> QED
      BY <3>1, <3>2, <3>3
  <2> QED
    BY <2>1, <2>2
<1> QED
  BY <1>4, <1>5

\* What the buffer grows to is within the limit and has room for a chunk.
LEMMA GrownProperties ==
    ASSUME TypeOK, HasSpace
    PROVE  Grown \in ReadChunk..MaxIncoming /\ used <= Grown
<1>1. /\ used \in Nat /\ capacity \in Nat /\ ReadChunk \in Nat \ {0} /\ MaxIncoming \in Nat
      /\ used <= capacity /\ ReadChunk <= capacity /\ capacity <= MaxIncoming
  BY Numbers
<1>2. CASE capacity - used >= ReadChunk
  BY <1>1, <1>2 DEF Grown
<1>3. CASE ~(capacity - used >= ReadChunk)
  <2> DEFINE double == Min({2 * capacity, MaxIncoming})
  <2>1. double \in Nat /\ double <= MaxIncoming
    <3>1. 2 * capacity \in Nat
      BY <1>1
    <3> QED
      BY <1>1, <3>1, MinOfTwo
  <2>2. used + ReadChunk \in Nat /\ used + ReadChunk <= MaxIncoming
    BY <1>1, <1>3 DEF HasSpace
  <2>3. Grown = Max({used + ReadChunk, double})
    BY <1>3 DEF Grown
  <2> HIDE DEF double
  <2>4. Max({used + ReadChunk, double}) =
          IF used + ReadChunk >= double THEN used + ReadChunk ELSE double
    BY <2>1, <2>2, MaxOfTwo
  <2> QED
    BY <1>1, <2>1, <2>2, <2>3, <2>4
<1> QED
  BY <1>2, <1>3

-----------------------------------------------------------------------------

\* Every variable keeps its type, and the buffer its limit.
LEMMA TypeStep == ASSUME Inv, [Next]_vars PROVE TypeOK'
<1> USE DEF peerVars, inVars, endVars, outVars, callVars, heldVars, Returns, Gone,
            CallFails, Fill, Unchanged, Errors
<1>0. TypeOK /\ Boundary
  BY DEF Inv
<1>n. /\ fed \in Nat /\ consumed \in Nat /\ cut \in Nat /\ used \in Nat
      /\ need \in Nat /\ want \in Nat /\ fed = consumed + used
      /\ plain.next \in Nat /\ plain.end \in Nat /\ plain.next <= plain.end
      /\ script \in Scripts
  BY <1>0, Numbers
<1>c. capacity \in Nat /\ fed - consumed <= capacity /\ consumed <= fed
  BY <1>0, Numbers DEF used
<1>p. PICK p \in Places : Offset[p] = consumed /\ plain.end = PlainBefore[p] + 1
  BY <1>0 DEF Boundary
<1>o. ASSUME NEW kind \in {"token", "data", "notify"}, Sends(kind) \/ SendFails(kind)
      PROVE  out' \in Seq([kind : {"token", "data", "notify"}, whole : BOOLEAN])
  <2> DEFINE Sent == [kind : {"token", "data", "notify"}, whole : BOOLEAN]
  <2>1. [kind |-> kind, whole |-> TRUE] \in Sent /\ [kind |-> kind, whole |-> FALSE] \in Sent
    OBVIOUS
  <2>2. out \in Seq(Sent)
    BY <1>0 DEF TypeOK
  <2> HIDE DEF Sent
  <2>3. /\ Append(out, [kind |-> kind, whole |-> TRUE]) \in Seq(Sent)
        /\ Append(out, [kind |-> kind, whole |-> FALSE]) \in Seq(Sent)
    BY <2>1, <2>2, AppendProperties
  <2> QED
    BY <1>o, <2>2, <2>3 DEF Sends, SendFails, Sent
<1> USE DEF TypeOK, used, Offset, PlainBefore
<1>1. CASE ConnectFails
  BY <1>0, <1>1 DEF ConnectFails
<1>2. CASE WrapRefuses
  BY <1>0, <1>2 DEF WrapRefuses
<1>3. CASE FirstToken
  <2>1. out' \in Seq([kind : {"token", "data", "notify"}, whole : BOOLEAN])
    BY <1>3, <1>o DEF FirstToken
  <2> QED
    BY <1>0, <1>3, <2>1 DEF FirstToken
<1>4. CASE FirstFails
  BY <1>0, <1>4 DEF FirstFails
<1>5. ASSUME NEW n \in 0..(cut - fed), NEW eof \in BOOLEAN, FillRead(n, eof)
      PROVE  TypeOK'
  <2>1. Grown \in ReadChunk..MaxIncoming /\ n \in Nat /\ n <= Grown - used /\ fed + n <= cut
    BY <1>0, <1>5, <1>n, GrownProperties DEF FillRead
  <2>2. fed' = fed + n /\ capacity' = Grown /\ UNCHANGED <<consumed, cut>>
    BY <1>5 DEF FillRead
  <2>3. /\ fed' \in 0..cut' /\ consumed' \in 0..fed'
        /\ capacity' \in ReadChunk..MaxIncoming /\ fed' - consumed' <= capacity'
    <3>1. Grown \in Nat /\ used = fed - consumed
      BY <2>1, TlsStreamAssumption
    <3> HIDE DEF TypeOK, used
    <3> QED
      BY <1>n, <2>1, <2>2, <3>1
  <2>4. want' \in Nat
    <3>1. Min({want, n}) \in Nat /\ Min({want, n}) <= want
      BY <1>n, <2>1, MinOfTwo
    <3>2. want' = want - Min({want, n})
      BY <1>5 DEF FillRead
    <3> QED
      BY <1>n, <3>1, <3>2
  <2>5. /\ innerEof' \in BOOLEAN /\ needInput' \in BOOLEAN
        /\ pc' \in {"fill", "negotiate", "read"}
        /\ UNCHANGED <<peerVars, consumed, need, plain, peerClosed, noNotify, hasContext,
                       outVars, back, continuing, dst, got, told, result>>
    BY <1>0, <1>5 DEF FillRead, EndNoted
  <2> QED
    BY <1>0, <2>3, <2>4, <2>5
<1>6. CASE FillFails
  <2>1. capacity' \in ReadChunk..MaxIncoming /\ used <= capacity'
    BY <1>0, <1>6, GrownProperties DEF FillFails
  <2>2. /\ pc' \in {"gone", "idle"}
        /\ result' \in {"too_large", "no_memory", "net_error", "transient"}
        /\ UNCHANGED <<peerVars, fed, consumed, need, plain, endVars, hasContext, outVars,
                       callVars, got, told>>
    BY <1>6 DEF FillFails
  <2> QED
    BY <1>0, <2>1, <2>2
<1>7. CASE NegotiateReads
  <2>1. Max({need, 1}) \in Nat
    BY <1>n, MaxOfTwo
  <2> QED
    BY <1>0, <1>7, <2>1 DEF NegotiateReads
<1>8. CASE NegotiateIncomplete
  <2>1. need' \in Nat
    BY <1>0, <1>8, MissingProperties DEF NegotiateIncomplete
  <2> QED
    BY <1>0, <1>8, <2>1 DEF NegotiateIncomplete
<1>9. CASE NegotiateMessage
  <2>1. PICK i \in Have({"hello"} \cup Final) :
           \/ /\ IF script[i].answered THEN Sends("token") ELSE UNCHANGED out
              /\ KeepExtra(used - script[i].len)
              /\ needInput' = MoreInput(script[i].kind)
              /\ pc' = IF script[i].kind = "hello" THEN "negotiate"
                       ELSE IF continuing THEN "read" ELSE "finish"
              /\ UNCHANGED result
           \/ /\ script[i].answered
              /\ SendFails("token")
              /\ CallFails("net_error")
              /\ UNCHANGED <<consumed, needInput>>
    BY <1>9 DEF NegotiateMessage
  <2>2. consumed' \in 0..fed
    <3>1. fed - (used - script[i].len) = Offset[p + 1] /\ Offset[p + 1] \in Nat
            /\ Offset[p + 1] <= fed /\ i = p
      BY <1>0, <1>p, TakeProperties
    <3>2. consumed' \in {consumed, fed - (used - script[i].len)}
      BY <2>1 DEF KeepExtra
    <3> QED
      BY <1>n, <3>1, <3>2
  <2>3. /\ out' \in Seq([kind : {"token", "data", "notify"}, whole : BOOLEAN])
        /\ needInput' \in BOOLEAN
        /\ pc' \in {"negotiate", "read", "finish", "gone", "idle"}
        /\ result' \in {result, "net_error"}
    BY <1>0, <1>o, <2>1 DEF MoreInput
  <2>4. /\ UNCHANGED <<peerVars, fed, capacity, need, plain, endVars, hasContext,
                       shutdownSent, innerShut, want, back, continuing, dst, got, told>>
    BY <1>9 DEF NegotiateMessage
  <2>5. fed' - consumed' <= capacity'
    <3>1. consumed' >= consumed
      <4>1. consumed' \in {consumed, fed - (used - script[i].len)}
        BY <2>1 DEF KeepExtra
      <4>2. used - script[i].len <= used
        <5>1. i = p /\ p \in Here /\ script[p].len \in Nat
          BY <1>0, <1>p, TakeProperties, HereProperties
        <5> QED
          BY <1>n, <5>1
      <4>3. fed - (used - script[i].len) = Offset[p + 1] /\ Offset[p + 1] = consumed + script[p].len
             /\ script[p].len \in Nat
        BY <1>0, <1>p, TakeProperties, HereProperties
      <4> QED
        BY <1>n, <4>1, <4>3
    <3>2. consumed' \in Nat /\ fed' = fed /\ capacity' = capacity
      BY <1>n, <2>2, <2>4
    <3>3. \A x \in Nat : x >= consumed => fed - x <= capacity
      <4> HIDE DEF TypeOK, used
      <4> QED
        BY <1>n, <1>c
    <3> QED
      BY <3>1, <3>2, <3>3
  <2> QED
    BY <1>0, <2>2, <2>3, <2>4, <2>5
<1>10. CASE NegotiateFails
  BY <1>0, <1>10 DEF NegotiateFails
<1>11. CASE FinishHandshake
  BY <1>0, <1>11 DEF FinishHandshake, Moved
<1>12. CASE HandOver
  <2> DEFINE n == Min({dst, plain.end - plain.next})
  <2>1. n \in Nat /\ n <= plain.end - plain.next
    <3>1. dst \in Nat
      BY <1>0, TlsStreamAssumption
    <3>2. plain.end - plain.next \in Nat
      BY <1>n
    <3> QED
      BY <3>1, <3>2, MinOfTwo
  <2>2. plain' = [plain EXCEPT !.next = @ + n]
    BY <1>12 DEF HandOver
  <2> HIDE DEF n
  <2>3. plain' \in [next : Nat \ {0}, end : Nat] /\ plain'.next <= plain'.end
    <3>1. plain.next + n \in Nat \ {0} /\ plain.next + n <= plain.end
      <4>1. plain.next \in Nat \ {0}
        BY <1>0
      <4> QED
        BY <1>n, <2>1, <4>1
    <3>2. plain' = [next |-> plain.next + n, end |-> plain.end]
      BY <1>0, <2>2
    <3> QED
      BY <1>n, <3>1, <3>2
  <2>4. /\ told' \in BOOLEAN /\ result' \in {"data", "data_eof"} /\ pc' = "idle"
        /\ UNCHANGED <<peerVars, inVars, endVars, hasContext, outVars, callVars>>
    BY <1>12 DEF HandOver, LastOut
  <2> QED
    BY <1>0, <2>3, <2>4
<1>13. CASE ReadClosed
  BY <1>0, <1>13 DEF ReadClosed
<1>14. CASE DecryptIncomplete
  <2>1. need' \in Nat
    BY <1>0, <1>14, MissingProperties DEF DecryptIncomplete
  <2> QED
    BY <1>0, <1>14, <2>1 DEF DecryptIncomplete
<1>15. CASE DecryptRecord
  <2>1. PICK i \in Have({"data", "notify"}), both \in BOOLEAN :
          LET last == IF both THEN i + 1 ELSE i IN
          /\ both => /\ i < Len(script)
                     /\ script[i].kind = "data" /\ script[last].kind = "notify"
                     /\ used >= Offset[last + 1] - consumed
          /\ plain' = [next |-> PlainBefore[i] + 1, end |-> PlainBefore[i + 1] + 1]
          /\ KeepExtra(fed - Offset[last + 1])
          /\ peerClosed' = (script[last].kind = "notify")
    BY <1>15 DEF DecryptRecord
  <2> DEFINE last == IF both THEN i + 1 ELSE i
  <2>2. i = p /\ p \in Here /\ Offset[p + 1] \in Nat /\ Offset[p + 1] <= fed
    BY <1>0, <1>p, TakeProperties
  <2>3. /\ PlainBefore[p] \in Nat /\ PlainBefore[p + 1] \in Nat
        /\ PlainBefore[p] <= PlainBefore[p + 1] /\ Offset[p + 1] >= consumed
        /\ p \in Nat /\ p \in 1..Len(script)
    <3> HIDE DEF TypeOK, used, Offset, PlainBefore
    <3>1. /\ p \in 1..Len(script) /\ p \in Nat /\ script[p].len \in Nat
          /\ Offset[p + 1] = consumed + script[p].len
          /\ PlainBefore[p] \in Nat /\ script[p].data \in Nat
          /\ PlainBefore[p + 1] = PlainBefore[p] + script[p].data
      BY <1>0, <1>p, <2>2, HereProperties
    <3> QED
      BY <1>n, <3>1
  <2>4. Offset[last + 1] \in consumed..fed
    <3>1. CASE ~both
      BY <1>n, <2>2, <2>3, <3>1
    <3>2. CASE both
      <4>1. last + 1 = p + 2 /\ p + 1 \in 1..Len(script) /\ p + 1 + 1 = p + 2
        BY <2>1, <2>2, <2>3, <3>2
      <4>2. /\ Offset[p + 2] = Offset[p + 1] + script[p + 1].len
            /\ script[p + 1].len \in Nat
        BY <1>n, <4>1, OffsetsProperties, ScriptIsSeq DEF Offset
      <4>3. used >= Offset[p + 2] - consumed
        BY <2>1, <2>2, <3>2, <4>1
      <4> HIDE DEF TypeOK, used, Offset, PlainBefore, last
      <4>4. Offset[p + 2] \in consumed..fed
        BY SMTT(30), <1>n, <2>2, <2>3, <4>2, <4>3
      <4> QED
        BY <4>1, <4>4
    <3> QED
      BY <3>1, <3>2
  <2>5. consumed' = Offset[last + 1]
    <3>1. consumed' = fed - (fed - Offset[last + 1])
      BY <2>1 DEF KeepExtra
    <3> HIDE DEF last
    <3> QED
      BY <1>n, <2>4, <3>1
  <2>6. consumed' \in consumed..fed
    BY <2>4, <2>5
  <2>7. /\ plain' = [next |-> PlainBefore[p] + 1, end |-> PlainBefore[p + 1] + 1]
        /\ peerClosed' \in BOOLEAN
    BY <2>1, <2>2
  <2>8. plain' \in [next : Nat \ {0}, end : Nat] /\ plain'.next <= plain'.end
    BY <2>3, <2>7
  <2>9. UNCHANGED <<peerVars, fed, capacity, need, innerEof, noNotify, hasContext, outVars,
                    pc, callVars, got, told, result>>
    BY <1>15 DEF DecryptRecord
  <2>10. fed' - consumed' <= capacity' /\ consumed' \in 0..fed'
    <3>1. fed' = fed /\ capacity' = capacity
      BY <2>9
    <3>2. \A x \in consumed..fed : fed - x <= capacity /\ x \in 0..fed
      <4> HIDE DEF TypeOK, used
      <4> QED
        BY <1>n, <1>c
    <3> QED
      BY <2>6, <3>1, <3>2
  <2> QED
    BY <1>0, <2>7, <2>8, <2>9, <2>10
<1>16. CASE DecryptNoMemory
  <2>1. plain' \in [next : Nat \ {0}, end : Nat] /\ plain'.next <= plain'.end
    BY SMTT(30), <1>0, <1>16, <1>n DEF DecryptNoMemory, Decrypting, Reading, HasPlain
  <2> QED
    BY <1>0, <1>16, <2>1 DEF DecryptNoMemory
<1>17. CASE DecryptRenegotiate
  <2>1. consumed' = consumed
    BY <1>17, <1>n DEF DecryptRenegotiate, KeepExtra
  <2> QED
    BY <1>0, <1>17, <2>1 DEF DecryptRenegotiate
<1>18. CASE DecryptFails
  BY <1>0, <1>18 DEF DecryptFails
<1>19. CASE ReadStarves
  BY <1>0, <1>19 DEF ReadStarves
<1>20. CASE ReadMore
  <2>1. Max({need, 1}) \in Nat
    BY <1>n, MaxOfTwo
  <2> QED
    BY <1>0, <1>20, <2>1 DEF ReadMore
<1>21. ASSUME NEW n \in Buffers, CallRead(n)
       PROVE  TypeOK'
  BY <1>0, <1>21 DEF CallRead
<1>22. CASE WriteSome
  <2>1. out' \in Seq([kind : {"token", "data", "notify"}, whole : BOOLEAN])
    BY <1>0, <1>22, <1>o DEF WriteSome
  <2> QED
    BY <1>0, <1>22, <2>1 DEF WriteSome
<1>23. CASE ShutdownSend
  <2>1. out' \in Seq([kind : {"token", "data", "notify"}, whole : BOOLEAN])
    BY <1>0, <1>23, <1>o DEF ShutdownSend
  <2> QED
    BY <1>0, <1>23, <2>1 DEF ShutdownSend
<1>24. CASE ShutdownAgain
  BY <1>0, <1>24 DEF ShutdownAgain
<1>25. CASE Close
  BY <1>0, <1>25 DEF Close
<1>26. CASE UNCHANGED vars
  BY <1>0, <1>26 DEF vars
<1> QED
  BY <1>1, <1>2, <1>3, <1>4, <1>5, <1>6, <1>7, <1>8, <1>9, <1>10, <1>11, <1>12, <1>13,
     <1>14, <1>15, <1>16, <1>17, <1>18, <1>19, <1>20, <1>21, <1>22, <1>23, <1>24,
     <1>25, <1>26
  DEF Next, Step, Call

\* incoming_ keeps beginning where a record does.
LEMMA BoundaryStep == ASSUME Inv, [Next]_vars PROVE Boundary'
<1> USE DEF peerVars, inVars, endVars, outVars, callVars, heldVars, Unchanged
<1>0. TypeOK /\ Boundary /\ Ends
  BY DEF Inv
<1>n. /\ fed \in Nat /\ consumed \in Nat /\ used \in Nat /\ fed = consumed + used
      /\ script \in Scripts /\ Len(script) \in Nat
  BY <1>0, Numbers
<1>p. PICK p \in Places :
        /\ Offset[p] = consumed
        /\ plain.end = PlainBefore[p] + 1
        /\ IF peerClosed /\ ~noNotify
             THEN p > 1 /\ script[p - 1].kind = "notify" /\ NoGoodbye(1..(p - 2))
             ELSE NoGoodbye(1..(p - 1))
  BY <1>0 DEF Boundary
<1>b. /\ ~peerClosed => NoGoodbye(1..(p - 1)) /\ ~noNotify
      /\ peerClosed /\ noNotify => NoGoodbye(1..(p - 1))
      /\ p \in 1..(Len(script) + 1)
  BY <1>0, <1>p DEF Ends, Places
\* It is enough to name the place where incoming_ begins after the step.
<1>q. ASSUME NEW q \in Places, script' = script, consumed' = Offset[q],
             plain'.end = PlainBefore[q] + 1,
             IF peerClosed' /\ ~noNotify'
               THEN q > 1 /\ script[q - 1].kind = "notify" /\ NoGoodbye(1..(q - 2))
               ELSE NoGoodbye(1..(q - 1))
      PROVE  Boundary'
  BY <1>q DEF Boundary, Places, Offset, PlainBefore, NoGoodbye
<1>s. ASSUME UNCHANGED <<script, consumed, peerClosed, noNotify>>, plain'.end = plain.end
      PROVE  Boundary'
  <2>1. plain'.end = PlainBefore[p] + 1 /\ consumed' = Offset[p]
    BY <1>p, <1>s
  <2>2. IF peerClosed' /\ ~noNotify'
          THEN p > 1 /\ script[p - 1].kind = "notify" /\ NoGoodbye(1..(p - 2))
          ELSE NoGoodbye(1..(p - 1))
    BY <1>p, <1>s
  <2> QED
    BY <1>q, <1>s, <2>1, <2>2
\* A record that holds no plaintext, and is not the goodbye, is taken.
<1>t. ASSUME NEW kinds, "data" \notin kinds, "notify" \notin kinds, NEW i \in Have(kinds),
             KeepExtra(used - script[i].len), ~peerClosed,
             UNCHANGED <<script, fed, plain, peerClosed, noNotify>>
      PROVE  Boundary'
  <2>1. i = p /\ p \in Here /\ script[p].kind \in kinds
        /\ fed - (used - script[p].len) = Offset[p + 1]
    BY <1>0, <1>p, TakeProperties
  <2>2. /\ p \in 1..Len(script) /\ p + 1 \in Places /\ script[p].data = 0
        /\ PlainBefore[p] \in Nat /\ PlainBefore[p + 1] = PlainBefore[p] + script[p].data
    BY <1>0, <1>p, <1>t, <2>1, HereProperties
  <2>3. consumed' = Offset[p + 1]
    BY <1>t, <2>1 DEF KeepExtra
  <2>4. plain'.end = PlainBefore[p + 1] + 1
    BY <1>p, <1>t, <2>2
  <2>5. NoGoodbye(1..(p + 1 - 1))
    BY <1>b, <1>n, <1>t, <2>1, <2>2 DEF NoGoodbye
  <2> QED
    BY <1>b, <1>t, <1>q, <2>2, <2>3, <2>4, <2>5
<1>1. CASE ConnectFails
  BY <1>s, <1>1 DEF ConnectFails
<1>2. CASE WrapRefuses
  BY <1>s, <1>2 DEF WrapRefuses
<1>3. CASE FirstToken
  BY <1>s, <1>3 DEF FirstToken
<1>4. CASE FirstFails
  BY <1>s, <1>4 DEF FirstFails
<1>5. ASSUME NEW n \in 0..(cut - fed), NEW eof \in BOOLEAN, FillRead(n, eof)
      PROVE  Boundary'
  BY <1>s, <1>5 DEF FillRead
<1>6. CASE FillFails
  BY <1>s, <1>6 DEF FillFails
<1>7. CASE NegotiateReads
  BY <1>s, <1>7 DEF NegotiateReads
<1>8. CASE NegotiateIncomplete
  BY <1>s, <1>8 DEF NegotiateIncomplete
<1>9. CASE NegotiateMessage
  <2>1. PICK i \in Have({"hello"} \cup Final) :
          KeepExtra(used - script[i].len) \/ UNCHANGED consumed
    BY <1>9 DEF NegotiateMessage
  <2>2. UNCHANGED <<script, fed, plain, peerClosed, noNotify>> /\ ~peerClosed
    BY <1>0, <1>9 DEF NegotiateMessage, Negotiates, Ends
  <2>3. "data" \notin {"hello"} \cup Final /\ "notify" \notin {"hello"} \cup Final
    BY DEF Final
  <2>4. CASE KeepExtra(used - script[i].len)
    BY <1>t, <2>2, <2>3, <2>4
  <2>5. CASE UNCHANGED consumed
    BY <1>s, <2>2, <2>5
  <2> QED
    BY <2>1, <2>4, <2>5
<1>10. CASE NegotiateFails
  BY <1>s, <1>10 DEF NegotiateFails
<1>11. CASE FinishHandshake
  BY <1>s, <1>11 DEF FinishHandshake, Moved
<1>12. CASE HandOver
  <2>1. plain'.end = plain.end /\ UNCHANGED <<script, consumed, peerClosed, noNotify>>
    BY <1>0, <1>12 DEF HandOver, TypeOK
  <2> QED
    BY <1>s, <2>1
<1>13. CASE ReadClosed
  BY <1>s, <1>13 DEF ReadClosed
<1>14. CASE DecryptIncomplete
  BY <1>s, <1>14 DEF DecryptIncomplete
<1>15. CASE DecryptRecord
  <2>1. PICK i \in Have({"data", "notify"}), both \in BOOLEAN :
          LET last == IF both THEN i + 1 ELSE i IN
          /\ both => /\ i < Len(script)
                     /\ script[i].kind = "data" /\ script[last].kind = "notify"
                     /\ used >= Offset[last + 1] - consumed
          /\ plain' = [next |-> PlainBefore[i] + 1, end |-> PlainBefore[i + 1] + 1]
          /\ KeepExtra(fed - Offset[last + 1])
          /\ peerClosed' = (script[last].kind = "notify")
    BY <1>15 DEF DecryptRecord
  <2>2. /\ i = p /\ p \in Here /\ script[p].kind \in {"data", "notify"}
        /\ p \in 1..Len(script) /\ p \in Nat /\ p + 1 \in Places
    BY <1>0, <1>p, TakeProperties, HereProperties
  <2>3. /\ ~peerClosed /\ ~noNotify /\ NoGoodbye(1..(p - 1))
        /\ UNCHANGED <<script, fed, noNotify>>
    BY <1>b, <1>15 DEF DecryptRecord, Decrypting, Reading
  <2> DEFINE last == IF both THEN p + 1 ELSE p
  <2>4. /\ plain' = [next |-> PlainBefore[p] + 1, end |-> PlainBefore[p + 1] + 1]
        /\ KeepExtra(fed - Offset[last + 1])
        /\ peerClosed' = (script[last].kind = "notify")
        /\ both => p < Len(script) /\ script[p].kind = "data"
    BY <2>1, <2>2
  <2>5. last \in 1..Len(script) /\ last + 1 \in Places /\ last + 1 - 1 = last
        /\ last + 1 - 2 = last - 1
    BY <1>n, <2>2, <2>4 DEF Places
  <2>6. NoGoodbye(1..(last - 1))
    <3>1. CASE both
      <4>1. 1..(last - 1) = 1..(p - 1) \cup {p}
        BY <2>2, <3>1
      <4> QED
        BY <2>3, <2>4, <3>1, <4>1 DEF NoGoodbye
    <3>2. CASE ~both
      BY <2>3, <3>2
    <3> QED
      BY <3>1, <3>2
  <2>7. PlainBefore[last + 1] = PlainBefore[p + 1]
    <3>1. CASE both
      <4>1. last = p + 1 /\ script[last].kind = "notify"
        BY <2>1, <2>2, <3>1
      <4>2. script[last].data = 0
        BY <1>n, <2>5, <4>1, ScriptIsSeq
      <4>3. /\ PlainBefore[last + 1] = PlainBefore[last] + script[last].data
            /\ PlainBefore[last] \in Nat
        BY <1>n, <2>5, PlainsProperties DEF PlainBefore
      <4> QED
        BY <4>1, <4>2, <4>3
    <3>2. CASE ~both
      BY <3>2
    <3> QED
      BY <3>1, <3>2
  <2>8. consumed' = Offset[last + 1]
    <3>1. Offset[last + 1] \in Nat
      BY <1>n, <2>5, OffsetsProperties DEF Offset, Places
    <3> QED
      BY <1>n, <2>4, <3>1 DEF KeepExtra
  <2>9. plain'.end = PlainBefore[last + 1] + 1
    BY <2>4, <2>7
  <2>10. last + 1 > 1 /\ (script[last].kind # "notify" => NoGoodbye(1..(last + 1 - 1)))
    <3>1. 1..last = 1..(last - 1) \cup {last}
      BY <2>5
    <3> QED
      BY <2>5, <2>6, <3>1 DEF NoGoodbye
  <2> HIDE DEF last
  <2>11. IF peerClosed' /\ ~noNotify'
           THEN /\ last + 1 > 1 /\ script[last + 1 - 1].kind = "notify"
                /\ NoGoodbye(1..(last + 1 - 2))
           ELSE NoGoodbye(1..(last + 1 - 1))
    BY <2>3, <2>4, <2>5, <2>6, <2>10
  <2> QED
    BY <1>q, <2>3, <2>5, <2>8, <2>9, <2>11
<1>16. CASE DecryptNoMemory
  <2>1. plain'.end = plain.end /\ UNCHANGED <<script, consumed, peerClosed, noNotify>>
    BY <1>0, <1>16 DEF DecryptNoMemory, TypeOK
  <2> QED
    BY <1>s, <2>1
<1>17. CASE DecryptRenegotiate
  <2>1. consumed' = consumed
    BY <1>17, <1>n DEF DecryptRenegotiate, KeepExtra
  <2> QED
    BY <1>s, <1>17, <2>1 DEF DecryptRenegotiate
<1>18. CASE DecryptFails
  BY <1>s, <1>18 DEF DecryptFails
<1>19. CASE ReadStarves
  <2>1. UNCHANGED <<script, consumed, plain>> /\ ~peerClosed
    BY <1>19 DEF ReadStarves, Reading
  <2>2. \/ peerClosed' /\ noNotify'
        \/ UNCHANGED <<peerClosed, noNotify>>
    BY <1>19 DEF ReadStarves
  <2>3. CASE peerClosed' /\ noNotify'
    BY <1>b, <1>p, <1>q, <2>1, <2>3
  <2>4. CASE UNCHANGED <<peerClosed, noNotify>>
    BY <1>s, <2>1, <2>4
  <2> QED
    BY <2>2, <2>3, <2>4
<1>20. CASE ReadMore
  BY <1>s, <1>20 DEF ReadMore
<1>21. ASSUME NEW n \in Buffers, CallRead(n)
       PROVE  Boundary'
  BY <1>s, <1>21 DEF CallRead
<1>22. CASE WriteSome
  BY <1>s, <1>22 DEF WriteSome
<1>23. CASE ShutdownSend
  BY <1>s, <1>23 DEF ShutdownSend
<1>24. CASE ShutdownAgain
  BY <1>s, <1>24 DEF ShutdownAgain
<1>25. CASE Close
  BY <1>s, <1>25 DEF Close
<1>26. CASE UNCHANGED vars
  BY <1>s, <1>26 DEF vars
<1> QED
  BY <1>1, <1>2, <1>3, <1>4, <1>5, <1>6, <1>7, <1>8, <1>9, <1>10, <1>11, <1>12, <1>13,
     <1>14, <1>15, <1>16, <1>17, <1>18, <1>19, <1>20, <1>21, <1>22, <1>23, <1>24,
     <1>25, <1>26
  DEF Next, Step, Call

\* No more is asked for than what the record that is being waited for lacks.
LEMMA AskedStep == ASSUME Inv, [Next]_vars PROVE Asked'
<1> USE DEF peerVars, inVars, endVars, outVars, callVars, heldVars, Returns, Gone,
            CallFails, Unchanged
<1>0. TypeOK /\ Boundary /\ Asked
  BY DEF Inv
<1>n. /\ fed \in Nat /\ consumed \in Nat /\ used \in Nat /\ fed = consumed + used
      /\ need \in Nat /\ want \in Nat /\ script \in Scripts /\ Len(script) \in Nat
  BY <1>0, Numbers
<1>l. \A i \in 1..Len(script) : script[i].len \in Nat /\ script[i].len > 0
  BY <1>n, ScriptIsSeq
<1>i. \A i \in Here : script[i].len \in Nat /\ script[i].len > 0
  BY <1>l DEF Here
<1>h. UNCHANGED <<script, consumed>> => Here' = Here
  BY DEF Here, Offset
\* The call returns, or goes on to decrypt, with nothing newly read.
<1>s. ASSUME UNCHANGED <<script, fed, consumed, need>>, pc' \in {"idle", "gone", "read"}
      PROVE  Asked'
  <2>1. Here' = Here /\ used' = used
    BY <1>h, <1>s DEF used
  <2> QED
    BY <1>0, <1>s, <2>1 DEF Asked
\* A call of fill_incoming() asks for need_ bytes, one at least.
<1>f. ASSUME NEW caller, Fill(caller), UNCHANGED <<script, fed, consumed>>,
             \A i \in Here : ~Whole(i) \/ need > 0
      PROVE  Asked'
  <2>1. Here' = Here /\ used' = used
    BY <1>h, <1>f DEF used
  <2>2. want' = (IF need >= 1 THEN need ELSE 1) /\ pc' = "fill" /\ need' = 0
    BY <1>f, <1>n, MaxOfTwo DEF Fill
  <2>3. ASSUME NEW i \in Here
        PROVE  want' <= script[i].len - used
    <3>1. need > 0 => need <= script[i].len - used
      BY <1>0 DEF Asked
    <3>2. need = 0 => used < script[i].len
      BY <1>f, <1>i, <1>n DEF Whole
    <3>3. script[i].len \in Nat
      BY <1>i
    <3> QED
      BY <1>n, <2>2, <3>1, <3>2, <3>3
  <2>4. want' > 0
    BY <1>n, <2>2
  <2> QED
    BY <1>f, <2>1, <2>2, <2>3, <2>4 DEF Asked
<1>1. CASE ConnectFails
  BY <1>s, <1>1 DEF ConnectFails
<1>2. CASE WrapRefuses
  BY <1>s, <1>2 DEF WrapRefuses
<1>3. CASE FirstToken
  <2>1. used = 0 /\ need = 0
    BY <1>0, <1>n, <1>3 DEF FirstToken, Asked
  <2>2. UNCHANGED <<script, fed, consumed, need>> /\ pc' \in {"negotiate", "gone"}
    BY <1>3 DEF FirstToken
  <2>3. Here' = Here /\ used' = used
    BY <1>h, <2>2 DEF used
  <2>4. \A i \in Here : ~Whole(i)'
    BY <1>i, <1>n, <2>1, <2>2, <2>3 DEF Whole
  <2> QED
    BY <2>1, <2>2, <2>3, <2>4 DEF Asked
<1>4. CASE FirstFails
  BY <1>s, <1>4 DEF FirstFails
<1>5. ASSUME NEW n \in 0..(cut - fed), NEW eof \in BOOLEAN, FillRead(n, eof)
      PROVE  Asked'
  <2>1. /\ pc = "fill" /\ fed' = fed + n /\ UNCHANGED <<script, consumed, need>>
        /\ want' = want - Min({want, n})
        /\ pc' = IF want' = 0 \/ eof THEN back ELSE "fill"
        /\ needInput' = IF pc' = "negotiate" THEN FALSE ELSE needInput
    BY <1>5 DEF FillRead
  <2>2. n \in Nat
    BY <1>0, <1>n, Numbers
  <2>3. need = 0 /\ \A i \in Here : want <= script[i].len - used
    BY <1>0, <2>1 DEF Asked
  <2>4. Here' = Here /\ used' = used + n
    <3>1. used' = fed + n - consumed
      <4>1. fed' = fed + n /\ consumed' = consumed
        BY <2>1
      <4> QED
        BY <1>n, <2>2, <4>1 DEF used
    <3>2. fed + n - consumed = used + n
      BY <1>n, <2>2
    <3>3. Here' = Here
      BY <1>h, <2>1
    <3> QED
      BY <3>1, <3>2, <3>3
  <2>5. CASE pc' = "fill"
    <3>0. back # "fill" /\ pc' \in {back, "fill"}
      BY <1>0, <2>1 DEF TypeOK
    <3>1. want' # 0
      BY <2>1, <2>5, <3>0
    <3>2. want' = (IF want <= n THEN 0 ELSE want - n)
      BY <1>n, <2>1, <2>2, MinOfTwo
    <3>3. want > n /\ want' = want - n
      BY <1>n, <2>2, <3>1, <3>2
    <3>4. want' > 0 /\ \A i \in Here : want' <= script[i].len - (used + n)
      BY <1>i, <1>n, <2>2, <2>3, <3>3
    <3>5. want' > 0 /\ \A i \in Here' : want' <= script'[i].len - used'
      BY <2>1, <2>4, <3>4
    <3>6. need' = 0
      BY <2>1, <2>3
    <3> QED
      BY <2>5, <3>5, <3>6 DEF Asked
  <2>6. CASE pc' # "fill"
    <3>1. pc' \in {"negotiate", "read"}
      BY <1>0, <2>1, <2>6 DEF TypeOK
    <3>2. pc' = "negotiate" => ~needInput'
      BY <2>1
    <3> QED
      BY <2>1, <2>3, <3>1, <3>2 DEF Asked
  <2> QED
    BY <2>5, <2>6
<1>6. CASE FillFails
  BY <1>s, <1>6 DEF FillFails
<1>7. CASE NegotiateReads
  <2>1. \A i \in Here : ~Whole(i)
    BY <1>0, <1>7 DEF NegotiateReads, Asked
  <2>2. CASE innerEof
    BY <1>s, <1>7, <2>2 DEF NegotiateReads
  <2>3. CASE ~innerEof
    <3>1. Fill("negotiate") /\ UNCHANGED <<script, fed, consumed>>
      BY <1>7, <2>3 DEF NegotiateReads
    <3> QED
      BY <1>f, <2>1, <3>1
  <2> QED
    BY <2>2, <2>3
<1>8. CASE NegotiateIncomplete
  <2>1. /\ UNCHANGED <<script, fed, consumed>> /\ need' \in Missing
        /\ pc' = "negotiate" /\ needInput' /\ Incomplete
    BY <1>8 DEF NegotiateIncomplete, Negotiates
  <2>2. /\ \A i \in Here : ~Whole(i)
        /\ \A i \in Here : need' <= script[i].len - used
    BY <1>0, <2>1, MissingProperties
  <2>3. Here' = Here /\ used' = used
    BY <1>h, <2>1 DEF used
  <2>4. \A i \in Here : ~Whole(i)'
    BY <2>1, <2>2, <2>3 DEF Whole
  <2> QED
    BY <2>1, <2>2, <2>3, <2>4 DEF Asked
<1>9. CASE NegotiateMessage
  <2>1. /\ pc = "negotiate" /\ ~needInput /\ UNCHANGED <<script, fed, need>>
        /\ \/ /\ needInput' => consumed' = fed
              /\ pc' \in {"negotiate", "read", "finish"}
           \/ pc' \in {"gone", "idle"} /\ UNCHANGED consumed
    BY <1>9 DEF NegotiateMessage, Negotiates, MoreInput
  <2>2. need' = 0
    BY <1>0, <2>1 DEF Asked
  <2>3. CASE pc' \in {"gone", "idle"}
    BY <2>1, <2>2, <2>3 DEF Asked
  <2>4. ASSUME pc' = "negotiate", needInput', NEW i \in Here'
        PROVE  ~Whole(i)'
    <3>1. used' = 0
      BY <1>n, <2>1, <2>4 DEF used
    <3>2. script'[i].len > 0 /\ script'[i].len \in Nat
      BY <1>l, <2>1, <2>4 DEF Here
    <3> QED
      BY <3>1, <3>2 DEF Whole
  <2> QED
    BY <2>1, <2>2, <2>3, <2>4 DEF Asked
<1>10. CASE NegotiateFails
  BY <1>s, <1>10 DEF NegotiateFails
<1>11. CASE FinishHandshake
  BY <1>s, <1>11 DEF FinishHandshake, Moved
<1>12. CASE HandOver
  BY <1>s, <1>12 DEF HandOver
<1>13. CASE ReadClosed
  BY <1>s, <1>13 DEF ReadClosed
<1>14. CASE DecryptIncomplete
  <2>1. /\ UNCHANGED <<script, fed, consumed>> /\ Incomplete
        /\ pc' \in {"read", "idle"}
        /\ need' \in Missing \/ UNCHANGED need
    BY <1>14 DEF DecryptIncomplete, Decrypting, Reading
  <2>2. CASE need' \in Missing
    <3>1. \A i \in Here : need' <= script[i].len - used
      BY <1>0, <2>1, <2>2, MissingProperties
    <3>2. Here' = Here /\ used' = used
      BY <1>h, <2>1 DEF used
    <3> QED
      BY <2>1, <3>1, <3>2 DEF Asked
  <2>3. CASE UNCHANGED need
    BY <1>s, <2>1, <2>3
  <2> QED
    BY <2>1, <2>2, <2>3
<1>15. CASE DecryptRecord
  BY <1>n, <1>15 DEF DecryptRecord, Decrypting, Reading, Asked
<1>16. CASE DecryptNoMemory
  BY <1>s, <1>16 DEF DecryptNoMemory
<1>17. CASE DecryptRenegotiate
  BY <1>n, <1>17 DEF DecryptRenegotiate, Decrypting, Reading, Asked
<1>18. CASE DecryptFails
  BY <1>s, <1>18 DEF DecryptFails
<1>19. CASE ReadStarves
  BY <1>s, <1>19 DEF ReadStarves
<1>20. CASE ReadMore
  <2>1. Fill("read") /\ UNCHANGED <<script, fed, consumed>>
    BY <1>20 DEF ReadMore
  <2>2. used = 0 \/ need > 0
    BY <1>n, <1>20 DEF ReadMore, Decrypting
  <2>3. \A i \in Here : ~Whole(i) \/ need > 0
    BY <1>i, <2>2 DEF Whole
  <2> QED
    BY <1>f, <2>1, <2>3
<1>21. ASSUME NEW n \in Buffers, CallRead(n)
       PROVE  Asked'
  BY <1>s, <1>21 DEF CallRead
<1>22. CASE WriteSome
  BY <1>s, <1>22 DEF WriteSome
<1>23. CASE ShutdownSend
  BY <1>s, <1>23 DEF ShutdownSend
<1>24. CASE ShutdownAgain
  BY <1>s, <1>24 DEF ShutdownAgain
<1>25. CASE Close
  BY <1>s, <1>25 DEF Close
<1>26. CASE UNCHANGED vars
  <2>1. Here' = Here /\ used' = used
    BY <1>h, <1>26 DEF vars, used
  <2> QED
    BY <1>0, <1>26, <2>1 DEF vars, Asked, Whole
<1> QED
  BY <1>1, <1>2, <1>3, <1>4, <1>5, <1>6, <1>7, <1>8, <1>9, <1>10, <1>11, <1>12, <1>13,
     <1>14, <1>15, <1>16, <1>17, <1>18, <1>19, <1>20, <1>21, <1>22, <1>23, <1>24,
     <1>25, <1>26
  DEF Next, Step, Call

\* The ends stay what they were seen to be.
LEMMA EndsStep == ASSUME Inv, [Next]_vars PROVE Ends'
<1> USE DEF peerVars, inVars, endVars, outVars, callVars, heldVars, Returns, Gone,
            CallFails, Unchanged
<1>0. TypeOK /\ Ends
  BY DEF Inv
<1>n. /\ fed \in Nat /\ consumed \in Nat /\ used \in Nat /\ fed = consumed + used
      /\ cut \in Nat /\ plain.next \in Nat /\ plain.end \in Nat
  BY <1>0, Numbers
<1>s. ASSUME UNCHANGED <<script, cut, due, fed, consumed, plain, innerEof, peerClosed,
                         noNotify, told>>,
             pc' \in {"idle", "gone", "read"} \/ ~peerClosed
      PROVE  Ends'
  <2>1. used' = used /\ (HasPlain' <=> HasPlain)
    BY <1>s DEF used, HasPlain
  <2> QED
    BY <1>0, <1>s, <2>1 DEF Ends
<1>1. CASE ConnectFails
  BY <1>0, <1>s, <1>1 DEF Ends, ConnectFails
<1>2. CASE WrapRefuses
  BY <1>0, <1>s, <1>2 DEF Ends, WrapRefuses
<1>3. CASE FirstToken
  BY <1>0, <1>s, <1>3 DEF Ends, FirstToken
<1>4. CASE FirstFails
  BY <1>0, <1>s, <1>4 DEF Ends, FirstFails
<1>5. ASSUME NEW n \in 0..(cut - fed), NEW eof \in BOOLEAN, FillRead(n, eof)
      PROVE  Ends'
  <2>1. /\ fed + n <= cut /\ (eof => fed + n = cut) /\ innerEof' = (innerEof \/ eof)
        /\ fed' = fed + n /\ pc = "fill"
        /\ UNCHANGED <<script, cut, due, consumed, plain, peerClosed, noNotify, told>>
    BY <1>5 DEF FillRead, EndNoted
  <2>2. n \in Nat
    BY <1>n
  <2>3. innerEof' => fed' = cut
    BY <1>0, <1>n, <2>1, <2>2 DEF Ends
  <2>4. ~peerClosed /\ ~told /\ ~noNotify
    BY <1>0, <2>1 DEF Ends
  <2> QED
    BY <1>0, <2>1, <2>3, <2>4 DEF Ends
<1>6. CASE FillFails
  BY <1>0, <1>s, <1>6 DEF Ends, FillFails
<1>7. CASE NegotiateReads
  BY <1>0, <1>s, <1>7 DEF Ends, NegotiateReads, Fill
<1>8. CASE NegotiateIncomplete
  BY <1>0, <1>s, <1>8 DEF Ends, NegotiateIncomplete, Negotiates
<1>9. CASE NegotiateMessage
  <2>1. /\ pc = "negotiate"
        /\ UNCHANGED <<script, cut, due, fed, plain, innerEof, peerClosed, noNotify, told>>
    BY <1>9 DEF NegotiateMessage, Negotiates
  <2>2. ~peerClosed /\ ~told /\ ~noNotify
    BY <1>0, <2>1 DEF Ends
  <2> QED
    BY <1>0, <2>1, <2>2 DEF Ends
<1>10. CASE NegotiateFails
  BY <1>0, <1>s, <1>10 DEF Ends, NegotiateFails, Negotiates
<1>11. CASE FinishHandshake
  BY <1>0, <1>s, <1>11 DEF Ends, FinishHandshake, Moved
<1>12. CASE HandOver
  <2> DEFINE n == Min({dst, plain.end - plain.next})
  <2>1. /\ plain' = [plain EXCEPT !.next = @ + n] /\ told' = LastOut(n)
        /\ HasPlain /\ pc' = "idle"
        /\ UNCHANGED <<script, cut, due, fed, consumed, innerEof, peerClosed, noNotify>>
    BY <1>12 DEF HandOver
  <2> HIDE DEF n
  <2>2. plain'.next = plain.next + n /\ plain'.end = plain.end
    BY <1>0, <2>1 DEF TypeOK
  <2>3. told' => peerClosed /\ plain'.next = plain'.end
    BY <2>1, <2>2 DEF LastOut
  <2>4. told' => ~HasPlain'
    BY <1>n, <2>2, <2>3 DEF HasPlain
  <2>5. ~noNotify
    BY <1>0, <2>1 DEF Ends
  <2> QED
    BY <1>0, <2>1, <2>3, <2>4, <2>5 DEF Ends
<1>13. CASE ReadClosed
  <2>1. /\ ~HasPlain /\ peerClosed /\ told' /\ pc' = "idle"
        /\ UNCHANGED <<script, cut, due, fed, consumed, plain, innerEof, peerClosed, noNotify>>
    BY <1>13 DEF ReadClosed
  <2>2. used' = used /\ ~HasPlain'
    BY <2>1 DEF used, HasPlain
  <2> QED
    BY <1>0, <2>1, <2>2 DEF Ends
<1>14. CASE DecryptIncomplete
  BY <1>0, <1>s, <1>14 DEF Ends, DecryptIncomplete, Decrypting, Reading
<1>15. CASE DecryptRecord
  <2>1. /\ ~peerClosed /\ pc' = "read"
        /\ UNCHANGED <<script, cut, due, fed, innerEof, noNotify, told>>
    BY <1>15 DEF DecryptRecord, Decrypting, Reading
  <2>2. ~told /\ ~noNotify
    BY <1>0, <2>1 DEF Ends
  <2> QED
    BY <1>0, <2>1, <2>2 DEF Ends
<1>16. CASE DecryptNoMemory
  <2>1. /\ ~peerClosed /\ pc' = "idle"
        /\ UNCHANGED <<script, cut, due, fed, innerEof, peerClosed, noNotify, told>>
    BY <1>16 DEF DecryptNoMemory, Decrypting, Reading
  <2>2. ~told /\ ~noNotify
    BY <1>0, <2>1 DEF Ends
  <2> QED
    BY <1>0, <2>1, <2>2 DEF Ends
<1>17. CASE DecryptRenegotiate
  <2>1. /\ ~peerClosed
        /\ UNCHANGED <<script, cut, due, fed, innerEof, peerClosed, noNotify, told>>
    BY <1>17 DEF DecryptRenegotiate, Decrypting, Reading
  <2>2. ~told /\ ~noNotify
    BY <1>0, <2>1 DEF Ends
  <2> QED
    BY <1>0, <2>1, <2>2 DEF Ends
<1>18. CASE DecryptFails
  BY <1>0, <1>s, <1>18 DEF Ends, DecryptFails, Decrypting, Reading
<1>19. CASE ReadStarves
  <2>1. /\ ~HasPlain /\ ~peerClosed /\ innerEof /\ pc' = "idle"
        /\ UNCHANGED <<script, cut, due, fed, consumed, plain, innerEof>>
        /\ \/ used = 0 /\ told' /\ peerClosed'
           \/ UNCHANGED <<told, peerClosed, noNotify>>
    BY <1>19 DEF ReadStarves, Reading
  <2>2. ~told /\ ~noNotify /\ fed = cut
    BY <1>0, <2>1 DEF Ends
  <2>3. used' = used /\ ~HasPlain'
    BY <2>1 DEF used, HasPlain
  <2> QED
    BY <1>0, <2>1, <2>2, <2>3 DEF Ends
<1>20. CASE ReadMore
  BY <1>0, <1>s, <1>20 DEF Ends, ReadMore, Reading, Fill
<1>21. ASSUME NEW n \in Buffers, CallRead(n)
      PROVE  Ends'
  BY <1>0, <1>s, <1>21 DEF Ends, CallRead, MayCall
<1>22. CASE WriteSome
  BY <1>0, <1>s, <1>22 DEF Ends, WriteSome, MayCall
<1>23. CASE ShutdownSend
  BY <1>0, <1>s, <1>23 DEF Ends, ShutdownSend, MayCall
<1>24. CASE ShutdownAgain
  BY <1>0, <1>s, <1>24 DEF Ends, ShutdownAgain, MayCall
<1>25. CASE Close
  BY <1>0, <1>s, <1>25 DEF Ends, Close
<1>26. CASE UNCHANGED vars
  <2>1. used' = used /\ (HasPlain' <=> HasPlain)
    BY <1>26 DEF vars, used, HasPlain
  <2> QED
    BY <1>0, <1>26, <2>1 DEF vars, Ends
<1> QED
  BY <1>1, <1>2, <1>3, <1>4, <1>5, <1>6, <1>7, <1>8, <1>9, <1>10, <1>11, <1>12, <1>13,
     <1>14, <1>15, <1>16, <1>17, <1>18, <1>19, <1>20, <1>21, <1>22, <1>23, <1>24,
     <1>25, <1>26
  DEF Next, Step, Call

\* The caller has the plaintext, in order, up to where plaintext_ begins.
LEMMA ReceivedStep == ASSUME Inv, [Next]_vars PROVE Received'
<1> USE DEF peerVars, inVars, endVars, outVars, callVars, heldVars, Returns, Gone,
            CallFails, Unchanged
<1>0. TypeOK /\ Boundary /\ Received
  BY DEF Inv
<1>n. /\ plain.next \in Nat /\ plain.end \in Nat /\ plain.next <= plain.end
      /\ ReadChunk \in Nat
  BY <1>0, Numbers
<1>s. ASSUME UNCHANGED got, plain'.next = plain.next
      PROVE  Received'
  BY <1>0, <1>s DEF Received
<1>1. CASE ConnectFails
  BY <1>s, <1>1 DEF ConnectFails
<1>2. CASE WrapRefuses
  BY <1>s, <1>2 DEF WrapRefuses
<1>3. CASE FirstToken
  BY <1>s, <1>3 DEF FirstToken
<1>4. CASE FirstFails
  BY <1>s, <1>4 DEF FirstFails
<1>5. ASSUME NEW n \in 0..(cut - fed), NEW eof \in BOOLEAN, FillRead(n, eof)
      PROVE  Received'
  BY <1>s, <1>5 DEF FillRead
<1>6. CASE FillFails
  BY <1>s, <1>6 DEF FillFails
<1>7. CASE NegotiateReads
  BY <1>s, <1>7 DEF NegotiateReads, Fill
<1>8. CASE NegotiateIncomplete
  BY <1>s, <1>8 DEF NegotiateIncomplete, Negotiates
<1>9. CASE NegotiateMessage
  BY <1>s, <1>9 DEF NegotiateMessage, Negotiates
<1>10. CASE NegotiateFails
  BY <1>s, <1>10 DEF NegotiateFails, Negotiates
<1>11. CASE FinishHandshake
  BY <1>s, <1>11 DEF FinishHandshake, Moved
<1>12. CASE HandOver
  <2> DEFINE n == Min({dst, plain.end - plain.next})
             more == [i \in 1..n |-> plain.next + i - 1]
  <2>1. plain' = [plain EXCEPT !.next = @ + n] /\ got' = got \o more
    BY <1>12 DEF HandOver
  <2>2. n \in Nat
    <3>1. dst \in Nat
      BY <1>0, TlsStreamAssumption DEF TypeOK
    <3>2. plain.end - plain.next \in Nat
      BY <1>n
    <3> QED
      BY <3>1, <3>2, MinOfTwo
  <2> HIDE DEF n
  <2>3. plain'.next = plain.next + n
    BY <1>0, <2>1 DEF TypeOK
  <2> DEFINE len == Len(got)
  <2>4. /\ got \in Seq(Nat) /\ len \in Nat /\ plain.next = len + 1
        /\ got = [i \in 1..len |-> i]
    BY <1>0 DEF Received
  <2>5. more \in [1..n -> Nat] /\ \A i \in 1..n : more[i] = len + i
    BY <2>2, <2>4
  <2> HIDE DEF more
  <2>6. more \in Seq(Nat) /\ Len(more) = n
    BY <2>2, <2>5, FunctionIsSeq
  <2>7. /\ got' \in Seq(Nat) /\ Len(got') = len + n
        /\ \A i \in 1..(len + n) : got'[i] = IF i <= len THEN got[i] ELSE more[i - len]
    BY ZenonT(60), <2>1, <2>4, <2>6, ConcatProperties
  <2> HIDE DEF len
  <2>8. \A i \in 1..(len + n) : got'[i] = i
    <3> SUFFICES ASSUME NEW i \in 1..(len + n) PROVE got'[i] = i
      OBVIOUS
    <3>1. CASE i <= len
      <4>1. i \in 1..len
        BY <2>2, <2>4, <3>1
      <4>2. got[i] = i
        BY <2>4, <4>1
      <4> QED
        BY <2>7, <3>1, <4>2
    <3>2. CASE ~(i <= len)
      <4>1. i - len \in 1..n /\ len + (i - len) = i
        BY <2>2, <2>4, <3>2
      <4>2. more[i - len] = i
        BY <2>5, <4>1
      <4> QED
        BY <2>7, <3>2, <4>2
    <3> QED
      BY <3>1, <3>2
  <2>9. got' = [i \in 1..(len + n) |-> i]
    <3>1. DOMAIN got' = 1..(len + n) /\ got' = [i \in DOMAIN got' |-> got'[i]]
      BY <2>7
    <3> QED
      BY <2>8, <3>1
  <2>10. plain'.next = len + n + 1
    BY <2>2, <2>3, <2>4
  <2> QED
    BY <2>7, <2>9, <2>10 DEF Received
<1>13. CASE ReadClosed
  BY <1>s, <1>13 DEF ReadClosed
<1>14. CASE DecryptIncomplete
  BY <1>s, <1>14 DEF DecryptIncomplete, Decrypting, Reading
<1>15. CASE DecryptRecord
  <2>1. PICK p \in Places : Offset[p] = consumed /\ plain.end = PlainBefore[p] + 1
    BY <1>0 DEF Boundary
  <2>2. PICK i \in Have({"data", "notify"}) : plain'.next = PlainBefore[i] + 1
    BY <1>15 DEF DecryptRecord
  <2>3. i = p
    BY <1>0, <2>1, TakeProperties
  <2>4. plain.next = plain.end /\ UNCHANGED got
    BY <1>n, <1>15 DEF DecryptRecord, Decrypting, Reading, HasPlain
  <2> QED
    BY <1>s, <2>1, <2>2, <2>3, <2>4
<1>16. CASE DecryptNoMemory
  <2>1. plain'.next = plain.end /\ UNCHANGED got
    BY <1>0, <1>16 DEF DecryptNoMemory, TypeOK
  <2>2. plain.next = plain.end
    BY <1>n, <1>16 DEF DecryptNoMemory, Decrypting, Reading, HasPlain
  <2> QED
    BY <1>s, <2>1, <2>2
<1>17. CASE DecryptRenegotiate
  BY <1>s, <1>17 DEF DecryptRenegotiate, Decrypting, Reading
<1>18. CASE DecryptFails
  BY <1>s, <1>18 DEF DecryptFails, Decrypting, Reading
<1>19. CASE ReadStarves
  BY <1>s, <1>19 DEF ReadStarves, Reading
<1>20. CASE ReadMore
  BY <1>s, <1>20 DEF ReadMore, Reading, Fill
<1>21. ASSUME NEW n \in Buffers, CallRead(n)
      PROVE  Received'
  BY <1>s, <1>21 DEF CallRead, MayCall
<1>22. CASE WriteSome
  BY <1>s, <1>22 DEF WriteSome, MayCall
<1>23. CASE ShutdownSend
  BY <1>s, <1>23 DEF ShutdownSend, MayCall
<1>24. CASE ShutdownAgain
  BY <1>s, <1>24 DEF ShutdownAgain, MayCall
<1>25. CASE Close
  BY <1>s, <1>25 DEF Close
<1>26. CASE UNCHANGED vars
  BY <1>s, <1>26 DEF vars
<1> QED
  BY <1>1, <1>2, <1>3, <1>4, <1>5, <1>6, <1>7, <1>8, <1>9, <1>10, <1>11, <1>12, <1>13,
     <1>14, <1>15, <1>16, <1>17, <1>18, <1>19, <1>20, <1>21, <1>22, <1>23, <1>24,
     <1>25, <1>26
  DEF Next, Step, Call

\* An error is the last thing that a call comes to, and so is close().
LEMMA FailedStep == ASSUME Inv, [Next]_vars PROVE Failed'
<1> USE DEF peerVars, inVars, endVars, outVars, callVars, heldVars, Returns, Gone,
            CallFails, Unchanged, Errors, Failed
<1>0. TypeOK /\ Failed
  BY DEF Inv
<1>1. CASE ConnectFails
  BY <1>0, <1>1 DEF ConnectFails
<1>2. CASE WrapRefuses
  BY <1>0, <1>2 DEF WrapRefuses
<1>3. CASE FirstToken
  BY <1>0, <1>3 DEF FirstToken
<1>4. CASE FirstFails
  BY <1>0, <1>4 DEF FirstFails
<1>5. ASSUME NEW n \in 0..(cut - fed), NEW eof \in BOOLEAN, FillRead(n, eof)
      PROVE  Failed'
  <2>1. pc = "fill" /\ UNCHANGED result
    BY <1>5 DEF FillRead
  <2> QED
    BY <1>0, <2>1
<1>6. CASE FillFails
  BY <1>0, <1>6 DEF FillFails
<1>7. CASE NegotiateReads
  BY <1>0, <1>7 DEF NegotiateReads, Fill
<1>8. CASE NegotiateIncomplete
  BY <1>0, <1>8 DEF NegotiateIncomplete, Negotiates
<1>9. CASE NegotiateMessage
  BY <1>0, <1>9 DEF NegotiateMessage, Negotiates
<1>10. CASE NegotiateFails
  BY <1>0, <1>10 DEF NegotiateFails, Negotiates
<1>11. CASE FinishHandshake
  BY <1>0, <1>11 DEF FinishHandshake, Moved
<1>12. CASE HandOver
  BY <1>0, <1>12 DEF HandOver
<1>13. CASE ReadClosed
  BY <1>0, <1>13 DEF ReadClosed
<1>14. CASE DecryptIncomplete
  BY <1>0, <1>14 DEF DecryptIncomplete, Decrypting, Reading
<1>15. CASE DecryptRecord
  BY <1>0, <1>15 DEF DecryptRecord, Decrypting, Reading
<1>16. CASE DecryptNoMemory
  BY <1>0, <1>16 DEF DecryptNoMemory, Decrypting, Reading
<1>17. CASE DecryptRenegotiate
  BY <1>0, <1>17 DEF DecryptRenegotiate, Decrypting, Reading
<1>18. CASE DecryptFails
  BY <1>0, <1>18 DEF DecryptFails, Decrypting, Reading
<1>19. CASE ReadStarves
  BY <1>0, <1>19 DEF ReadStarves, Reading
<1>20. CASE ReadMore
  BY <1>0, <1>20 DEF ReadMore, Reading, Fill
<1>21. ASSUME NEW n \in Buffers, CallRead(n)
      PROVE  Failed'
  BY <1>0, <1>21 DEF CallRead, MayCall
<1>22. CASE WriteSome
  BY <1>0, <1>22 DEF WriteSome, MayCall
<1>23. CASE ShutdownSend
  BY <1>0, <1>23 DEF ShutdownSend, MayCall
<1>24. CASE ShutdownAgain
  BY <1>0, <1>24 DEF ShutdownAgain, MayCall
<1>25. CASE Close
  BY <1>0, <1>25 DEF Close
<1>26. CASE UNCHANGED vars
  BY <1>0, <1>26 DEF vars
<1> QED
  BY <1>1, <1>2, <1>3, <1>4, <1>5, <1>6, <1>7, <1>8, <1>9, <1>10, <1>11, <1>12, <1>13,
     <1>14, <1>15, <1>16, <1>17, <1>18, <1>19, <1>20, <1>21, <1>22, <1>23, <1>24,
     <1>25, <1>26
  DEF Next, Step, Call

\* What is sent next follows records that are whole, and no goodbye if it is
\* data.
LEMMA WireStep == ASSUME Inv, [Next]_vars PROVE Wire' /\ WireIsSound'
<1> USE DEF peerVars, inVars, endVars, outVars, callVars, heldVars, Returns, Gone,
            CallFails, Unchanged
<1>0. TypeOK /\ Failed /\ Wire /\ WireIsSound
  BY DEF Inv
<1>o. out \in Seq([kind : {"token", "data", "notify"}, whole : BOOLEAN])
  BY <1>0 DEF TypeOK
\* Nothing is sent, and nothing may be that might not have been before.
<1>s. ASSUME UNCHANGED <<out, shutdownSent>>, MaySend' => MaySend
      PROVE  Wire' /\ WireIsSound'
  BY <1>0, <1>s DEF Wire, WireIsSound
\* A record is appended to what was sent.
<1>a. ASSUME MaySend, NEW kind \in {"token", "data", "notify"}, NEW whole \in BOOLEAN,
             out' = Append(out, [kind |-> kind, whole |-> whole]),
             shutdownSent => shutdownSent',
             kind = "data" => ~shutdownSent,
             MaySend' => whole /\ (kind = "notify" => shutdownSent')
      PROVE  Wire' /\ WireIsSound'
  <2> DEFINE n == Len(out)
             new == [kind |-> kind, whole |-> whole]
  <2>1. /\ n \in Nat /\ Len(out') = n + 1
        /\ \A i \in 1..n : out'[i] = out[i]
        /\ out'[n + 1] = new
    BY <1>o, <1>a, AppendProperties
  <2>2. new.kind = kind /\ new.whole = whole
    OBVIOUS
  <2> HIDE DEF n, new
  <2>3. \A i \in 1..n : out[i].whole /\ (out[i].kind = "notify" => shutdownSent)
    BY <1>0, <1>a DEF Wire, n
  <2>4. \A i \in 1..(n + 1) : i = n + 1 \/ i \in 1..n
    BY <2>1
  <2>5. MaySend' => \A i \in 1..(n + 1) :
                       out'[i].whole /\ (out'[i].kind = "notify" => shutdownSent')
    BY <1>a, <2>1, <2>2, <2>3, <2>4
  <2>6. ASSUME NEW i \in 1..(n + 1), NEW j \in 1..(n + 1), i < j
        PROVE  out'[i].whole /\ (out'[i].kind = "notify" => out'[j].kind # "data")
    <3>1. i \in 1..n
      BY <2>1, <2>6
    <3>2. out'[i].whole /\ (out'[i].kind = "notify" => shutdownSent)
      BY <2>1, <2>3, <3>1
    <3>3. CASE j = n + 1
      BY <1>a, <2>1, <2>2, <3>2, <3>3
    <3>4. CASE j # n + 1
      <4>1. j \in 1..n /\ out'[i] = out[i] /\ out'[j] = out[j]
        BY <2>1, <2>4, <2>6, <3>1, <3>4
      <4>2. out[i].kind = "notify" => out[j].kind # "data"
        BY <1>0, <2>6, <3>1, <4>1 DEF WireIsSound, n
      <4> QED
        BY <3>2, <4>1, <4>2
    <3> QED
      BY <3>3, <3>4
  <2> QED
    BY <2>1, <2>5, <2>6 DEF Wire, WireIsSound
\* A record that is sent, and one that is not and ends the stream's use.
<1>w. ASSUME MaySend, NEW kind \in {"token", "data"}, Sends(kind), UNCHANGED shutdownSent,
             kind = "data" => ~shutdownSent
      PROVE  Wire' /\ WireIsSound'
  <2>1. out' = Append(out, [kind |-> kind, whole |-> TRUE])
    BY <1>w DEF Sends
  <2> QED
    BY <1>a, <1>w, <2>1
<1>f. ASSUME MaySend, NEW kind \in {"token", "data", "notify"}, SendFails(kind), ~MaySend',
             UNCHANGED shutdownSent, kind = "data" => ~shutdownSent
      PROVE  Wire' /\ WireIsSound'
  <2>1. CASE UNCHANGED out
    BY <1>s, <1>f, <2>1
  <2>2. CASE out' = Append(out, [kind |-> kind, whole |-> FALSE])
    BY <1>a, <1>f, <2>2
  <2> QED
    BY <1>f, <2>1, <2>2 DEF SendFails
<1>1. CASE ConnectFails
  BY <1>0, <1>s, <1>1 DEF MaySend, ConnectFails
<1>2. CASE WrapRefuses
  BY <1>0, <1>s, <1>2 DEF MaySend, WrapRefuses
<1>3. CASE FirstToken
  <2>1. MaySend /\ UNCHANGED shutdownSent
    BY <1>3 DEF FirstToken, MaySend
  <2>2. CASE Sends("token")
    BY <1>w, <2>1, <2>2
  <2>3. CASE SendFails("token") /\ pc' = "gone"
    BY <1>f, <2>1, <2>3 DEF MaySend
  <2> QED
    BY <1>3, <2>2, <2>3 DEF FirstToken
<1>4. CASE FirstFails
  BY <1>0, <1>s, <1>4 DEF MaySend, FirstFails
<1>5. ASSUME NEW n \in 0..(cut - fed), NEW eof \in BOOLEAN, FillRead(n, eof)
      PROVE  Wire' /\ WireIsSound'
  <2>1. pc = "fill" /\ UNCHANGED <<out, shutdownSent>>
    BY <1>5 DEF FillRead
  <2> QED
    BY <1>s, <2>1 DEF MaySend
<1>6. CASE FillFails
  BY <1>0, <1>s, <1>6 DEF MaySend, FillFails
<1>7. CASE NegotiateReads
  BY <1>0, <1>s, <1>7 DEF MaySend, NegotiateReads, Fill
<1>8. CASE NegotiateIncomplete
  BY <1>0, <1>s, <1>8 DEF MaySend, NegotiateIncomplete, Negotiates
<1>9. CASE NegotiateMessage
  <2>1. MaySend /\ UNCHANGED shutdownSent
    BY <1>9 DEF NegotiateMessage, Negotiates, MaySend
  <2>2. CASE Sends("token")
    BY <1>w, <2>1, <2>2
  <2>3. CASE UNCHANGED out
    BY <1>s, <2>1, <2>3
  <2>4. CASE SendFails("token") /\ pc' \in {"gone", "idle"} /\ result' = "net_error"
    BY <1>f, <2>1, <2>4 DEF MaySend, Errors
  <2> QED
    BY <1>9, <2>2, <2>3, <2>4 DEF NegotiateMessage
<1>10. CASE NegotiateFails
  BY <1>0, <1>s, <1>10 DEF MaySend, NegotiateFails, Negotiates
<1>11. CASE FinishHandshake
  BY <1>0, <1>s, <1>11 DEF MaySend, FinishHandshake, Moved
<1>12. CASE HandOver
  BY <1>0, <1>s, <1>12 DEF MaySend, HandOver
<1>13. CASE ReadClosed
  BY <1>0, <1>s, <1>13 DEF MaySend, ReadClosed
<1>14. CASE DecryptIncomplete
  BY <1>0, <1>s, <1>14 DEF MaySend, DecryptIncomplete, Decrypting, Reading
<1>15. CASE DecryptRecord
  BY <1>0, <1>s, <1>15 DEF MaySend, DecryptRecord, Decrypting, Reading
<1>16. CASE DecryptNoMemory
  BY <1>0, <1>s, <1>16 DEF MaySend, DecryptNoMemory, Decrypting, Reading
<1>17. CASE DecryptRenegotiate
  BY <1>0, <1>s, <1>17 DEF MaySend, DecryptRenegotiate, Decrypting, Reading
<1>18. CASE DecryptFails
  BY <1>0, <1>s, <1>18 DEF MaySend, DecryptFails, Decrypting, Reading
<1>19. CASE ReadStarves
  BY <1>0, <1>s, <1>19 DEF MaySend, ReadStarves, Reading
<1>20. CASE ReadMore
  BY <1>0, <1>s, <1>20 DEF MaySend, ReadMore, Reading, Fill
<1>21. ASSUME NEW n \in Buffers, CallRead(n)
      PROVE  Wire' /\ WireIsSound'
  BY <1>0, <1>s, <1>21 DEF MaySend, CallRead, MayCall
<1>22. CASE WriteSome
  <2>1. UNCHANGED <<shutdownSent, hasContext>> /\ pc = "idle" /\ result \notin Errors
    BY <1>22 DEF WriteSome, MayCall
  <2>2. CASE UNCHANGED out /\ result' \in {"logic", "tls_error"} /\ pc' = "idle"
    BY <1>s, <2>1, <2>2 DEF MaySend, Errors
  <2>3. CASE MayWrite /\ Sends("data")
    BY <1>w, <2>1, <2>3 DEF MaySend, MayWrite
  <2>4. CASE MayWrite /\ SendFails("data") /\ result' = "net_error" /\ pc' = "idle"
    BY <1>f, <2>1, <2>4 DEF MaySend, MayWrite, Errors
  <2> QED
    BY <1>22, <2>2, <2>3, <2>4 DEF WriteSome
<1>23. CASE ShutdownSend
  <2>1. MaySend /\ ~shutdownSent
    BY <1>23 DEF ShutdownSend, MayCall, MaySend
  <2>2. CASE UNCHANGED outVars
    BY <1>s, <2>1, <2>2
  <2>3. CASE SendFails("notify") /\ result' = "net_error" /\ pc' = "idle"
              /\ UNCHANGED shutdownSent
    BY <1>f, <2>1, <2>3 DEF MaySend, Errors
  <2>4. CASE Sends("notify") /\ shutdownSent' = TRUE
    <3>1. out' = Append(out, [kind |-> "notify", whole |-> TRUE])
      BY <2>4 DEF Sends
    <3> QED
      BY <1>a, <2>1, <2>4, <3>1
  <2> QED
    BY <1>23, <2>2, <2>3, <2>4 DEF ShutdownSend
<1>24. CASE ShutdownAgain
  BY <1>0, <1>s, <1>24 DEF MaySend, ShutdownAgain, MayCall
<1>25. CASE Close
  BY <1>0, <1>s, <1>25 DEF MaySend, Close
<1>26. CASE UNCHANGED vars
  BY <1>s, <1>26 DEF vars, MaySend
<1> QED
  BY <1>1, <1>2, <1>3, <1>4, <1>5, <1>6, <1>7, <1>8, <1>9, <1>10, <1>11, <1>12, <1>13,
     <1>14, <1>15, <1>16, <1>17, <1>18, <1>19, <1>20, <1>21, <1>22, <1>23, <1>24,
     <1>25, <1>26
  DEF Next, Step, Call

\* A message is refused when it is too large, and only then.
LEMMA FitsStep == ASSUME Inv, [Next]_vars PROVE FitsOrRefused'
<1> USE DEF peerVars, inVars, endVars, outVars, callVars, heldVars, Returns, Gone,
            CallFails, Unchanged, Errors
<1>0. TypeOK /\ Boundary /\ Asked /\ Failed /\ FitsOrRefused
  BY DEF Inv
<1>r. pc \notin {"idle", "gone"} => result # "too_large"
  BY <1>0 DEF Failed
<1>s. result' # "too_large" => FitsOrRefused'
  BY DEF FitsOrRefused
<1>1. CASE ConnectFails
  BY <1>r, <1>s, <1>1 DEF ConnectFails
<1>2. CASE WrapRefuses
  BY <1>r, <1>s, <1>2 DEF WrapRefuses
<1>3. CASE FirstToken
  BY <1>r, <1>s, <1>3 DEF FirstToken
<1>4. CASE FirstFails
  BY <1>r, <1>s, <1>4 DEF FirstFails
<1>5. ASSUME NEW n \in 0..(cut - fed), NEW eof \in BOOLEAN, FillRead(n, eof)
      PROVE  FitsOrRefused'
  <2>1. pc = "fill" /\ UNCHANGED result
    BY <1>5 DEF FillRead
  <2> QED
    BY <1>r, <1>s, <2>1
<1>6. CASE FillFails
  <2>1. CASE ~HasSpace
    <3>1. /\ used \in Nat /\ capacity \in Nat /\ ReadChunk \in Nat /\ MaxIncoming \in Nat
          /\ ReadChunk <= MaxIncoming /\ want \in Nat
      BY <1>0, Numbers, TlsStreamAssumption
    <3>2. used > MaxIncoming - ReadChunk /\ used # 0
      BY <2>1, <3>1 DEF HasSpace
    <3>3. PICK p \in Places : Offset[p] = consumed
      BY <1>0 DEF Boundary
    <3>4. p \in Here /\ script[p].len \in Nat
      BY <1>0, <3>2, <3>3, HereProperties
    <3>5. want > 0 /\ want <= script[p].len - used
      BY <1>0, <1>6, <3>4 DEF FillFails, Asked
    <3>6. script[p].len > MaxIncoming - ReadChunk
      BY <3>1, <3>2, <3>4, <3>5
    <3>7. UNCHANGED <<script, consumed>>
      BY <1>6 DEF FillFails
    <3>8. Here' = Here
      BY <3>7 DEF Here, Offset
    <3> QED
      BY <3>4, <3>6, <3>7, <3>8 DEF FitsOrRefused
  <2>2. CASE HasSpace
    BY <1>s, <1>6, <2>2 DEF FillFails
  <2> QED
    BY <2>1, <2>2
<1>7. CASE NegotiateReads
  BY <1>r, <1>s, <1>7 DEF NegotiateReads, Fill
<1>8. CASE NegotiateIncomplete
  BY <1>r, <1>s, <1>8 DEF NegotiateIncomplete, Negotiates
<1>9. CASE NegotiateMessage
  BY <1>r, <1>s, <1>9 DEF NegotiateMessage, Negotiates
<1>10. CASE NegotiateFails
  BY <1>r, <1>s, <1>10 DEF NegotiateFails, Negotiates
<1>11. CASE FinishHandshake
  BY <1>r, <1>s, <1>11 DEF FinishHandshake, Moved
<1>12. CASE HandOver
  BY <1>r, <1>s, <1>12 DEF HandOver
<1>13. CASE ReadClosed
  BY <1>r, <1>s, <1>13 DEF ReadClosed
<1>14. CASE DecryptIncomplete
  BY <1>r, <1>s, <1>14 DEF DecryptIncomplete, Decrypting, Reading
<1>15. CASE DecryptRecord
  BY <1>r, <1>s, <1>15 DEF DecryptRecord, Decrypting, Reading
<1>16. CASE DecryptNoMemory
  BY <1>r, <1>s, <1>16 DEF DecryptNoMemory, Decrypting, Reading
<1>17. CASE DecryptRenegotiate
  BY <1>r, <1>s, <1>17 DEF DecryptRenegotiate, Decrypting, Reading
<1>18. CASE DecryptFails
  BY <1>r, <1>s, <1>18 DEF DecryptFails, Decrypting, Reading
<1>19. CASE ReadStarves
  BY <1>r, <1>s, <1>19 DEF ReadStarves, Reading
<1>20. CASE ReadMore
  BY <1>r, <1>s, <1>20 DEF ReadMore, Reading, Fill
<1>21. ASSUME NEW n \in Buffers, CallRead(n)
      PROVE  FitsOrRefused'
  BY <1>r, <1>s, <1>21 DEF CallRead, MayCall
<1>22. CASE WriteSome
  BY <1>r, <1>s, <1>22 DEF WriteSome, MayCall
<1>23. CASE ShutdownSend
  BY <1>r, <1>s, <1>23 DEF ShutdownSend, MayCall
<1>24. CASE ShutdownAgain
  BY <1>r, <1>s, <1>24 DEF ShutdownAgain, MayCall
<1>25. CASE Close
  BY <1>r, <1>s, <1>25 DEF Close
<1>26. CASE UNCHANGED vars
  <2>1. Here' = Here
    BY <1>26 DEF vars, Here, Offset
  <2> QED
    BY <1>0, <1>26, <2>1 DEF vars, FitsOrRefused
<1> QED
  BY <1>1, <1>2, <1>3, <1>4, <1>5, <1>6, <1>7, <1>8, <1>9, <1>10, <1>11, <1>12, <1>13,
     <1>14, <1>15, <1>16, <1>17, <1>18, <1>19, <1>20, <1>21, <1>22, <1>23, <1>24,
     <1>25, <1>26
  DEF Next, Step, Call

-----------------------------------------------------------------------------
(* The theorems.                                                           *)

\* The invariant holds at first, and every step keeps it.
LEMMA Invariant == Spec => []Inv
<1>1. Init => Inv
  <2> SUFFICES ASSUME Init PROVE Inv
    OBVIOUS
  <2>1. /\ script \in Scripts /\ Len(script) \in Nat /\ Offset[1] = 0 /\ PlainBefore[1] = 0
        /\ Offset[Len(script) + 1] \in Nat
    BY ScriptIsSeq, OffsetsProperties, PlainsProperties DEF Init, Offset, PlainBefore
  <2>2. cut \in Nat /\ cut \in 0..Offset[Len(script) + 1] /\ due = Due(script, cut)
    BY <2>1 DEF Init
  <2>3. due.length \in 0..PlainBefore[Len(script) + 1]
    BY <2>1, <2>2, DueProperties DEF PlainBefore
  <2>4. /\ fed = 0 /\ consumed = 0 /\ capacity = ReadChunk /\ need = 0
        /\ plain = [next |-> 1, end |-> 1] /\ pc = "first" /\ want = 0
        /\ back = "negotiate" /\ dst = 0 /\ got = <<>> /\ out = <<>> /\ result = "none"
        /\ ~told /\ ~innerEof /\ ~peerClosed /\ ~noNotify
        /\ {told, innerEof, peerClosed, noNotify, hasContext, shutdownSent, innerShut,
            needInput, continuing} \subseteq BOOLEAN
    BY DEF Init
  <2>u. used = 0
    BY <2>4 DEF used
  <2>5. TypeOK
    <3>1. plain \in [next : Nat \ {0}, end : Nat] /\ plain.next <= plain.end
      BY <2>4
    <3>2. capacity \in ReadChunk..MaxIncoming /\ used <= capacity
      BY <2>4, <2>u, TlsStreamAssumption
    <3>3. out \in Seq([kind : {"token", "data", "notify"}, whole : BOOLEAN])
      BY <2>4
    <3> QED
      BY <2>1, <2>2, <2>3, <2>4, <3>1, <3>2, <3>3 DEF TypeOK
  <2>6. Boundary
    <3>1. 1 \in Places /\ plain.end = PlainBefore[1] + 1 /\ Offset[1] = consumed
      BY <2>1, <2>4 DEF Places
    <3>2. NoGoodbye(1..(1 - 1))
      BY DEF NoGoodbye
    <3> QED
      BY <2>4, <3>1, <3>2 DEF Boundary
  <2>7. Received
    <3>1. got \in Seq(Nat) /\ Len(got) = 0 /\ got = [i \in 1..0 |-> i]
      BY <2>4
    <3> QED
      BY <2>4, <3>1 DEF Received
  <2>8. Asked /\ Ends /\ Failed
    BY <2>2, <2>4, <2>u DEF Asked, Ends, Failed, Errors
  <2>9. Wire /\ WireIsSound /\ FitsOrRefused
    <3>1. Len(out) = 0
      BY <2>4
    <3> QED
      BY <2>4, <3>1 DEF Wire, WireIsSound, FitsOrRefused
  <2> QED
    BY <2>5, <2>6, <2>7, <2>8, <2>9 DEF Inv
<1>2. Inv /\ [Next]_vars => Inv'
  BY TypeStep, BoundaryStep, AskedStep, EndsStep, ReceivedStep, FailedStep, WireStep,
     FitsStep
  DEF Inv
<1> QED
  BY <1>1, <1>2, PTL DEF Spec

\* Whatever the server sends and wherever it stops, every variable of the
\* stream keeps its type, and incoming_ does not outgrow kMaxIncoming.
THEOREM TypeCorrect == Spec => []TypeOK
<1>1. Inv => TypeOK
  BY DEF Inv
<1> QED
  BY <1>1, Invariant, PTL

\* fill_incoming() never goes back to the stream below while incoming_ holds a
\* whole record: no answer that the server waits for is withheld.
THEOREM NothingIsWithheld == Spec => []NothingWithheld
<1>1. Inv => NothingWithheld
  <2> SUFFICES ASSUME Inv, pc = "fill", NEW i \in Here PROVE ~Whole(i)
    BY DEF NothingWithheld
  <2>1. TypeOK /\ Boundary /\ Asked
    BY DEF Inv
  <2>2. want > 0 /\ want <= script[i].len - used
    BY <2>1 DEF Asked
  <2>3. want \in Nat /\ used \in Nat /\ script[i].len \in Nat
    BY <2>1, Numbers, ScriptIsSeq DEF Here
  <2> QED
    BY <2>2, <2>3 DEF Whole
<1> QED
  BY <1>1, Invariant, PTL

\* read() and the handshake fail with "too large" only for a record that
\* kMaxIncoming has no room for, however the bytes around it were cut.
THEOREM FitsOrIsRefused == Spec => []FitsOrRefused
<1>1. Inv => FitsOrRefused
  BY DEF Inv
<1> QED
  BY <1>1, Invariant, PTL

\* Nothing follows a record that was torn, and no data follows close_notify.
THEOREM WireStaysSound == Spec => []WireIsSound
<1>1. Inv => WireIsSound
  BY DEF Inv
<1> QED
  BY <1>1, Invariant, PTL

\* What was decrypted is due to the reader, and it is all of it when the end has
\* been seen.
LEMMA AheadProperties ==
    ASSUME Inv
    PROVE  /\ due.length \in Nat /\ due.ending \in {"goodbye", "silence", "torn"}
           /\ plain.end <= due.length + 1
           /\ peerClosed /\ ~noNotify =>
                 due.length + 1 = plain.end /\ due.ending = "goodbye"
           /\ ~peerClosed /\ consumed = cut =>
                 due.length + 1 = plain.end /\ due.ending = "silence"
<1>0. TypeOK /\ Boundary /\ due = Due(script, cut)
  BY DEF Inv, Ends
<1>1. /\ script \in Scripts /\ Len(script) \in Nat /\ cut \in Nat /\ consumed \in Nat
      /\ fed \in Nat /\ consumed <= fed /\ fed <= cut
  BY <1>0, Numbers
<1>p. PICK p \in Places :
        /\ Offset[p] = consumed
        /\ plain.end = PlainBefore[p] + 1
        /\ IF peerClosed /\ ~noNotify
             THEN p > 1 /\ script[p - 1].kind = "notify" /\ NoGoodbye(1..(p - 2))
             ELSE NoGoodbye(1..(p - 1))
  BY <1>0 DEF Boundary
<1> DEFINE length == due.length
           ending == due.ending
<1>2. /\ length \in 0..PlainBefore[Len(script) + 1]
      /\ ending \in {"goodbye", "silence", "torn"}
      /\ \A q \in Places :
           Offset[q] <= cut /\ (\A k \in 1..(q - 1) : script[k].kind # "notify") =>
             /\ PlainBefore[q] <= length
             /\ Offset[q] = cut => length = PlainBefore[q] /\ ending = "silence"
             /\ q <= Len(script) /\ script[q].kind = "notify" /\ Offset[q + 1] <= cut =>
                   length = PlainBefore[q + 1] /\ ending = "goodbye"
  BY <1>0, <1>1, DueProperties DEF Places, Offset, PlainBefore
<1> HIDE DEF length, ending
<1>3. p \in Nat /\ 1 <= p /\ p <= Len(script) + 1 /\ PlainBefore[p] \in Nat
      /\ Len(script) + 1 \in 1..(Len(script) + 1)
  BY <1>1, PlainsProperties DEF Places, PlainBefore
<1>4. length \in Nat
  <2>1. PlainBefore[Len(script) + 1] \in Nat
    BY <1>1, <1>3, PlainsProperties DEF PlainBefore
  <2> QED
    BY <1>2, <2>1
<1>5. CASE peerClosed /\ ~noNotify
  <2> DEFINE q == p - 1
  <2>1. /\ q \in Places /\ q <= Len(script) /\ q + 1 = p /\ q - 1 = p - 2 /\ q \in Nat
        /\ q \in 1..Len(script)
    BY <1>1, <1>3, <1>p, <1>5 DEF Places
  <2>2. script[q].kind = "notify" /\ \A k \in 1..(q - 1) : script[k].kind # "notify"
    BY <1>p, <1>5, <2>1 DEF NoGoodbye
  <2> HIDE DEF q
  <2>3. Offset[q] <= cut /\ Offset[q + 1] <= cut
    <3>1. /\ Offset[q] \in Nat /\ Offset[q + 1] = Offset[q] + script[q].len
          /\ script[q].len \in Nat
      BY <1>1, <2>1, OffsetsProperties, ScriptIsSeq DEF Offset, Places
    <3>2. Offset[q + 1] = consumed
      BY <1>p, <2>1
    <3> QED
      BY <1>1, <3>1, <3>2
  <2>4. length = PlainBefore[p] /\ ending = "goodbye"
    BY <1>2, <2>1, <2>2, <2>3
  <2> QED
    BY <1>2, <1>3, <1>4, <1>5, <1>p, <2>4 DEF length, ending
<1>6. CASE ~(peerClosed /\ ~noNotify)
  <2>1. Offset[p] <= cut /\ \A k \in 1..(p - 1) : script[k].kind # "notify"
    BY <1>1, <1>p, <1>6 DEF NoGoodbye
  <2>2. /\ PlainBefore[p] <= length
        /\ Offset[p] = cut => length = PlainBefore[p] /\ ending = "silence"
    BY <1>2, <2>1
  <2> QED
    BY <1>2, <1>3, <1>4, <1>6, <1>p, <2>2 DEF length, ending
<1> QED
  BY <1>5, <1>6

\* Each step is one of the ordered stream, or changes nothing of it.
LEMMA StepIsOrdered ==
    ASSUME Inv, Inv', [Next]_vars
    PROVE  [Ordered!Next]_(Ordered!vars)
<1> USE DEF peerVars, inVars, endVars, outVars, callVars, heldVars, Returns, Gone,
            CallFails, Unchanged
<1>0. TypeOK /\ Ends /\ Received /\ Failed /\ Received' /\ TypeOK'
  BY DEF Inv
<1>n. /\ plain.next \in Nat /\ plain.end \in Nat /\ plain.next <= plain.end
      /\ got \in Seq(Nat) /\ Len(got) \in Nat /\ plain.next = Len(got) + 1
      /\ due.length \in Nat /\ plain.end <= due.length + 1
      /\ used \in Nat /\ fed = consumed + used /\ consumed \in Nat
  BY <1>0, Numbers, AheadProperties DEF Received
\* The stream is not over, and nothing that its reader sees has changed, except
\* that it may be over now.
<1>u. ASSUME UNCHANGED <<due, got, told, noNotify>>,
             pc \notin {"idle", "gone"} \/ (pc = "idle" /\ result \notin Errors \cup {"closed"})
      PROVE  [Ordered!Next]_(Ordered!vars)
  <2>1. Reader_status' = Reader_status \/ Reader_status' = "over"
    BY <1>u DEF Reader_status
  <2> QED
    BY <1>u, <2>1 DEF Ordered!Next, Ordered!Over, Ordered!vars
<1>o. ASSUME UNCHANGED <<due, got>>, pc' = "idle", result' \in Errors \cup {"closed"}
      PROVE  [Ordered!Next]_(Ordered!vars)
  <2>1. Reader_status' = "over"
    BY <1>o DEF Reader_status
  <2> QED
    BY <1>o, <2>1 DEF Ordered!Next, Ordered!Over
\* A read that is not over returns plaintext, or an end, or both.
<1>r. ASSUME UNCHANGED due, Reader_status = "open", Len(got) <= Len(got'),
             got' # got \/ Reader_status' # Reader_status,
             Len(got') <= due.length,
             \/ Reader_status' = "open"
             \/ /\ Len(got') = due.length /\ due.ending # "torn"
                /\ Reader_status' = due.ending
      PROVE  [Ordered!Next]_(Ordered!vars)
  <2>1. Len(got') \in Len(got)..due.length
    <3>1. Len(got') \in Nat
      BY <1>0 DEF Received
    <3> QED
      BY <1>n, <1>r, <3>1
  <2>2. got' = [i \in 1..Len(got') |-> i]
    BY <1>0 DEF Received
  <2> QED
    BY <1>r, <2>1, <2>2 DEF Ordered!Next, Ordered!Read
<1>1. CASE ConnectFails
  BY <1>u, <1>1 DEF ConnectFails
<1>2. CASE WrapRefuses
  BY <1>u, <1>2 DEF WrapRefuses
<1>3. CASE FirstToken
  BY <1>u, <1>3 DEF FirstToken
<1>4. CASE FirstFails
  BY <1>u, <1>4 DEF FirstFails
<1>5. ASSUME NEW n \in 0..(cut - fed), NEW eof \in BOOLEAN, FillRead(n, eof)
      PROVE  [Ordered!Next]_(Ordered!vars)
  BY <1>u, <1>5 DEF FillRead
<1>6. CASE FillFails
  BY <1>u, <1>6 DEF FillFails
<1>7. CASE NegotiateReads
  BY <1>u, <1>7 DEF NegotiateReads
<1>8. CASE NegotiateIncomplete
  BY <1>u, <1>8 DEF NegotiateIncomplete, Negotiates
<1>9. CASE NegotiateMessage
  BY <1>u, <1>9 DEF NegotiateMessage, Negotiates
<1>10. CASE NegotiateFails
  BY <1>u, <1>10 DEF NegotiateFails, Negotiates
<1>11. CASE FinishHandshake
  BY <1>u, <1>11 DEF FinishHandshake, Moved
<1>12. CASE HandOver
  <2> DEFINE n == Min({dst, plain.end - plain.next})
  <2>1. /\ plain' = [plain EXCEPT !.next = @ + n] /\ told' = LastOut(n)
        /\ HasPlain /\ pc = "read" /\ pc' = "idle" /\ result' \in {"data", "data_eof"}
        /\ got' = got \o [i \in 1..n |-> plain.next + i - 1]
        /\ UNCHANGED <<due, noNotify, peerClosed>>
    BY <1>12 DEF HandOver
  <2>2. n \in Nat
    <3>1. dst \in Nat
      BY <1>0, TlsStreamAssumption DEF TypeOK
    <3>2. plain.end - plain.next \in Nat
      BY <1>n
    <3> QED
      BY <3>1, <3>2, MinOfTwo
  <2> HIDE DEF n
  <2>3. plain'.next = plain.next + n /\ plain'.end = plain.end /\ plain'.next <= plain'.end
    BY <1>0, <2>1 DEF TypeOK
  <2>4. ~told /\ ~noNotify
    BY <1>0, <2>1 DEF Ends
  <2>5. /\ Reader_status = "open"
        /\ Reader_status' = IF told' THEN "goodbye" ELSE "open"
    BY <2>1, <2>4 DEF Reader_status, Errors
  <2>6. Len(got') = Len(got) + n
    <3>1. plain'.next = Len(got') + 1 /\ Len(got') \in Nat
      BY <1>0 DEF Received
    <3>2. Len(got') + 1 = Len(got) + 1 + n
      BY <1>n, <2>3, <3>1
    <3>3. Len(got') \in Nat /\ Len(got) \in Nat
      BY <1>n, <3>1
    <3> QED
      BY <2>2, <3>2, <3>3
  <2>7. CASE n = 0
    <3>1. ~told'
      <4>1. plain.next < plain.end /\ plain.next + n = plain.next
        BY <1>n, <2>1, <2>7 DEF HasPlain
      <4>2. plain.next + n # plain.end
        BY <1>n, <4>1
      <4> QED
        BY <2>1, <4>2 DEF LastOut
    <3>2. got' = got
      BY SMTT(30), <1>0, <1>n, <2>6, <2>7 DEF Received
    <3> QED
      BY <2>1, <2>5, <3>1, <3>2 DEF Ordered!vars
  <2>8. CASE n # 0
    <3>1. got' # got /\ Len(got) <= Len(got') /\ Len(got') <= due.length
      BY <1>n, <2>2, <2>3, <2>6, <2>8
    <3>2. ASSUME told'
          PROVE  Len(got') = due.length /\ due.ending = "goodbye"
      <4>1. peerClosed /\ plain.next + n = plain.end
        BY <2>1, <3>2 DEF LastOut
      <4>2. due.length + 1 = plain.end /\ due.ending = "goodbye"
        BY <2>4, <4>1, AheadProperties
      <4> QED
        BY <1>n, <2>2, <2>6, <4>1, <4>2
    <3> QED
      BY <1>r, <2>1, <2>5, <3>1, <3>2
  <2> QED
    BY <2>7, <2>8
<1>13. CASE ReadClosed
  <2>1. /\ ~HasPlain /\ peerClosed /\ told' /\ pc = "read" /\ pc' = "idle" /\ result' = "eof"
        /\ UNCHANGED <<due, got, noNotify>>
    BY <1>13 DEF ReadClosed
  <2>2. CASE told
    BY <1>u, <2>1, <2>2, <1>0 DEF TypeOK
  <2>3. CASE ~told
    <3>1. ~noNotify
      BY <1>0, <2>3 DEF Ends
    <3>2. Reader_status = "open" /\ Reader_status' = "goodbye"
      BY <2>1, <2>3, <3>1 DEF Reader_status, Errors
    <3>3. due.length + 1 = plain.end /\ due.ending = "goodbye"
      BY <2>1, <3>1, AheadProperties
    <3>4. Len(got) = due.length
      BY <1>n, <2>1, <3>3 DEF HasPlain
    <3> QED
      BY <1>n, <1>r, <2>1, <3>2, <3>3, <3>4
  <2> QED
    BY <2>2, <2>3
<1>14. CASE DecryptIncomplete
  BY <1>u, <1>14 DEF DecryptIncomplete, Decrypting, Reading
<1>15. CASE DecryptRecord
  BY <1>u, <1>15 DEF DecryptRecord, Decrypting, Reading
<1>16. CASE DecryptNoMemory
  BY <1>u, <1>16 DEF DecryptNoMemory, Decrypting, Reading
<1>17. CASE DecryptRenegotiate
  BY <1>u, <1>17 DEF DecryptRenegotiate, Decrypting, Reading
<1>18. CASE DecryptFails
  BY <1>u, <1>18 DEF DecryptFails, Decrypting, Reading
<1>19. CASE ReadStarves
  <2>1. /\ ~HasPlain /\ ~peerClosed /\ innerEof /\ pc = "read" /\ pc' = "idle"
        /\ UNCHANGED <<due, got>>
    BY <1>19 DEF ReadStarves, Reading
  <2>2. CASE used = 0
    <3>1. result' = "eof" /\ told' /\ noNotify'
      BY <1>19, <2>2 DEF ReadStarves
    <3>2. ~told /\ ~noNotify /\ fed = cut
      BY <1>0, <2>1 DEF Ends
    <3>3. Reader_status = "open" /\ Reader_status' = "silence"
      BY <2>1, <3>1, <3>2 DEF Reader_status, Errors
    <3>4. consumed = cut
      BY <1>n, <2>2, <3>2
    <3>5. due.length + 1 = plain.end /\ due.ending = "silence"
      BY <2>1, <3>4, AheadProperties
    <3>6. Len(got) = due.length
      BY <1>n, <2>1, <3>5 DEF HasPlain
    <3> QED
      BY <1>n, <1>r, <2>1, <3>3, <3>5, <3>6
  <2>3. CASE used # 0
    BY <1>o, <1>19, <2>1, <2>3 DEF ReadStarves, Errors
  <2> QED
    BY <2>2, <2>3
<1>20. CASE ReadMore
  BY <1>u, <1>20 DEF ReadMore, Reading
<1>21. ASSUME NEW n \in Buffers, CallRead(n)
      PROVE  [Ordered!Next]_(Ordered!vars)
  <2>1. pc = "idle" /\ result \notin Errors /\ UNCHANGED <<due, got, told, noNotify>>
    BY <1>21 DEF CallRead, MayCall
  <2>2. CASE hasContext
    BY <1>0, <1>u, <2>1, <2>2 DEF Failed
  <2>3. CASE ~hasContext
    BY <1>o, <1>21, <2>1, <2>3 DEF CallRead, Errors
  <2> QED
    BY <2>2, <2>3
<1>22. CASE WriteSome
  <2>1. pc = "idle" /\ result \notin Errors /\ UNCHANGED <<due, got, told, noNotify>>
    BY <1>22 DEF WriteSome, MayCall
  <2>2. CASE hasContext
    BY <1>0, <1>u, <2>1, <2>2 DEF Failed
  <2>3. CASE ~hasContext
    BY <1>o, <1>22, <2>1, <2>3 DEF WriteSome, MayWrite, Errors
  <2> QED
    BY <2>2, <2>3
<1>23. CASE ShutdownSend
  <2>1. /\ pc = "idle" /\ result \notin Errors /\ UNCHANGED <<due, got, told, noNotify>>
        /\ hasContext
    BY <1>23 DEF ShutdownSend, MayCall
  <2> QED
    BY <1>0, <1>u, <2>1 DEF Failed
<1>24. CASE ShutdownAgain
  <2>1. pc = "idle" /\ result \notin Errors /\ UNCHANGED <<due, got, told, noNotify>>
    BY <1>24 DEF ShutdownAgain, MayCall
  <2>2. CASE hasContext
    BY <1>0, <1>u, <2>1, <2>2 DEF Failed
  <2>3. CASE ~hasContext
    BY <1>o, <1>24, <2>1, <2>3 DEF ShutdownAgain, Errors
  <2> QED
    BY <2>2, <2>3
<1>25. CASE Close
  BY <1>o, <1>25 DEF Close
<1>26. CASE UNCHANGED vars
  BY <1>26 DEF vars, Ordered!vars, Reader_status
<1> QED
  BY <1>1, <1>2, <1>3, <1>4, <1>5, <1>6, <1>7, <1>8, <1>9, <1>10, <1>11, <1>12, <1>13,
     <1>14, <1>15, <1>16, <1>17, <1>18, <1>19, <1>20, <1>21, <1>22, <1>23, <1>24,
     <1>25, <1>26
  DEF Next, Step, Call

\* TlsStream implements the ordered stream that StreamHelpers and ResponseReader
\* rely on: the plaintext that read() returns is what the server sent, each byte
\* once and in order, and an end that it reports is one.
THEOREM StreamIsOrdered == Spec => ReadsInOrder
<1>1. Init => Ordered!Init
  <2> SUFFICES ASSUME Init PROVE Ordered!Init
    OBVIOUS
  <2>1. script \in Scripts /\ cut \in 0..Offset[Len(script) + 1] /\ due = Due(script, cut)
    BY DEF Init
  <2>2. /\ Len(script) \in Nat /\ Offset[Len(script) + 1] \in Nat
        /\ PlainBefore[Len(script) + 1] \in Nat
    BY <2>1, ScriptIsSeq, OffsetsProperties, PlainsProperties DEF Offset, PlainBefore
  <2>3. due.length \in Nat /\ due.ending \in {"goodbye", "silence", "torn"}
    <3>1. cut \in Nat
      BY <2>1, <2>2
    <3>2. /\ due.length \in 0..PlainBefore[Len(script) + 1]
          /\ due.ending \in {"goodbye", "silence", "torn"}
      BY <2>1, <3>1, DueProperties DEF PlainBefore
    <3> QED
      BY <2>2, <3>2
  <2>4. Reader_status = "open" /\ got = <<>>
    <3>1. pc = "first" /\ told = FALSE /\ got = <<>>
      BY DEF Init
    <3> QED
      BY <3>1 DEF Reader_status
  <2> QED
    BY <2>3, <2>4 DEF Ordered!Init, Ordered!Endings
<1>2. Inv /\ Inv' /\ [Next]_vars => [Ordered!Next]_(Ordered!vars)
  BY StepIsOrdered
<1> QED
  BY <1>1, <1>2, Invariant, PTL DEF Spec, ReadsInOrder, Ordered!Spec
=============================================================================
