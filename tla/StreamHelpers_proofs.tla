------------------------- MODULE StreamHelpers_proofs -------------------------
(***************************************************************************)
(* Theorems about StreamHelpers, for streams of every length, buffers and  *)
(* chunks of every size, and streams that keep their contract or not.      *)
(***************************************************************************)
EXTENDS StreamHelpers, CommonLemmas, SequenceTheorems, TLAPS

\* resize keeps what fits and adds zeros.
LEMMA ResizeProperties ==
    ASSUME NEW s \in Seq(Nat), NEW n \in Nat
    PROVE  /\ Resize(s, n) \in Seq(Nat)
           /\ Len(Resize(s, n)) = n
           /\ \A i \in 1..n : Resize(s, n)[i] = IF i <= Len(s) THEN s[i] ELSE Zero
<1> DEFINE m == Min({n, Len(s)})
           a == SubSeq(s, 1, m)
           z == Zeros(n - m)
<1>1. Len(s) \in Nat
  OBVIOUS
<1>2. m = IF n <= Len(s) THEN n ELSE Len(s)
  BY <1>1, MinOfTwo
<1>3. m \in Nat /\ m <= n /\ m <= Len(s) /\ n - m \in Nat
  BY <1>1, <1>2
<1> HIDE DEF m
<1>4. /\ a \in Seq(Nat) /\ Len(a) = m
      /\ \A i \in 1..m : a[i] = s[i]
  <2>1. \A i \in 1..m : s[i] \in Nat
    BY <1>3
  <2> QED
    BY <1>3, <2>1, SubSeqProperties
<1>5. z \in Seq(Nat) /\ Len(z) = n - m /\ \A i \in 1..(n - m) : z[i] = Zero
  <2>1. z \in [1..(n - m) -> Nat]
    BY DEF Zeros, Zero
  <2>2. z \in Seq(Nat) /\ Len(z) = n - m
    BY <1>3, <2>1, FunctionIsSeq
  <2> QED
    BY <2>2 DEF Zeros
<1> HIDE DEF a, z
<1>6. Resize(s, n) = a \o z
  BY DEF Resize, m, a, z
<1>7. /\ a \o z \in Seq(Nat) /\ Len(a \o z) = m + (n - m)
      /\ \A i \in 1..n : (a \o z)[i] = IF i <= m THEN a[i] ELSE z[i - m]
  BY <1>3, <1>4, <1>5, ConcatProperties
<1>8. ASSUME NEW i \in 1..n
      PROVE  (a \o z)[i] = IF i <= Len(s) THEN s[i] ELSE Zero
  <2>1. CASE i <= m
    BY <1>1, <1>3, <1>4, <1>7, <2>1
  <2>2. CASE m < i
    <3>1. i - m \in 1..(n - m) /\ ~(i <= Len(s))
      BY <1>1, <1>2, <1>3, <2>2
    <3>2. z[i - m] = Zero
      BY <1>5, <3>1
    <3>3. i \in 1..n /\ ~(i <= m)
      BY <1>3, <2>2
    <3>4. (a \o z)[i] = z[i - m]
      BY <1>7, <3>3
    <3> QED
      BY <3>1, <3>2, <3>4
  <2>3. i <= m \/ m < i
    BY <1>3
  <2> QED
    BY Zenon, <2>1, <2>2, <2>3
<1>9. Len(a \o z) = n
  BY <1>3, <1>7
<1> QED
  BY <1>6, <1>7, <1>8, <1>9

\* The bytes from a to b.
LEMMA BytesProperties ==
    ASSUME NEW a \in Nat, NEW b \in Nat, a <= b + 1
    PROVE  /\ Bytes(a, b) \in Seq(Int)
           /\ Len(Bytes(a, b)) = b - a + 1
           /\ \A i \in 1..(b - a + 1) : Bytes(a, b)[i] = a + i - 1
<1>1. Bytes(a, b) \in [1..(b - a + 1) -> Int] /\ b - a + 1 \in Nat
  BY DEF Bytes
<1>2. Bytes(a, b) \in Seq(Int) /\ Len(Bytes(a, b)) = b - a + 1
  BY <1>1, FunctionIsSeq
<1> QED
  BY <1>2 DEF Bytes

\* A buffer that holds n bytes of the stream, in their places.
LEMMA BufferIsBytes ==
    ASSUME NEW s \in Seq(Nat), NEW a \in Nat, NEW n \in Nat, Len(s) = n,
           \A i \in 1..n : s[i] = a + i
    PROVE  s = Bytes(a + 1, a + n)
<1> DEFINE b == Bytes(a + 1, a + n)
<1>1. a + 1 \in Nat /\ a + n \in Nat /\ a + 1 <= a + n + 1
  OBVIOUS
<1>2. (a + n) - (a + 1) + 1 = n
  OBVIOUS
<1>3. /\ b \in Seq(Int) /\ Len(b) = n
      /\ \A i \in 1..n : b[i] = a + 1 + i - 1
  BY ZenonT(60), <1>1, <1>2, BytesProperties
<1> HIDE DEF b
<1>4. \A i \in 1..n : s[i] = b[i]
  <2>1. \A i \in 1..n : a + 1 + i - 1 = a + i
    OBVIOUS
  <2> QED
    BY <1>3, <2>1
<1>5. s = b
  BY <1>3, <1>4, SeqEqual, SeqMonotonic
<1> QED
  BY <1>5 DEF b

-----------------------------------------------------------------------------
(* The invariant of the loops: what is transferred is the beginning of what *)
(* was asked for, in its place.                                             *)

Readers == {"read_exactly", "read_to_eof"}

\* The stream is only asked while something is left.
AskInv == asked => op # "none" /\ done < size

\* What the wire has got since write_all was called are the first bytes of its
\* buffer, whose bytes follow those of earlier calls.
WriteInv ==
    op = "write_all" =>
        /\ size <= offered
        /\ Len(buffer) = size
        /\ \A i \in 1..size : buffer[i] = offered - size + i
        /\ Len(wire) = start + done
        /\ \A i \in 1..done : wire[start + i] = offered - size + i

\* What has arrived is at the front of the buffer, whose length is that of the
\* caller's or, in read_to_eof, that of what has arrived.
ReadInv ==
    op \in Readers =>
        /\ at = start + done
        /\ done <= Len(buffer)
        /\ op = "read_exactly" => Len(buffer) = size
        /\ op = "read_to_eof" /\ done > 0 => Len(buffer) = done
        /\ \A i \in 1..done : buffer[i] = start + i

Inv == TypeOK /\ AskInv /\ WriteInv /\ ReadInv

\* The sizes are numbers.
LEMMA SizesAreNat ==
    ASSUME TypeOK
    PROVE  size \in Nat /\ done \in Nat /\ done <= size /\ size - done \in Nat
BY StreamHelpersAssumption DEF TypeOK

\* What a read asks for.
LEMMA WantProperties ==
    ASSUME TypeOK, op \in Readers
    PROVE  Want \in Nat /\ Want <= size - done
<1>1. size \in Nat /\ done \in Nat /\ done <= size /\ size - done \in Nat
  BY SizesAreNat
<1>2. ChunkBytes \in Nat
  BY StreamHelpersAssumption
<1>3. Min({ChunkBytes, size - done}) =
         IF ChunkBytes <= size - done THEN ChunkBytes ELSE size - done
  BY <1>1, <1>2, MinOfTwo
<1> QED
  BY <1>1, <1>2, <1>3 DEF Want

\* Where a read puts its bytes, whether it delivers few or many.
LEMMA FilledProperties ==
    ASSUME Inv, op \in Readers, NEW k \in 0..Want
    PROVE  /\ Want <= size - done
           /\ Filled(k) \in Seq(Nat)
           /\ done + k <= Len(Filled(k))
           /\ op = "read_exactly" => Len(Filled(k)) = size
           /\ \A i \in 1..(done + k) : Filled(k)[i] = start + i
<1> USE StreamHelpersAssumption DEF Inv, TypeOK, Readers
<1>1. size - done \in Nat /\ Want \in Nat /\ Want <= size - done
  BY SizesAreNat, WantProperties
<1>2. /\ Destination \in Seq(Nat)
      /\ done + Want <= Len(Destination)
      /\ op = "read_exactly" => Len(Destination) = size
      /\ \A i \in 1..done : Destination[i] = start + i
  <2>1. CASE op = "read_exactly"
    BY <1>1, <2>1 DEF Destination, ReadInv
  <2>2. CASE op = "read_to_eof"
    <3>1. done + Want \in Nat
      BY <1>1
    <3>2. /\ Resize(buffer, done + Want) \in Seq(Nat)
          /\ Len(Resize(buffer, done + Want)) = done + Want
          /\ \A i \in 1..(done + Want) : Resize(buffer, done + Want)[i] =
                 IF i <= Len(buffer) THEN buffer[i] ELSE Zero
      BY <3>1, ResizeProperties
    <3>3. Destination = Resize(buffer, done + Want)
      BY <2>2 DEF Destination
    <3>4. /\ done <= Len(buffer)
          /\ \A i \in 1..done : buffer[i] = start + i
      BY <2>2 DEF ReadInv
    <3> QED
      BY <1>1, <2>2, <3>2, <3>3, <3>4
  <2> QED
    BY <2>1, <2>2
<1> DEFINE D == Destination
<1>3. Len(D) \in Nat /\ DOMAIN D = 1..Len(D)
  BY <1>2, LenProperties
<1>4. Filled(k) \in [1..Len(D) -> Nat]
  <2>1. \A i \in 1..Len(D) : D[i] \in Nat
    BY <1>2, ElementOfSeq
  <2>2. \A i \in (done + 1)..(done + k) : at + i - done \in Nat
    BY <1>1
  <2> HIDE DEF D
  <2>3. Filled(k) = [i \in 1..Len(D) |->
          IF i \in (done + 1)..(done + k) THEN at + i - done ELSE D[i]]
    BY <1>3 DEF Filled, D
  <2> QED
    BY <2>1, <2>2, <2>3
<1>5. Filled(k) \in Seq(Nat) /\ Len(Filled(k)) = Len(D)
  BY <1>3, <1>4, FunctionIsSeq
<1>6. \A i \in 1..(done + k) : Filled(k)[i] = start + i
  <2> TAKE i \in 1..(done + k)
  <2>1. i \in 1..Len(D)
    <3>1. done \in Nat /\ Want \in Nat /\ k \in 0..Want
      BY <1>1
    <3>2. done + Want <= Len(D) /\ Len(D) \in Nat
      BY <1>2, <1>3
    <3> HIDE DEF D, Inv
    <3> QED
      BY <3>1, <3>2
  <2>2. Filled(k)[i] = IF i \in (done + 1)..(done + k) THEN at + i - done ELSE D[i]
    BY <1>3, <2>1 DEF Filled
  <2>3. at = start + done
    BY DEF ReadInv
  <2> QED
    BY <1>1, <1>2, <2>2, <2>3
<1> QED
  BY <1>1, <1>2, <1>5, <1>6

\* The vector of read_to_eof, cut to what has arrived.
LEMMA CutProperties ==
    ASSUME Inv, op \in Readers, NEW k \in 0..Want
    PROVE  /\ Cut(Filled(k), done + k) \in Seq(Nat)
           /\ Len(Cut(Filled(k), done + k)) = done + k
           /\ \A i \in 1..(done + k) : Cut(Filled(k), done + k)[i] = start + i
<1>1. done + k \in Nat
  BY StreamHelpersAssumption, FilledProperties DEF Inv, TypeOK
<1>2. /\ Filled(k) \in Seq(Nat)
      /\ done + k <= Len(Filled(k))
      /\ \A i \in 1..(done + k) : Filled(k)[i] = start + i
  BY FilledProperties
<1>3. /\ Cut(Filled(k), done + k) \in Seq(Nat)
      /\ Len(Cut(Filled(k), done + k)) = done + k
      /\ \A i \in 1..(done + k) : Cut(Filled(k), done + k)[i] =
             IF i <= Len(Filled(k)) THEN Filled(k)[i] ELSE Zero
  BY <1>1, <1>2, ResizeProperties DEF Cut
<1> HIDE DEF Cut
<1> QED
  BY <1>1, <1>2, <1>3

-----------------------------------------------------------------------------

\* k bytes of t, from place d + 1 on, are put after s.
LEMMA AppendPart ==
    ASSUME NEW s \in Seq(Nat), NEW t \in Seq(Nat), NEW d \in Nat, NEW k \in Nat,
           1 <= k, d + k <= Len(t)
    PROVE  LET e == s \o SubSeq(SubSeq(t, d + 1, Len(t)), 1, k)
           IN  /\ e \in Seq(Nat)
               /\ Len(e) = Len(s) + k
               /\ \A i \in 1..Len(s) : e[i] = s[i]
               /\ \A i \in 1..k : e[Len(s) + i] = t[d + i]
<1> DEFINE rest == SubSeq(t, d + 1, Len(t))
           part == SubSeq(rest, 1, k)
<1>1. Len(s) \in Nat /\ Len(t) \in Nat
  OBVIOUS
<1>2. /\ rest \in Seq(Nat)
      /\ Len(rest) = Len(t) - d
      /\ \A i \in 1..(Len(t) - d) : rest[i] = t[d + i]
  <2>1. d <= Len(t) /\ Len(t) <= Len(t)
    BY <1>1
  <2> QED
    BY ONLY ZenonT(30), <1>1, <2>1, PartProperties, t \in Seq(Nat), d \in Nat DEF rest
<1> HIDE DEF rest
<1>3. /\ part \in Seq(Nat)
      /\ Len(part) = k
      /\ \A i \in 1..k : part[i] = t[d + i]
  <2>1. /\ part \in Seq(Nat)
        /\ Len(part) = k
        /\ \A i \in 1..k : part[i] = rest[i]
    BY <1>1, <1>2, PrefixProperties
  <2> HIDE DEF part
  <2>2. \A i \in 1..k : i \in 1..(Len(t) - d)
    BY <1>1
  <2> QED
    BY <1>2, <2>1, <2>2
<1> HIDE DEF part
<1>4. /\ s \o part \in Seq(Nat)
      /\ Len(s \o part) = Len(s) + k
      /\ \A i \in 1..(Len(s) + k) :
            (s \o part)[i] = IF i <= Len(s) THEN s[i] ELSE part[i - Len(s)]
  BY <1>3, ConcatProperties
<1>5. \A i \in 1..k : (s \o part)[Len(s) + i] = t[d + i]
  BY SMTT(30), <1>1, <1>3, <1>4
<1> QED
  BY SMTT(30), <1>1, <1>4, <1>5 DEF part, rest

\* The stream accepts the next k bytes of the buffer.
LEMMA WriteSomeKeeps ==
    ASSUME Inv, NEW k \in 1..(size - done), WriteSome(k)
    PROVE  /\ wire' \in Seq(Nat)
           /\ Len(wire') = start + done'
           /\ \A i \in 1..done' : wire'[start + i] = offered - size + i
           /\ done' \in 0..size
<1>1. /\ op = "write_all" /\ done' = done + k
      /\ wire' = wire \o SubSeq(SubSeq(buffer, done + 1, size), 1, k)
  BY DEF WriteSome, Answers, Unsent
<1>2. /\ size \in Nat /\ done \in Nat /\ k \in Nat /\ 1 <= k /\ done + k <= size
      /\ start \in Nat /\ offered \in Nat
  BY StreamHelpersAssumption, SizesAreNat DEF Inv, TypeOK
<1>3. wire \in Seq(Nat) /\ buffer \in Seq(Nat)
  BY DEF Inv, TypeOK
<1>4. /\ Len(buffer) = size
      /\ \A i \in 1..size : buffer[i] = offered - size + i
      /\ Len(wire) = start + done
      /\ \A i \in 1..done : wire[start + i] = offered - size + i
  BY <1>1 DEF Inv, WriteInv
<1>5. /\ wire' \in Seq(Nat)
      /\ Len(wire') = start + done + k
      /\ \A i \in 1..(start + done) : wire'[i] = wire[i]
      /\ \A i \in 1..k : wire'[start + done + i] = buffer[done + i]
  <2> DEFINE e == wire \o SubSeq(SubSeq(buffer, done + 1, Len(buffer)), 1, k)
  <2>1. done + k <= Len(buffer)
    BY <1>2, <1>4
  <2>2. /\ e \in Seq(Nat)
        /\ Len(e) = Len(wire) + k
        /\ \A i \in 1..Len(wire) : e[i] = wire[i]
        /\ \A i \in 1..k : e[Len(wire) + i] = buffer[done + i]
    BY <1>2, <1>3, <2>1, AppendPart
  <2>3. wire' = e
    BY <1>1, <1>4
  <2> HIDE DEF e
  <2> QED
    BY <1>4, <2>2, <2>3
<1>6. ASSUME NEW i \in 1..(done + k)
      PROVE  wire'[start + i] = offered - size + i
  <2>1. CASE i <= done
    <3>1. i \in 1..done /\ start + i \in 1..(start + done)
      BY <1>2, <2>1
    <3> QED
      BY <1>4, <1>5, <3>1
  <2>2. CASE i > done
    <3>1. i - done \in 1..k /\ start + done + (i - done) = start + i
      BY <1>2, <2>2
    <3>2. wire'[start + done + (i - done)] = buffer[done + (i - done)]
      BY <1>5, <3>1
    <3>3. done + (i - done) = i /\ i \in 1..size
      BY <1>2, <2>2
    <3> QED
      BY <1>4, <3>1, <3>2, <3>3
  <2> QED
    BY <1>2, <2>1, <2>2
<1> QED
  <2>1. start + done + k = start + done' /\ done' \in 0..size
    BY <1>1, <1>2
  <2> QED
    BY <1>1, <1>5, <1>6, <2>1

\* The invariant holds in every state.
LEMMA Invariant == Spec => []Inv
<1> USE StreamHelpersAssumption
<1>1. Init => Inv
  <2> SUFFICES ASSUME Init PROVE Inv
    OBVIOUS
  <2>1. TypeOK
    <3>1. buffer \in Seq(Nat) /\ wire \in Seq(Nat)
      BY DEF Init
    <3>2. /\ size \in Sizes \cup {0} /\ done \in 0..size /\ start \in Nat
          /\ at \in 0..Length /\ offered \in 0..MaxWire
      BY DEF Init
    <3> QED
      BY <3>1, <3>2 DEF Init, TypeOK, Results
  <2> QED
    BY <2>1 DEF Init, Inv, AskInv, WriteInv, ReadInv, Readers
<1>2. Inv /\ [Next]_vars => Inv'
  <2> SUFFICES ASSUME Inv, [Next]_vars
               PROVE  Inv'
    OBVIOUS
  <2>1. /\ TypeOK /\ AskInv /\ WriteInv /\ ReadInv
        /\ size \in Nat /\ done \in Nat /\ done <= size /\ size - done \in Nat
    BY SizesAreNat DEF Inv
  <2>2. ASSUME NEW n \in Sizes, CallWriteAll(n)
        PROVE  Inv'
    <3>1. /\ op' = "write_all" /\ size' = n /\ done' = 0 /\ start' = Len(wire)
          /\ offered' = offered + n /\ ~asked' /\ UNCHANGED <<at, wire, asked>>
          /\ result' = "none" /\ offered + n <= MaxWire /\ n \in Nat
          /\ buffer' = [i \in 1..n |-> offered + i]
      BY <2>1, <2>2 DEF CallWriteAll, Begin, AskInv
    <3>2. offered \in Nat /\ Len(wire) \in Nat
      BY <2>1 DEF TypeOK
    <3>3. /\ buffer' \in Seq(Nat) /\ Len(buffer') = n
          /\ \A i \in 1..n : buffer'[i] = offered + i
      <4>1. buffer' \in [1..n -> Nat]
        BY <3>1, <3>2
      <4> QED
        BY <3>1, <4>1, FunctionIsSeq
    <3>4. TypeOK'
      BY <2>1, <3>1, <3>2, <3>3 DEF TypeOK, Helpers, Results
    <3>5. WriteInv'
      <4>1. size' <= offered' /\ Len(wire') = start' + done'
        BY <3>1, <3>2
      <4>2. \A i \in 1..done' : FALSE
        BY <3>1
      <4>3. offered' - size' = offered
        BY <3>1, <3>2
      <4>4. Len(buffer') = size' /\ \A i \in 1..size' : buffer'[i] = offered' - size' + i
        BY <3>1, <3>3, <4>3
      <4> QED
        BY <4>1, <4>2, <4>4 DEF WriteInv
    <3> QED
      BY <3>1, <3>4, <3>5 DEF Inv, AskInv, ReadInv, Readers
  <2>3. ASSUME NEW n \in Sizes, NEW held \in Nat,
               CallReadExactly(n) \/ CallReadToEof(n, held)
        PROVE  Inv'
    <3>1. PICK m \in Nat : /\ buffer' = Zeros(m)
                           /\ op' \in Readers /\ (op' = "read_exactly" => m = n)
      BY <2>3 DEF CallReadExactly, CallReadToEof, Begin, Readers
    <3>2. /\ size' = n /\ n \in Nat /\ done' = 0 /\ start' = at /\ ~asked'
          /\ result' = "none" /\ UNCHANGED <<at, wire, offered, asked>>
      BY <2>1, <2>3 DEF CallReadExactly, CallReadToEof, Begin, AskInv
    <3>3. buffer' \in Seq(Nat) /\ Len(buffer') = m
      <4>1. Zeros(m) \in [1..m -> Nat]
        BY DEF Zeros, Zero
      <4> QED
        BY <3>1, <4>1, FunctionIsSeq
    <3>4. TypeOK'
      BY <2>1, <3>1, <3>2, <3>3 DEF TypeOK, Helpers, Readers, Results
    <3>5. ReadInv'
      <4>1. at \in Nat /\ at + 0 = at
        BY <2>1 DEF TypeOK
      <4> QED
        BY <3>1, <3>2, <3>3, <4>1 DEF ReadInv
    <3> QED
      BY <3>1, <3>2, <3>4, <3>5 DEF Inv, AskInv, WriteInv, Readers
  <2>4. CASE Ask
    BY <2>1, <2>4 DEF Ask, Inv, TypeOK, AskInv, WriteInv, ReadInv
  <2>5. ASSUME NEW k \in 1..(size - done), WriteSome(k)
        PROVE  Inv'
    <3>1. /\ op = "write_all" /\ op' = op /\ ~asked' /\ asked' \in BOOLEAN
          /\ UNCHANGED <<size, start, offered, buffer, at, result>>
      BY <2>5 DEF WriteSome, Answers
    <3>2. /\ wire' \in Seq(Nat)
          /\ Len(wire') = start + done'
          /\ \A i \in 1..done' : wire'[start + i] = offered - size + i
          /\ done' \in 0..size
      BY <2>5, WriteSomeKeeps
    <3>3. TypeOK'
      BY <2>1, <3>1, <3>2 DEF TypeOK
    <3>4. WriteInv'
      BY <2>1, <3>1, <3>2 DEF WriteInv
    <3> QED
      BY <3>1, <3>3, <3>4 DEF Inv, AskInv, ReadInv, Readers
  <2>6. CASE WriteFails \/ WriteIsBroken
    <3>1. /\ op' = "none" /\ ~asked' /\ asked' \in BOOLEAN /\ result' \in Results
          /\ UNCHANGED <<size, done, buffer, start, at, wire, offered>>
      BY <2>6 DEF WriteFails, WriteIsBroken, Answers, Returns, Results
    <3>2. TypeOK'
      BY <2>1, <3>1 DEF TypeOK
    <3> QED
      BY <3>1, <3>2 DEF Inv, AskInv, WriteInv, ReadInv, Readers
  <2>7. CASE WriteAllDone \/ ReadExactlyDone \/ ReadToEofCapped \/ ReadToEofThrows
    <3>1. /\ op' = "none" /\ ~asked /\ result' \in Results
          /\ UNCHANGED <<size, done, buffer, start, at, wire, offered, asked>>
      BY <2>7 DEF WriteAllDone, ReadExactlyDone, ReadToEofCapped, ReadToEofThrows,
                  Ends, Returns, Results
    <3>2. TypeOK'
      BY <2>1, <3>1 DEF TypeOK
    <3> QED
      BY <3>1, <3>2 DEF Inv, AskInv, WriteInv, ReadInv, Readers
  <2>8. ASSUME NEW k \in 0..Want, NEW eof \in BOOLEAN,
               ReadExactlyReads(k, eof) \/ ReadToEofReads(k, eof)
        PROVE  Inv'
    <3>1. /\ op \in Readers /\ ~asked' /\ asked' \in BOOLEAN
          /\ at' = at + k /\ at + k <= Length
          /\ done' = done + k /\ UNCHANGED <<size, start, offered, wire>>
      BY <2>8 DEF ReadExactlyReads, ReadToEofReads, Answers, Delivers, Readers
    <3>2. op' \in {op, "none"} /\ result' \in Results
      BY <2>1, <2>8 DEF ReadExactlyReads, ReadToEofReads, Returns, Results, TypeOK
    <3>3. k \in Nat /\ done + k \in 0..size
      <4>1. Want \in Nat /\ Want <= size - done
        BY <2>1, <3>1, WantProperties
      <4> QED
        BY <2>1, <4>1
    <3>4. /\ buffer' \in Seq(Nat)
          /\ done + k <= Len(buffer')
          /\ op = "read_exactly" => Len(buffer') = size
          /\ op = "read_to_eof" => Len(buffer') = done + k
          /\ \A i \in 1..(done + k) : buffer'[i] = start + i
      <4>1. CASE ReadExactlyReads(k, eof)
        <5>1. buffer' = Filled(k) /\ op = "read_exactly"
          BY <4>1 DEF ReadExactlyReads, Answers
        <5> QED
          BY <3>1, <5>1, FilledProperties
      <4>2. CASE ReadToEofReads(k, eof)
        <5>1. buffer' = Cut(Filled(k), done + k) /\ op = "read_to_eof"
          BY <4>2 DEF ReadToEofReads, Answers, Delivers
        <5> QED
          BY <3>1, <3>3, <5>1, CutProperties
      <4> QED
        BY <2>8, <4>1, <4>2
    <3>5. TypeOK'
      <4>1. at' \in 0..Length
        BY <2>1, <3>1, <3>3 DEF TypeOK
      <4> QED
        BY <2>1, <3>1, <3>2, <3>3, <3>4, <4>1 DEF TypeOK, Readers
    <3>6. ReadInv'
      <4>1. at' = start + done'
        <5>1. at = start + done /\ at \in Nat /\ start \in Nat
          BY <2>1, <3>1 DEF ReadInv, TypeOK
        <5> QED
          BY <2>1, <3>1, <3>3, <5>1
      <4> QED
        BY <3>1, <3>2, <3>4, <4>1 DEF ReadInv, Readers
    <3> QED
      BY <3>1, <3>2, <3>5, <3>6 DEF Inv, AskInv, WriteInv, Readers
  <2>9. CASE ReadFails \/ ReadIsBroken
    <3>1. /\ op' = "none" /\ ~asked' /\ asked' \in BOOLEAN /\ result' \in Results
          /\ buffer' = Left
          /\ UNCHANGED <<size, done, start, at, wire, offered>>
      BY <2>9 DEF ReadFails, ReadIsBroken, Answers, Refuses, Returns, Results
    <3>2. Left \in Seq(Nat)
      <4>1. buffer \in Seq(Nat)
        BY <2>1 DEF TypeOK
      <4>2. Cut(buffer, done) \in Seq(Nat)
        BY <2>1, <4>1, ResizeProperties DEF Cut
      <4> QED
        BY <4>1, <4>2 DEF Left
    <3>3. TypeOK'
      BY <2>1, <3>1, <3>2 DEF TypeOK
    <3> QED
      BY <3>1, <3>3 DEF Inv, AskInv, WriteInv, ReadInv, Readers
  <2>10. CASE UNCHANGED vars
    BY <2>1, <2>10 DEF vars, Inv, TypeOK, AskInv, WriteInv, ReadInv
  <2>11. CASE Call
    BY <2>2, <2>3, <2>11 DEF Call
  <2>12. CASE Step
    BY <2>4, <2>5, <2>6, <2>7, <2>8, <2>9, <2>12 DEF Step
  <2> QED
    BY <2>10, <2>11, <2>12 DEF Next
<1>3. QED
  BY <1>1, <1>2, PTL DEF Spec

\* Every variable keeps its type.
THEOREM TypeCorrect == Spec => []TypeOK
BY Invariant, PTL DEF Inv

\* write_all, however the stream cuts what it accepts: what is on the wire of
\* a call is a prefix of its buffer, each byte once and in order, and all of
\* it when the call reports success.
THEOREM WriteAllIsWhole == Spec => WritesAreWhole
<1> DEFINE sent == SubSeq(wire', start + 1, Len(wire'))
           all  == Bytes(offered - size + 1, offered)
<1>1. Inv /\ [Next]_vars =>
        [op = "write_all" =>
            /\ sent = SubSeq(all, 1, done')
            /\ op' = "none" /\ result' = "ok" => sent = all]_vars
  <2> SUFFICES ASSUME Inv, Next, op = "write_all"
               PROVE  /\ sent = SubSeq(all, 1, done')
                      /\ op' = "none" /\ result' = "ok" => sent = all
    OBVIOUS
  <2>1. /\ TypeOK /\ WriteInv
        /\ size \in Nat /\ done \in Nat /\ done <= size /\ size - done \in Nat
        /\ start \in Nat /\ offered \in Nat /\ size <= offered
    BY SizesAreNat DEF Inv, TypeOK, WriteInv
  <2>2. /\ wire' \in Seq(Nat)
        /\ Len(wire') = start + done'
        /\ \A i \in 1..done' : wire'[start + i] = offered - size + i
        /\ done' \in 0..size
    <3>1. CASE \E k \in 1..(size - done) : WriteSome(k)
      BY <3>1, WriteSomeKeeps
    <3>2. CASE ~\E k \in 1..(size - done) : WriteSome(k)
      <4>1. UNCHANGED <<wire, done>>
        <5>1. ~Call
          BY DEF Call, CallWriteAll, CallReadExactly, CallReadToEof, Begin
        <5> QED
          BY <3>2, <5>1 DEF Next, Step, Ask, WriteFails, WriteIsBroken, WriteAllDone,
             ReadExactlyReads, ReadToEofReads, ReadExactlyDone, ReadToEofCapped,
             ReadToEofThrows, ReadFails, ReadIsBroken, Answers, Ends
      <4> QED
        BY <2>1, <4>1 DEF TypeOK, WriteInv
    <3> QED
      BY <3>1, <3>2
  <2>3. op' = "none" /\ result' = "ok" => done' = size
    BY DEF Next, Call, CallWriteAll, CallReadExactly, CallReadToEof, Begin, Step, Ask,
           WriteSome, WriteFails, WriteIsBroken, WriteAllDone, ReadExactlyReads,
           ReadToEofReads, ReadExactlyDone, ReadToEofCapped, ReadToEofThrows,
           ReadFails, ReadIsBroken, Answers, Ends, Returns
  <2>4. /\ all \in Seq(Int) /\ Len(all) = size
        /\ \A i \in 1..size : all[i] = offered - size + i
    <3>1. /\ all \in Seq(Int)
          /\ Len(all) = offered - (offered - size + 1) + 1
          /\ \A i \in 1..(offered - (offered - size + 1) + 1) :
                all[i] = (offered - size + 1) + i - 1
      <4>1. offered - size + 1 \in Nat /\ offered - size + 1 <= offered + 1
        BY <2>1
      <4> QED
        BY <2>1, <4>1, BytesProperties
    <3>2. offered - (offered - size + 1) + 1 = size
      BY <2>1
    <3> HIDE DEF all
    <3>3. ASSUME NEW i \in 1..size PROVE all[i] = offered - size + i
      BY <2>1, <3>1, <3>2
    <3> QED
      BY <3>1, <3>2, <3>3
  <2>5. /\ sent \in Seq(Int) /\ Len(sent) = done'
        /\ \A i \in 1..done' : sent[i] = offered - size + i
    <3>1. done' \in Nat /\ start \in Nat /\ Len(wire') = start + done'
      BY <2>1, <2>2
    <3>2. /\ sent \in Seq(Nat)
          /\ Len(sent) = done'
          /\ \A i \in 1..done' : sent[i] = wire'[start + i]
      BY <2>2, <3>1, SuffixProperties
    <3> HIDE DEF sent
    <3> QED
      BY <2>2, <3>2, SeqMonotonic
  <2> HIDE DEF sent, all
  <2>6. sent = SubSeq(all, 1, done')
    <3>1. done' \in Nat /\ done' <= size
      BY <2>1, <2>2
    <3>2. /\ SubSeq(all, 1, done') \in Seq(Int)
          /\ Len(SubSeq(all, 1, done')) = done'
          /\ \A i \in 1..done' : SubSeq(all, 1, done')[i] = all[i]
      BY <2>4, <3>1, PrefixProperties
    <3>3. \A i \in 1..done' : i \in 1..size
      BY <2>1, <3>1
    <3> QED
      BY <2>4, <2>5, <3>2, <3>3, SeqEqual
  <2>7. done' = size => sent = all
    BY <2>4, <2>5, SeqEqual
  <2> QED
    BY <2>3, <2>6, <2>7
<1>2. QED
  BY <1>1, Invariant, PTL DEF Spec, WritesAreWhole

\* read_exactly: success means that the buffer holds the next bytes of the
\* stream and that not one byte more was taken; truncated, and only that,
\* means that the peer ended before the buffer was full.
THEOREM ReadExactlyIsExact == Spec => ReadsAreExact
<1>1. Inv /\ [Next]_vars =>
        [op = "read_exactly" /\ op' = "none" =>
            /\ result' = "ok" => at' = start + size /\ buffer' = Bytes(start + 1, at')
            /\ result' = "truncated" => at' = Length /\ at' < start + size]_vars
  <2> SUFFICES ASSUME Inv, Next, op = "read_exactly", op' = "none"
               PROVE  /\ result' = "ok" =>
                           at' = start + size /\ buffer' = Bytes(start + 1, at')
                      /\ result' = "truncated" => at' = Length /\ at' < start + size
    OBVIOUS
  <2>1. /\ size \in Nat /\ done \in Nat /\ start \in Nat /\ at = start + done
        /\ buffer \in Seq(Nat) /\ Len(buffer) = size
        /\ \A i \in 1..done : buffer[i] = start + i
    BY SizesAreNat DEF Inv, TypeOK, ReadInv, Readers
  <2>2. \/ ReadExactlyDone
        \/ \E k \in 0..Want, eof \in BOOLEAN : ReadExactlyReads(k, eof)
        \/ ReadFails \/ ReadIsBroken
    BY DEF Next, Call, CallWriteAll, CallReadExactly, CallReadToEof, Begin, Step, Ask,
           WriteSome, WriteFails, WriteIsBroken, WriteAllDone, ReadToEofReads,
           ReadToEofCapped, ReadToEofThrows, Answers, Ends
  <2>3. CASE ReadExactlyDone
    <3>1. result' = "ok" /\ done = size /\ UNCHANGED <<at, buffer>>
      BY <2>3 DEF ReadExactlyDone, Ends, Returns
    <3>2. buffer = Bytes(start + 1, start + size)
      BY <2>1, <3>1, BufferIsBytes
    <3> QED
      BY <2>1, <3>1, <3>2
  <2>4. ASSUME NEW k \in 0..Want, NEW eof \in BOOLEAN, ReadExactlyReads(k, eof)
        PROVE  result' = "truncated" /\ at' = Length /\ at' < start + size
    <3>1. /\ result' = "truncated" /\ eof /\ done' < size
          /\ at' = at + k /\ done' = done + k /\ at' = Length
      BY <2>4 DEF ReadExactlyReads, EndsShort, Returns, Delivers
    <3>2. k \in Nat
      BY WantProperties DEF Inv, Readers
    <3> QED
      BY <2>1, <3>1, <3>2
  <2>5. CASE ReadFails \/ ReadIsBroken
    BY <2>5 DEF ReadFails, ReadIsBroken, Refuses, Returns
  <2> QED
    BY <2>2, <2>3, <2>4, <2>5
<1>2. QED
  BY <1>1, Invariant, PTL DEF Spec, ReadsAreExact

\* read_to_eof: however it ends once it has asked the stream, by the peer's
\* end, at the cap, with an error of the stream's or out of memory, `out` holds
\* what was taken from the stream and nothing else, and an end or a cap that
\* is reported is one.
THEOREM ReadToEofTellsTheEnd == Spec => EndsAreTold
<1>1. Inv /\ [Next]_vars =>
        [op = "read_to_eof" /\ op' = "none" /\ (asked \/ done > 0) =>
            /\ buffer' = Bytes(start + 1, at')
            /\ result' = "eof" => at' = Length
            /\ result' = "capped" => at' = start + size]_vars
  <2> SUFFICES ASSUME Inv, Next, op = "read_to_eof", op' = "none", asked \/ done > 0
               PROVE  /\ buffer' = Bytes(start + 1, at')
                      /\ result' = "eof" => at' = Length
                      /\ result' = "capped" => at' = start + size
    OBVIOUS
  <2>1. /\ size \in Nat /\ done \in Nat /\ start \in Nat /\ at = start + done
        /\ buffer \in Seq(Nat) /\ done <= Len(buffer)
        /\ done > 0 => Len(buffer) = done
        /\ \A i \in 1..done : buffer[i] = start + i
    BY SizesAreNat DEF Inv, TypeOK, ReadInv, Readers
  <2>2. \/ ReadToEofCapped \/ ReadToEofThrows
        \/ \E k \in 0..Want, eof \in BOOLEAN : ReadToEofReads(k, eof)
        \/ ReadFails \/ ReadIsBroken
    BY DEF Next, Call, CallWriteAll, CallReadExactly, CallReadToEof, Begin, Step, Ask,
           WriteSome, WriteFails, WriteIsBroken, WriteAllDone, ReadExactlyReads,
           ReadExactlyDone, Answers, Ends
  <2>3. CASE ReadToEofCapped \/ ReadToEofThrows
    <3>1. /\ ~asked /\ UNCHANGED <<at, buffer>>
          /\ \/ result' = "capped" /\ done = size
             \/ result' = "bad_alloc"
      BY <2>3 DEF ReadToEofCapped, ReadToEofThrows, Ends, Returns
    <3>2. buffer = Bytes(start + 1, start + done)
      BY <2>1, <3>1, BufferIsBytes
    <3> QED
      BY <2>1, <3>1, <3>2
  <2>4. ASSUME NEW k \in 0..Want, NEW eof \in BOOLEAN, ReadToEofReads(k, eof)
        PROVE  buffer' = Bytes(start + 1, at') /\ result' = "eof" /\ at' = Length
    <3>1. /\ result' = "eof" /\ eof /\ at' = at + k /\ at' = Length
          /\ buffer' = Cut(Filled(k), done + k)
      BY <2>4 DEF ReadToEofReads, Returns, Delivers
    <3>2. k \in Nat /\ done + k \in Nat /\ at' = start + (done + k)
      <4>1. k \in Nat
        BY WantProperties DEF Inv, Readers
      <4> QED
        BY <2>1, <3>1, <4>1
    <3>3. /\ Cut(Filled(k), done + k) \in Seq(Nat)
          /\ Len(Cut(Filled(k), done + k)) = done + k
          /\ \A i \in 1..(done + k) : Cut(Filled(k), done + k)[i] = start + i
      BY CutProperties DEF Readers
    <3> QED
      BY <2>1, <3>1, <3>2, <3>3, BufferIsBytes
  <2>5. CASE ReadFails \/ ReadIsBroken
    <3>1. /\ result' \in {"error", "logic"} /\ at' = at
          /\ buffer' = Resize(buffer, done)
      BY <2>5 DEF ReadFails, ReadIsBroken, Refuses, Returns, Left, Cut
    <3>2. /\ Resize(buffer, done) \in Seq(Nat)
          /\ Len(Resize(buffer, done)) = done
          /\ \A i \in 1..done : Resize(buffer, done)[i] =
                 IF i <= Len(buffer) THEN buffer[i] ELSE Zero
      BY <2>1, ResizeProperties
    <3>3. \A i \in 1..done : i <= Len(buffer)
      BY <2>1
    <3>4. Resize(buffer, done) = Bytes(start + 1, start + done)
      BY <2>1, <3>2, <3>3, BufferIsBytes
    <3> QED
      BY <2>1, <3>1, <3>4
  <2> QED
    BY <2>2, <2>3, <2>4, <2>5
<1>2. QED
  BY <1>1, Invariant, PTL DEF Spec, EndsAreTold

=============================================================================
