---------------------------- MODULE Lexer_proofs ----------------------------
(***************************************************************************)
(* Theorems about Lexer, for every input, every way to split it and all    *)
(* limits.                                                                 *)
(***************************************************************************)
EXTENDS Lexer, CommonLemmas, TLAPS

-----------------------------------------------------------------------------
(* Characters.                                                             *)

\* The input is made of characters.
LEMMA InputIsSeq ==
    ASSUME input \in Inputs
    PROVE  Len(input) \in Nat /\ \A o \in 0..(Len(input) - 1) : At(o) \in Promise!Characters
<1>1. input \in Seq(Promise!Characters)
  BY LexerAssumption
<1>2. Len(input) \in Nat /\ \A i \in 1..Len(input) : input[i] \in Promise!Characters
  BY <1>1
<1>3. \A o \in 0..(Len(input) - 1) : o + 1 \in 1..Len(input)
  BY <1>2
<1> QED
  BY <1>2, <1>3 DEF At

LEMMA AtomCharsAre ==
    /\ \A m : m # "astring" => AtomChars(m) = Promise!AtomChars
    /\ AtomChars("astring") = Promise!AtomChars \cup {"[", "]"}
<1>1. \A c : c \in Promise!Characters \ {"sp", "cr", "lf", "nul", "ctl", "(", ")", "{", "quote"}
               <=> c \in Promise!AtomChars \cup {"[", "]"}
  BY DEF Promise!Characters, Promise!AtomChars, Promise!Digits, Promise!Controls,
         Promise!Structural, Promise!Others
<1>2. "[" \notin Promise!AtomChars /\ "]" \notin Promise!AtomChars
  BY DEF Promise!AtomChars, Promise!Digits, Promise!Others
<1> HIDE DEF Promise!AtomChars
<1>3. \A m : m # "astring" => AtomChars(m) = Promise!AtomChars
  BY <1>1, <1>2 DEF AtomChars
<1>4. AtomChars("astring") = Promise!AtomChars \cup {"[", "]"}
  BY <1>1 DEF AtomChars
<1> QED
  BY <1>3, <1>4

LEMMA DigitsAre ==
    /\ \A c \in Digits : DigitValue(c) \in 0..9
    /\ Digits \subseteq Promise!AtomChars
<1> QED
  BY DEF Digits, DigitValue, Promise!Digits, Promise!DigitValue, Promise!AtomChars

\* TokenStream takes the least and the greatest as Lexer does.
LEMMA PromisedExtremes ==
    /\ \A S : Promise!Min(S) = Min(S)
    /\ \A S : Promise!Max(S) = Max(S)
<1> QED
  BY DEF Promise!Min, Promise!Max, Min, Max

-----------------------------------------------------------------------------
(* Runs of characters.                                                     *)

\* Where a run ends among the bytes that were fed, and what is in it.
LEMMA RunEndProperties ==
    ASSUME NEW S, NEW o \in Nat, fed \in Nat, o <= fed
    PROVE  /\ RunEnd(o, S) \in o..fed
           /\ \A i \in o..(RunEnd(o, S) - 1) : At(i) \in S
           /\ RunEnd(o, S) < fed => At(RunEnd(o, S)) \notin S
<1> DEFINE ends == {i \in o..(fed - 1) : At(i) \notin S} \cup {fed}
           e == Min(ends)
<1>1. RunEnd(o, S) = e
  BY DEF RunEnd
<1>2. ends \in SUBSET Nat /\ ends # {}
  OBVIOUS
<1>3. e \in ends /\ \A y \in ends : e <= y
  <2> HIDE DEF ends
  <2> QED
    BY <1>2, MinOfNats
<1>4. e \in o..fed /\ (e < fed => At(e) \notin S)
  <2> HIDE DEF e
  <2> QED
    BY <1>3
<1>5. ASSUME NEW i \in o..(e - 1) PROVE At(i) \in S
  <2>1. i < e /\ i \in o..(fed - 1)
    BY <1>4
  <2>2. i \notin ends
    <3> HIDE DEF ends, e
    <3>1. i \in ends => e <= i
      BY <1>3
    <3>2. e \in Nat
      BY <1>2, <1>3
    <3> QED
      BY <2>1, <3>1, <3>2
  <2> QED
    BY <2>1, <2>2
<1> HIDE DEF e
<1> QED
  BY <1>1, <1>4, <1>5

\* What is known of a run tells where it ends in the whole input, or how far it
\* goes at least.
LEMMA WholeRun ==
    ASSUME input \in Inputs, NEW S, NEW o \in Nat, NEW e \in Nat, o <= e, e <= Len(input),
           \A i \in o..(e - 1) : At(i) \in S
    PROVE  /\ Promise!RunEnd(o, S) \in e..Len(input)
           /\ e = Len(input) \/ At(e) \notin S => Promise!RunEnd(o, S) = e
<1> DEFINE n == Len(input)
           ends == {i \in o..(n - 1) : At(i) \notin S} \cup {n}
           r == Min(ends)
<1>0. n \in Nat
  BY InputIsSeq
<1>1. Promise!RunEnd(o, S) = r
  BY PromisedExtremes DEF Promise!RunEnd, Promise!At, Promise!Length, At
<1> HIDE DEF n
<1>2. ends \in SUBSET Nat /\ ends # {}
  BY <1>0
<1>3. r \in ends /\ \A y \in ends : r <= y
  <2> HIDE DEF ends
  <2> QED
    BY <1>2, MinOfNats
<1> HIDE DEF r
<1>4. r \in o..n /\ (r < n => At(r) \notin S)
  BY <1>0, <1>3 DEF n
<1>5. r >= e
  <2> SUFFICES ASSUME r < e PROVE FALSE
    BY <1>4
  <2>1. r \in o..(e - 1) /\ r < n
    BY <1>4, <1>0 DEF n
  <2> QED
    BY <1>4, <2>1
<1>6. e = n \/ At(e) \notin S => e \in ends
  BY <1>0 DEF n
<1>7. e = n \/ At(e) \notin S => r = e
  <2> HIDE DEF ends
  <2> QED
    BY <1>3, <1>4, <1>5, <1>6
<1> QED
  BY <1>1, <1>4, <1>5, <1>7 DEF n

-----------------------------------------------------------------------------
(* Numbers.                                                                *)

\* f holds the values of the digits from a up to every place up to b.
Reads(f, a, b) ==
    \A i \in a..b : f[i] = IF i = a THEN 0 ELSE 10 * f[i - 1] + DigitValue(At(i - 1))

\* There is one value.
LEMMA OneReading ==
    ASSUME NEW a \in Nat, NEW b \in Nat, NEW c \in Nat, a <= b, b <= c,
           NEW f, NEW g, Reads(f, a, b), Reads(g, a, c)
    PROVE  f[b] = g[b]
<1> DEFINE S == {k \in Nat : a + k <= b => f[a + k] = g[a + k]}
<1>1. \A i \in a..b : f[i] = IF i = a THEN 0 ELSE 10 * f[i - 1] + DigitValue(At(i - 1))
  BY DEF Reads
<1>2. \A i \in a..b : g[i] = IF i = a THEN 0 ELSE 10 * g[i - 1] + DigitValue(At(i - 1))
  <2>1. \A i \in a..b : i \in a..c
    OBVIOUS
  <2> QED
    BY <2>1 DEF Reads
<1>3. 0 \in S
  <2>1. a \in a..b /\ a + 0 = a
    OBVIOUS
  <2>2. f[a] = 0 /\ g[a] = 0
    BY <1>1, <1>2, <2>1
  <2> QED
    BY <2>1, <2>2
<1>4. ASSUME NEW k \in S PROVE k + 1 \in S
  <2> SUFFICES ASSUME a + (k + 1) <= b PROVE f[a + (k + 1)] = g[a + (k + 1)]
    OBVIOUS
  <2>1. a + k <= b /\ a + (k + 1) \in a..b /\ a + (k + 1) # a /\ a + (k + 1) - 1 = a + k
    OBVIOUS
  <2>2. f[a + k] = g[a + k]
    BY <2>1
  <2> DEFINE j == a + (k + 1)
  <2>3. j \in a..b /\ j # a /\ j - 1 = a + k
    BY <2>1
  <2> HIDE DEF j
  <2>4. f[j] = 10 * f[j - 1] + DigitValue(At(j - 1))
    BY <1>1, <2>3
  <2>5. g[j] = 10 * g[j - 1] + DigitValue(At(j - 1))
    BY <1>2, <2>3
  <2>6. f[j] = g[j]
    BY <2>2, <2>3, <2>4, <2>5
  <2> QED
    BY <2>6 DEF j
<1>5. S = Nat
  <2>1. S \in SUBSET Nat
    OBVIOUS
  <2> HIDE DEF S
  <2> QED
    BY <1>3, <1>4, <2>1, SetInduction
<1>6. b - a \in S /\ a + (b - a) = b
  BY <1>5
<1> QED
  BY <1>6

\* Digits have values.
LEMMA ReadingExists ==
    ASSUME NEW a \in Nat, NEW b \in Nat, a <= b, \A i \in a..(b - 1) : At(i) \in Digits
    PROVE  \E f \in [a..b -> Nat] : Reads(f, a, b)
<1> DEFINE S == {k \in Nat : a + k <= b => \E f \in [a..(a + k) -> Nat] : Reads(f, a, a + k)}
<1>1. 0 \in S
  <2> DEFINE zero == [i \in a..(a + 0) |-> 0]
  <2>1. \A i \in a..(a + 0) : i = a /\ zero[i] = 0
    OBVIOUS
  <2>2. zero \in [a..(a + 0) -> Nat]
    OBVIOUS
  <2> HIDE DEF zero
  <2>3. Reads(zero, a, a + 0)
    BY <2>1 DEF Reads
  <2> QED
    BY <2>2, <2>3
<1>2. ASSUME NEW k \in S PROVE k + 1 \in S
  <2> SUFFICES ASSUME a + (k + 1) <= b
               PROVE  \E f \in [a..(a + (k + 1)) -> Nat] : Reads(f, a, a + (k + 1))
    OBVIOUS
  <2>1. k \in Nat /\ a + k <= b
    OBVIOUS
  <2>2. PICK f \in [a..(a + k) -> Nat] : Reads(f, a, a + k)
    BY <2>1
  <2> DEFINE new == a + (k + 1)
             d == DigitValue(At(a + k))
             h == [i \in a..new |-> IF i = new THEN 10 * f[a + k] + d ELSE f[i]]
  <2>3. d \in Nat
    <3>1. a + k \in a..(b - 1)
      BY <2>1
    <3>2. At(a + k) \in Digits
      BY <3>1
    <3>3. DigitValue(At(a + k)) \in 0..9
      <4> DEFINE c == At(a + k)
      <4>1. c \in Digits
        BY <3>2
      <4> HIDE DEF c
      <4> QED
        BY <4>1, DigitsAre DEF c
    <3> QED
      BY <3>3
  <2>4. f[a + k] \in Nat
    BY <2>1
  <2>5. new \in Nat /\ new = a + k + 1
    BY <2>1
  <2> HIDE DEF new, d
  <2>6. h \in [a..new -> Nat]
    BY <2>1, <2>3, <2>4, <2>5
  <2>7. ASSUME NEW i \in a..new
        PROVE  h[i] = IF i = a THEN 0 ELSE 10 * h[i - 1] + DigitValue(At(i - 1))
    <3>1. CASE i = new
      <4>1. i # a /\ i - 1 = a + k /\ a + k \in a..new /\ a + k # new
        BY <2>1, <2>5, <3>1
      <4>2. h[i] = 10 * f[a + k] + d /\ h[a + k] = f[a + k]
        BY <3>1, <4>1
      <4> QED
        BY <4>1, <4>2 DEF d
    <3>2. CASE i # new
      <4>1. i \in a..(a + k)
        BY <2>1, <2>5, <3>2
      <4>2. h[i] = f[i]
        BY <3>2
      <4>3. i # a => i - 1 \in a..new /\ i - 1 # new
        BY <2>1, <2>5, <4>1
      <4>4. i # a => h[i - 1] = f[i - 1]
        BY <4>3
      <4>5. f[i] = IF i = a THEN 0 ELSE 10 * f[i - 1] + DigitValue(At(i - 1))
        BY <2>2, <4>1 DEF Reads
      <4> HIDE DEF h
      <4> QED
        BY <4>2, <4>4, <4>5
    <3> QED
      BY <3>1, <3>2
  <2> HIDE DEF h
  <2>8. Reads(h, a, new)
    BY <2>7 DEF Reads
  <2> QED
    BY <2>6, <2>8 DEF new
<1>3. S = Nat
  <2>1. S \in SUBSET Nat
    OBVIOUS
  <2> HIDE DEF S
  <2> QED
    BY <1>1, <1>2, <2>1, SetInduction
<1>4. b - a \in S /\ a + (b - a) = b /\ b - a \in Nat
  <2> HIDE DEF S
  <2> QED
    BY <1>3
<1>5. \E f \in [a..(a + (b - a)) -> Nat] : Reads(f, a, a + (b - a))
  BY <1>4
<1> QED
  BY <1>4, <1>5

\* What the lexer reads.
LEMMA ValuesProperties ==
    ASSUME NEW a \in Nat, NEW b \in Nat, a <= b, \A i \in a..(b - 1) : At(i) \in Digits
    PROVE  Values(a, b) \in [a..b -> Nat] /\ Reads(Values(a, b), a, b)
<1> DEFINE Body(f) == [i \in a..b |-> IF i = a THEN 0
                                      ELSE 10 * f[i - 1] + DigitValue(At(i - 1))]
           value == CHOOSE f : f = Body(f)
<1>1. Values(a, b) = value
  BY DEF Values
<1>2. PICK f \in [a..b -> Nat] : Reads(f, a, b)
  BY ReadingExists
<1>3. f = Body(f)
  BY <1>2 DEF Reads
<1>4. value = Body(value)
  <2> HIDE DEF Body
  <2> QED
    BY <1>3
<1>5. Reads(value, a, b) /\ DOMAIN value = a..b
  <2> HIDE DEF value
  <2>1. \A i \in a..b : value[i] = Body(value)[i]
    BY <1>4
  <2> QED
    BY <1>4, <2>1 DEF Reads
<1>6. ASSUME NEW i \in a..b PROVE value[i] \in Nat
  <2> HIDE DEF value
  <2>1. Reads(value, a, i)
    BY <1>5 DEF Reads
  <2>2. value[i] = f[i]
    BY <1>2, <2>1, OneReading
  <2> QED
    BY <1>2, <2>2
<1>7. value \in [a..b -> Nat]
  <2>1. value = [i \in a..b |-> value[i]]
    <3>1. Body(value) = [i \in a..b |-> Body(value)[i]]
      OBVIOUS
    <3> HIDE DEF Body, value
    <3> QED
      BY <1>4, <3>1
  <2> HIDE DEF value
  <2> QED
    BY <1>6, <2>1
<1> HIDE DEF value
<1> QED
  BY <1>1, <1>5, <1>7

\* The promise values the digits up to a place as the lexer does.
LEMMA PromisedValue ==
    ASSUME NEW a \in Nat, NEW b \in Nat, a <= b, \A i \in a..(b - 1) : At(i) \in Digits,
           NEW i \in a..b
    PROVE  Promise!Value(a, i) = Values(a, b)[i]
<1>1. \A j \in a..(i - 1) : At(j) \in Digits
  OBVIOUS
<1>2. i \in Nat /\ a <= i /\ i <= b
  OBVIOUS
<1>3. Reads(Values(a, i), a, i) /\ Reads(Values(a, b), a, b)
  BY <1>1, <1>2, ValuesProperties
<1>4. Values(a, i)[i] = Values(a, b)[i]
  BY <1>2, <1>3, OneReading
<1>5. Promise!Value(a, i) = Values(a, i)[i]
  BY DEF Promise!Value, Promise!At, Promise!DigitValue, Values, DigitValue, At
<1> QED
  BY <1>4, <1>5

\* The overflow test, which divides first, refuses what is too large, and no more.
LEMMA RefusedIsTooLarge ==
    ASSUME NEW a \in Nat, NEW b \in Nat, a <= b, \A i \in a..(b - 1) : At(i) \in Digits
    PROVE  Refused(a, b) = {i \in a..(b - 1) : Promise!Value(a, i + 1) > MaxNumber}
<1> DEFINE V == Values(a, b)
<1>1. V \in [a..b -> Nat] /\ Reads(V, a, b)
  BY ValuesProperties
<1> HIDE DEF V
<1>2. ASSUME NEW i \in a..(b - 1)
      PROVE  V[i] > (MaxNumber - DigitValue(At(i))) \div 10
             <=> Promise!Value(a, i + 1) > MaxNumber
  <2> DEFINE d == DigitValue(At(i))
             v == V[i]
             w == V[i + 1]
  <2>1. d \in 0..9
    BY DigitsAre
  <2>2. i + 1 \in a..b /\ i \in a..b /\ i + 1 # a /\ i + 1 - 1 = i
    OBVIOUS
  <2>3. v \in Nat
    BY <1>1, <2>2
  <2>4. w = 10 * v + d
    BY <1>1, <2>2 DEF Reads
  <2>5. Promise!Value(a, i + 1) = w
    BY <2>2, PromisedValue DEF V
  <2> HIDE DEF d, v, w
  <2>6. MaxNumber \in Nat /\ MaxNumber >= 9
    BY LexerAssumption
  <2>7. v > (MaxNumber - d) \div 10 <=> 10 * v + d > MaxNumber
    BY <2>1, <2>3, <2>6
  <2>8. v > (MaxNumber - d) \div 10 <=> Promise!Value(a, i + 1) > MaxNumber
    BY <2>4, <2>5, <2>7
  <2> QED
    BY <2>8 DEF v, d
<1> QED
  BY <1>2 DEF Refused, V

-----------------------------------------------------------------------------
(* Escaped characters.                                                     *)

\* n backslashes lead up to place i of a quoted string that starts at o.
Slashes(o, i, n) ==
    /\ n \in 0..(i - o - 1)
    /\ \A j \in (i - n)..(i - 1) : At(j) = "slash"
    /\ n < i - o - 1 => At(i - n - 1) # "slash"

LEMMA SlashesAreCounted ==
    ASSUME NEW o \in Nat, NEW i \in Nat, o < i, NEW n, NEW k, Slashes(o, i, n), Slashes(o, i, k)
    PROVE  n = k
<1>1. ASSUME NEW p, NEW q, Slashes(o, i, p), Slashes(o, i, q), p < q PROVE FALSE
  <2>1. p \in 0..(i - o - 1) /\ q \in 0..(i - o - 1)
    BY <1>1 DEF Slashes
  <2>2. i - p - 1 \in (i - q)..(i - 1) /\ p < i - o - 1
    BY <1>1, <2>1
  <2> QED
    BY <1>1, <2>2 DEF Slashes
<1>2. n \in Int /\ k \in Int
  BY DEF Slashes
<1>3. ~(n < k) /\ ~(k < n)
  BY <1>1
<1> QED
  BY <1>2, <1>3

LEMMA SlashesGoOn ==
    ASSUME NEW o \in Nat, NEW i \in Nat, o < i, NEW n, Slashes(o, i, n)
    PROVE  Slashes(o, i + 1, IF At(i) = "slash" THEN n + 1 ELSE 0)
<1>1. n \in 0..(i - o - 1)
  BY DEF Slashes
<1>2. CASE At(i) = "slash"
  <2>1. n + 1 \in 0..(i + 1 - o - 1)
    BY <1>1
  <2>2. ASSUME NEW j \in (i + 1 - (n + 1))..(i + 1 - 1) PROVE At(j) = "slash"
    <3>1. j = i \/ j \in (i - n)..(i - 1)
      BY <1>1
    <3> QED
      BY <1>2, <3>1 DEF Slashes
  <2>3. n + 1 < i + 1 - o - 1 => At(i + 1 - (n + 1) - 1) # "slash"
    <3> SUFFICES ASSUME n + 1 < i + 1 - o - 1 PROVE At(i + 1 - (n + 1) - 1) # "slash"
      OBVIOUS
    <3>1. n < i - o - 1 /\ i + 1 - (n + 1) - 1 = i - n - 1
      BY <1>1
    <3>2. At(i - n - 1) # "slash"
      BY <3>1 DEF Slashes
    <3> QED
      BY <3>1, <3>2
  <2>4. Slashes(o, i + 1, n + 1)
    BY <2>1, <2>2, <2>3 DEF Slashes
  <2> QED
    BY <1>2, <2>4
<1>3. CASE At(i) # "slash"
  <2>1. 0 \in 0..(i + 1 - o - 1) /\ i + 1 - 0 - 1 = i /\ (i + 1 - 0)..(i + 1 - 1) = {}
    OBVIOUS
  <2>2. Slashes(o, i + 1, 0)
    BY <1>3, <2>1 DEF Slashes
  <2> QED
    BY <1>3, <2>2
<1> QED
  BY <1>2, <1>3

LEMMA SlashesExist ==
    ASSUME NEW o \in Nat, NEW i \in Nat, o < i
    PROVE  \E n : Slashes(o, i, n)
<1> DEFINE S == {k \in Nat : \E n : Slashes(o, o + 1 + k, n)}
<1>1. 0 \in S
  <2>1. 0 \in 0..(o + 1 + 0 - o - 1) /\ ~(0 < o + 1 + 0 - o - 1)
        /\ (o + 1 + 0 - 0)..(o + 1 + 0 - 1) = {}
    OBVIOUS
  <2>2. Slashes(o, o + 1 + 0, 0)
    BY <2>1 DEF Slashes
  <2> QED
    BY <2>2
<1>2. ASSUME NEW k \in S PROVE k + 1 \in S
  <2>1. PICK n : Slashes(o, o + 1 + k, n)
    OBVIOUS
  <2>2. o + 1 + k \in Nat /\ o < o + 1 + k /\ o + 1 + k + 1 = o + 1 + (k + 1)
    OBVIOUS
  <2>3. Slashes(o, o + 1 + k + 1, IF At(o + 1 + k) = "slash" THEN n + 1 ELSE 0)
    BY <2>1, <2>2, SlashesGoOn
  <2> QED
    BY <2>2, <2>3
<1>3. S = Nat
  <2>1. S \in SUBSET Nat
    OBVIOUS
  <2> HIDE DEF S
  <2> QED
    BY <1>1, <1>2, <2>1, SetInduction
<1>4. i - o - 1 \in Nat /\ o + 1 + (i - o - 1) = i
  OBVIOUS
<1>5. i - o - 1 \in S
  <2> HIDE DEF S
  <2> QED
    BY <1>3, <1>4
<1> QED
  BY <1>4, <1>5

\* The promise's count of backslashes is the lexer's flag.
LEMMA EscapedStepwise ==
    ASSUME NEW o \in Nat
    PROVE  /\ ~Promise!Escaped(o, o + 1)
           /\ \A i \in Nat : i > o =>
                 (Promise!Escaped(o, i + 1) <=> ~Promise!Escaped(o, i) /\ At(i) = "slash")
<1>1. ASSUME NEW i \in Nat, i > o, NEW n, Slashes(o, i, n)
      PROVE  Promise!Escaped(o, i) <=> n % 2 = 1
  <2> DEFINE P(k) == /\ \A j \in (i - k)..(i - 1) : At(j) = "slash"
                     /\ k < i - o - 1 => At(i - k - 1) # "slash"
             c == CHOOSE k \in 0..(i - o - 1) : P(k)
  <2>1. Promise!Escaped(o, i) <=> c % 2 = 1
    BY DEF Promise!Escaped, Promise!At, At
  <2>2. n \in 0..(i - o - 1) /\ P(n)
    BY <1>1 DEF Slashes
  <2>3. c \in 0..(i - o - 1) /\ P(c)
    <3> HIDE DEF P
    <3> QED
      BY <2>2
  <2> HIDE DEF c
  <2>4. Slashes(o, i, c)
    BY <2>3 DEF Slashes
  <2>5. c = n
    BY <1>1, <2>4, SlashesAreCounted
  <2> QED
    BY <2>1, <2>5
<1>2. ~Promise!Escaped(o, o + 1)
  <2>1. 0 \in 0..(o + 1 - o - 1) /\ ~(0 < o + 1 - o - 1) /\ (o + 1 - 0)..(o + 1 - 1) = {}
    OBVIOUS
  <2>2. Slashes(o, o + 1, 0)
    BY <2>1 DEF Slashes
  <2> QED
    BY <1>1, <2>2
<1>3. ASSUME NEW i \in Nat, i > o
      PROVE  Promise!Escaped(o, i + 1) <=> ~Promise!Escaped(o, i) /\ At(i) = "slash"
  <2>1. PICK n : Slashes(o, i, n)
    BY <1>3, SlashesExist
  <2>2. Promise!Escaped(o, i) <=> n % 2 = 1
    BY <1>1, <1>3, <2>1
  <2>3. n \in Nat
    BY <2>1 DEF Slashes
  <2>4. CASE At(i) = "slash"
    <3>1. Slashes(o, i + 1, n + 1)
      BY <1>3, <2>1, <2>4, SlashesGoOn
    <3>2. i + 1 \in Nat /\ i + 1 > o
      BY <1>3
    <3>3. Promise!Escaped(o, i + 1) <=> (n + 1) % 2 = 1
      BY <1>1, <3>1, <3>2
    <3>4. (n + 1) % 2 = 1 <=> ~(n % 2 = 1)
      BY <2>3
    <3> QED
      BY <2>2, <2>4, <3>3, <3>4
  <2>5. CASE At(i) # "slash"
    <3>1. Slashes(o, i + 1, 0)
      BY <1>3, <2>1, <2>5, SlashesGoOn
    <3>2. i + 1 \in Nat /\ i + 1 > o
      BY <1>3
    <3>3. Promise!Escaped(o, i + 1) <=> 0 % 2 = 1
      BY <1>1, <3>1, <3>2
    <3> QED
      BY <2>5, <3>3
  <2> QED
    BY <2>4, <2>5
<1> QED
  BY <1>2, <1>3

-----------------------------------------------------------------------------
(* What stands at pos.                                                     *)

\* What is read there of the whole input.
Reading == Promise!ReadAt(pos, mode)

TextStops == {"cr", "lf"} \cup IF mode \in {"code_name", "code_text"} THEN {"]"} ELSE {}

\* A byte was found to dispatch on.
Lexes ==
    /\ input \in Inputs
    /\ fed \in Nat /\ pos \in Nat /\ pos < fed /\ fed <= Len(input)
    /\ finished \in BOOLEAN
    /\ finished => fed = Len(input)
    /\ mode \in Modes
    /\ depth \in 0..MaxDepth
    /\ At(pos) # "sp"

\* The signs of the grammar are not the characters of atoms.
LEMMA SignsAreNotAtomChars ==
    \A d \in Promise!AtomChars :
        d \notin {"sp", "cr", "lf", "nul", "ctl", "(", ")", "{", "quote", "[", "]"}
<1> QED
  BY DEF Promise!AtomChars, Promise!Digits, Promise!Others

LEMMA ReadingOfSigns ==
    ASSUME Lexes
    PROVE  /\ IsEol => Reading = Promise!Eol(pos)
           /\ OpenKind # "none" => Reading = Promise!Bracket(OpenKind, pos)
           /\ CloseKind # "none" => Reading = Promise!Bracket(CloseKind, pos)
           /\ General /\ At(pos) = "quote" => Reading = Promise!Quoted(pos)
           /\ General /\ At(pos) \in {"nul", "ctl"} =>
                Reading = Promise!Bad("invalid_character", pos)
<1> DEFINE c == Promise!At(pos)
           L == Promise!Length
<1>0. At(pos) = c
  BY DEF At, Promise!At
<1> USE DEF Reading, Promise!ReadAt
<1> HIDE DEF c
<1>1. IsEol => Reading = Promise!Eol(pos)
  BY <1>0, SignsAreNotAtomChars DEF IsEol, c
<1>2. ASSUME General, c \notin {"cr", "lf"} PROVE Reading = Promise!General(pos, mode)
  BY <1>2 DEF General, c
<1>3. OpenKind # "none" => Reading = Promise!Bracket(OpenKind, pos)
  <2>1. CASE General /\ c = "("
    <3>1. OpenKind = "lparen"
      BY <1>0, <2>1 DEF OpenKind
    <3>2. Promise!General(pos, mode) = Promise!Bracket("lparen", pos)
      BY <2>1 DEF Promise!General, Promise!Controls, c
    <3> QED
      BY <1>2, <2>1, <3>1, <3>2
  <2>2. CASE mode = "normal" /\ c = "["
    <3>1. OpenKind = "lbracket"
      BY <1>0, <2>2 DEF OpenKind
    <3>2. Promise!General(pos, mode) = Promise!Bracket("lbracket", pos)
      BY <2>2 DEF Promise!General, Promise!Controls, c
    <3> QED
      BY <1>2, <2>2, <3>1, <3>2 DEF General
  <2>3. CASE mode = "resp_text" /\ c = "["
    <3>1. OpenKind = "lbracket"
      BY <1>0, <2>3 DEF OpenKind
    <3> QED
      BY <2>3, <3>1, SignsAreNotAtomChars DEF c
  <2>4. CASE ~(General /\ c = "(") /\ ~(mode \in {"normal", "resp_text"} /\ c = "[")
    BY <1>0, <2>4 DEF OpenKind
  <2> QED
    BY <2>1, <2>2, <2>3, <2>4
<1>4. CloseKind # "none" => Reading = Promise!Bracket(CloseKind, pos)
  <2>1. CASE General /\ c = ")"
    <3>1. CloseKind = "rparen"
      BY <1>0, <2>1 DEF CloseKind
    <3>2. Promise!General(pos, mode) = Promise!Bracket("rparen", pos)
      BY <2>1 DEF Promise!General, Promise!Controls, c
    <3> QED
      BY <1>2, <2>1, <3>1, <3>2
  <2>2. CASE mode = "normal" /\ c = "]"
    <3>1. CloseKind = "rbracket"
      BY <1>0, <2>2 DEF CloseKind
    <3>2. Promise!General(pos, mode) = Promise!Bracket("rbracket", pos)
      BY <2>2 DEF Promise!General, Promise!Controls, c
    <3> QED
      BY <1>2, <2>2, <3>1, <3>2 DEF General
  <2>3. CASE mode \in {"code_name", "code_text"} /\ c = "]"
    <3>1. CloseKind = "rbracket"
      BY <1>0, <2>3 DEF CloseKind
    <3> QED
      BY <2>3, <3>1, SignsAreNotAtomChars DEF c
  <2>4. CASE ~(General /\ c = ")")
             /\ ~(mode \in {"normal", "code_name", "code_text"} /\ c = "]")
    BY <1>0, <2>4 DEF CloseKind
  <2> QED
    BY <2>1, <2>2, <2>3, <2>4
<1>5. General /\ At(pos) = "quote" => Reading = Promise!Quoted(pos)
  <2> SUFFICES ASSUME General, c = "quote" PROVE Reading = Promise!Quoted(pos)
    BY <1>0
  <2>1. Promise!General(pos, mode) = Promise!Quoted(pos)
    BY DEF Promise!General, Promise!Controls, c
  <2> QED
    BY <1>2, <2>1
<1>6. General /\ At(pos) \in {"nul", "ctl"} =>
         Reading = Promise!Bad("invalid_character", pos)
  <2> SUFFICES ASSUME General, c \in {"nul", "ctl"}
               PROVE  Reading = Promise!Bad("invalid_character", pos)
    BY <1>0
  <2>1. Promise!General(pos, mode) = Promise!Bad("invalid_character", pos)
    BY DEF Promise!General, Promise!Controls, c
  <2> QED
    BY <1>2, <2>1
<1> QED
  BY <1>1, <1>3, <1>4, <1>5, <1>6

LEMMA ReadingOfHeader ==
    ASSUME Lexes, IsHeader
    PROVE  Reading = Promise!Header(pos)
<1> DEFINE c == Promise!At(pos)
<1>1. General /\ (c = "{" \/ (c = "~" /\ pos + 1 < Promise!Length /\ Promise!At(pos + 1) = "{"))
  <2>1. pos + 1 < fed => pos + 1 < Len(input)
    BY InputIsSeq DEF Lexes
  <2> QED
    BY <2>1 DEF IsHeader, At, Promise!At, Promise!Length
<1>2. Promise!General(pos, mode) = Promise!Header(pos)
  <2>1. c \in {"{", "~"}
    BY <1>1
  <2> QED
    BY <1>1, <2>1 DEF Promise!General, Promise!Controls
<1> QED
  BY <1>1, <1>2 DEF Reading, Promise!ReadAt, General

LEMMA ReadingOfAtom ==
    ASSUME Lexes, IsAtom
    PROVE  Reading = IF mode = "normal" THEN Promise!Word(pos)
                                        ELSE Promise!Run("atom", pos, AtomChars(mode))
<1> DEFINE c == Promise!At(pos)
<1>1. At(pos) = c
  BY DEF At, Promise!At
<1> HIDE DEF c
<1>2. CASE General
  <2>1. c \in AtomChars(mode) /\ ~IsHeader /\ ~TildeWaits
    BY <1>1, <1>2 DEF IsAtom, General
  <2>2. c \notin {"cr", "lf", "nul", "ctl", "(", ")", "{", "quote"}
        /\ (mode = "normal" => c \notin {"[", "]"})
    BY <1>2, <2>1, AtomCharsAre, SignsAreNotAtomChars DEF General
  <2>3. ~(c = "~" /\ pos + 1 < Promise!Length /\ Promise!At(pos + 1) = "{")
    <3> SUFFICES ASSUME c = "~", pos + 1 < Promise!Length PROVE Promise!At(pos + 1) # "{"
      OBVIOUS
    <3>1. pos + 1 < Len(input)
      BY DEF Promise!Length
    <3>2. pos + 1 < fed
      <4>1. pos + 1 <= fed /\ pos + 1 \in Nat /\ fed \in Nat /\ (finished => fed = Len(input))
        BY DEF Lexes
      <4> QED
        BY <1>1, <1>2, <2>1, <3>1, <4>1 DEF TildeWaits
    <3>3. At(pos + 1) # "{"
      BY <1>1, <1>2, <2>1, <3>2 DEF IsHeader
    <3> QED
      BY <3>3 DEF At, Promise!At
  <2>4. Promise!General(pos, mode) =
          IF mode = "normal" THEN Promise!Word(pos)
          ELSE Promise!Run("atom", pos, Promise!AtomChars \cup {"[", "]"})
    <3>1. c \notin Promise!Controls
      BY <2>2 DEF Promise!Controls
    <3> QED
      BY <2>2, <2>3, <3>1 DEF Promise!General, Promise!Controls, c
  <2>5. Reading = Promise!General(pos, mode)
    BY <1>2, <2>2 DEF Reading, Promise!ReadAt, General, c
  <2>6. mode # "normal" => AtomChars(mode) = Promise!AtomChars \cup {"[", "]"}
    BY <1>2, AtomCharsAre DEF General
  <2> QED
    BY <2>4, <2>5, <2>6
<1>3. CASE ~General
  <2>1. mode = "code_name" /\ c \in Promise!AtomChars
    BY <1>1, <1>3, AtomCharsAre DEF IsAtom
  <2>2. c \notin {"cr", "lf", "[", "]"}
    BY <2>1, SignsAreNotAtomChars
  <2>3. Reading = Promise!Run("atom", pos, Promise!AtomChars)
    BY <2>1, <2>2 DEF Reading, Promise!ReadAt, c
  <2>4. AtomChars(mode) = Promise!AtomChars
    BY <2>1, AtomCharsAre
  <2> QED
    BY <2>1, <2>3, <2>4
<1> QED
  BY <1>2, <1>3

LEMMA ReadingOfText ==
    ASSUME Lexes, IsText
    PROVE  Reading = Promise!Text(pos, TextStops)
<1> DEFINE c == Promise!At(pos)
<1>0. At(pos) = c
  BY DEF At, Promise!At
<1> HIDE DEF c
<1>1. mode \notin {"normal", "astring"} /\ c \notin {"cr", "lf"}
  BY <1>0 DEF IsText, General, IsEol
<1>2. ~(c = "[" /\ mode = "resp_text")
  BY <1>0, <1>1 DEF IsText, OpenKind, General
<1>3. ~(c = "]" /\ mode \in {"code_name", "code_text"})
  BY <1>0, <1>1 DEF IsText, CloseKind, General
<1>4. ~(c \in Promise!AtomChars /\ mode = "code_name")
  BY <1>0, AtomCharsAre DEF IsText, IsAtom
<1> QED
  BY <1>1, <1>2, <1>3, <1>4 DEF Reading, Promise!ReadAt, TextStops, c

-----------------------------------------------------------------------------
(* The inductive invariant. TypeOK, NoLineWithheld and WaitsWithinLimit say *)
(* nothing of what the bytes of a token that was suspended are, nor of what *)
(* a call that has been entered may count on.                               *)

GeneralModes == {"normal", "astring"}

Tokens ==
    token.first \in Nat /\ token.len \in Nat

\* Where the promise says that a quoted string ends at the latest.
QuoteEnds(i) ==
    IF Promise!Escaped(pos, i) THEN At(i) \notin {"quote", "slash"}
                               ELSE At(i) \in {"quote", "cr", "lf", "nul"}

HalfAtom(s) ==
    /\ s.mode \in GeneralModes \cup {"code_name"}
    /\ \A i \in pos..(pos + s.len - 1) : At(i) \in AtomChars(s.mode)

HalfQuoted(s) ==
    /\ s.mode \in GeneralModes
    /\ At(pos) = "quote"
    /\ s.escape = Promise!Escaped(pos, pos + s.len)
    /\ \A i \in (pos + 1)..(pos + s.len - 1) : ~QuoteEnds(i)

HalfHeader(s) ==
    /\ s.mode \in GeneralModes
    /\ At(pos) = "{"

HalfText(s) ==
    /\ s.mode \notin GeneralModes
    /\ s.mode = "resp_text" => At(pos) # "["
    /\ s.mode = "code_name" => At(pos) \notin AtomChars("normal")
    /\ \A i \in pos..(pos + s.len - 1) :
          At(i) \notin {"cr", "lf", "nul"} \cup
                       IF s.mode \in {"code_name", "code_text"} THEN {"]"} ELSE {}

\* The bytes that a suspended token has been examined up to are of one token.
Half(s) ==
    /\ s \in [on : BOOLEAN, mode : Modes, len : 0..MaxToken, escape : BOOLEAN]
    /\ s.len > 0 /\ pos + s.len <= fed
    /\ At(pos) # "sp"
    /\ HalfAtom(s) \/ HalfQuoted(s) \/ HalfHeader(s) \/ HalfText(s)

Scanning ==
    /\ ~scan.on => scan = NoScan
    /\ scan.on => Half(scan)

\* A call that was entered has found a byte to dispatch on.
Entered ==
    status = "lexing" =>
        /\ literal = NoLiteral /\ error = NoError
        /\ pos < fed /\ At(pos) # "sp"
        /\ scan.on => scan.mode = mode

\* The spaces that are pending were the last bytes consumed.
Gap ==
    /\ spaces <= pos
    /\ \A i \in (pos - spaces)..(pos - 1) : At(i) = "sp"

InLiteral ==
    literal # NoLiteral => spaces = 0 /\ ~lineStart /\ ~scan.on

\* A line starts behind a line end, and ends with the first byte consumed.
Lines ==
    error = NoError => (lineStart <=> token.kind \in {"none", "eol"} /\ spaces = 0)

Over ==
    /\ finished => fed = Len(input)
    /\ status = "end" =>
        /\ finished /\ pos = fed
        /\ lineStart /\ spaces = 0
        /\ error = NoError /\ literal = NoLiteral

Inv ==
    /\ TypeOK /\ Tokens
    /\ Scanning /\ Entered /\ Gap /\ InLiteral /\ Lines /\ Over
    /\ NoLineWithheld /\ WaitsWithinLimit

-----------------------------------------------------------------------------
(* What may become of a byte that is dispatched on.                        *)

Refuses(r) ==
    /\ r.bad /\ r.kind \in ErrorKinds /\ r.at \in 0..Len(input)
    /\ Fail(r.kind, r.at)
    /\ spaces' \in {spaces, 0}
    /\ UNCHANGED <<inputVars, lineStart, pos, depth, literal, token, scan>>

Waits ==
    /\ ~finished
    /\ status' = "need_more"
    /\ scan' = scan \/ (scan'.on /\ Half(scan'))
    /\ \A o \in pos..(fed - 1) : At(o) # "lf"
    /\ fed - pos <= MaxToken \/ At(pos) \in {"{", "~"}
    /\ UNCHANGED error
    /\ Forget

Gives(r) ==
    /\ ~r.bad /\ r.kind # "none"
    /\ r.len \in Nat /\ pos + r.len <= fed
    /\ r.kind = "literal_begin" => r.number \in 0..MaxLiteral
    /\ Emit(r.kind, r.len, r.number)
    /\ scan' = NoScan
    /\ lineStart' = (r.kind = "eol")
    /\ depth' = Promise!DepthAfter(r.kind) /\ depth' \in 0..MaxDepth
    /\ literal' = IF r.kind = "literal_begin" THEN r.number ELSE NoLiteral
    /\ UNCHANGED <<inputVars, error>>

Outcome ==
    /\ mode' = "normal"
    /\ Refuses(Reading) \/ Waits \/ Gives(Reading)

\* The limits are numbers.
LEMMA LimitsAre ==
    /\ MaxToken \in Nat /\ MaxToken >= 1
    /\ MaxDepth \in Nat /\ MaxDepth >= 1
    /\ MaxLiteral \in Nat
    /\ MaxNumber \in Nat /\ MaxNumber >= 9
<1> QED
  BY LexerAssumption

LEMMA EnteredLexes ==
    ASSUME Inv, status = "lexing"
    PROVE  /\ Lexes
           /\ literal = NoLiteral /\ error = NoError
           /\ scan.on => scan.mode = mode
           /\ Len(input) \in Nat
<1>1. input \in Inputs /\ Len(input) \in Nat
  BY InputIsSeq DEF Inv, TypeOK
<1>2. fed \in 0..Len(input) /\ base \in 0..fed /\ pos \in base..fed
  BY DEF Inv, TypeOK
<1>3. fed \in Nat /\ pos \in Nat /\ fed <= Len(input)
  BY <1>1, <1>2
<1> QED
  BY <1>1, <1>3 DEF Inv, TypeOK, Entered, Over, Lexes

LEMMA RefusesBy ==
    ASSUME NEW kind \in ErrorKinds, NEW o \in 0..Len(input), Fails(kind, o),
           Reading = Promise!Bad(kind, o), mode' = "normal"
    PROVE  Outcome
<1>1. Reading.bad /\ Reading.kind = kind /\ Reading.at = o
  BY DEF Promise!Bad
<1>2. Refuses(Reading)
  BY <1>1 DEF Refuses, Fails, Forget
<1> QED
  BY <1>2 DEF Outcome

LEMMA GivesBy ==
    ASSUME NEW kind, NEW len \in Nat, NEW n, kind # "none", pos + len <= fed,
           kind = "literal_begin" => n \in 0..MaxLiteral,
           Emit(kind, len, n), scan' = NoScan, lineStart' = (kind = "eol"),
           depth' = Promise!DepthAfter(kind), depth' \in 0..MaxDepth,
           literal' = IF kind = "literal_begin" THEN n ELSE NoLiteral,
           UNCHANGED <<inputVars, error>>,
           Reading = Promise!Good(kind, len, n), mode' = "normal"
    PROVE  Outcome
<1>1. ~Reading.bad /\ Reading.kind = kind /\ Reading.len = len /\ Reading.number = n
  BY DEF Promise!Good
<1>2. Gives(Reading)
  BY <1>1 DEF Gives
<1> QED
  BY <1>2 DEF Outcome

\* A token that has no say in the depth of brackets, and announces no literal.
LEMMA GivesPlain ==
    ASSUME Inv, status = "lexing",
           NEW kind \in {"atom", "nil", "number", "quoted", "text"}, NEW len \in Nat, NEW n,
           pos + len <= fed, Completes(kind, len, n), UNCHANGED literal,
           Reading = Promise!Good(kind, len, n), mode' = "normal"
    PROVE  Outcome
<1>1. Promise!DepthAfter(kind) = depth
  BY DEF Promise!DepthAfter
<1>2. depth' = depth /\ depth \in 0..MaxDepth
  BY DEF Completes, Inv, TypeOK
<1>3. literal' = NoLiteral
  BY EnteredLexes
<1>4. lineStart' = (kind = "eol")
  BY DEF Completes
<1> QED
  BY <1>1, <1>2, <1>3, <1>4, GivesBy DEF Completes

-----------------------------------------------------------------------------
(* Line ends, brackets and control characters.                             *)

LEMMA SignsAreNotSuspended ==
    ASSUME Inv, status = "lexing", IsEol \/ OpenKind # "none" \/ CloseKind # "none"
    PROVE  scan = NoScan
<1> SUFFICES ASSUME scan.on PROVE FALSE
  BY DEF Inv, Scanning
<1>1. Half(scan) /\ scan.mode = mode /\ Lexes
  BY EnteredLexes DEF Inv, Scanning
<1>2. pos \in pos..(pos + scan.len - 1)
  <2>1. scan.len \in 1..MaxToken /\ pos \in Nat
    BY <1>1, LimitsAre DEF Half, Lexes
  <2> QED
    BY <2>1
<1>3. At(pos) \in {"cr", "lf"}
      \/ (mode \in GeneralModes /\ At(pos) \in {"(", ")"})
      \/ (mode = "normal" /\ At(pos) \in {"[", "]"})
      \/ (mode = "resp_text" /\ At(pos) = "[")
      \/ (mode \in {"code_name", "code_text"} /\ At(pos) = "]")
  BY DEF IsEol, OpenKind, CloseKind, General, GeneralModes
<1>4. CASE HalfAtom(scan)
  <2>1. At(pos) \in AtomChars(mode) /\ mode \in GeneralModes \cup {"code_name"}
    BY <1>1, <1>2, <1>4 DEF HalfAtom
  <2> QED
    BY <1>3, <2>1, AtomCharsAre, SignsAreNotAtomChars DEF GeneralModes
<1>5. CASE HalfQuoted(scan)
  BY <1>1, <1>3, <1>5 DEF HalfQuoted, GeneralModes
<1>6. CASE HalfHeader(scan)
  BY <1>1, <1>3, <1>6 DEF HalfHeader, GeneralModes
<1>7. CASE HalfText(scan)
  BY <1>1, <1>2, <1>3, <1>7 DEF HalfText, GeneralModes
<1> QED
  BY <1>1, <1>4, <1>5, <1>6, <1>7 DEF Half

LEMMA EolOutcome ==
    ASSUME Inv, LexEol
    PROVE  Outcome
<1>1. /\ Lexes /\ scan = NoScan /\ literal = NoLiteral /\ Len(input) \in Nat
      /\ status = "lexing" /\ mode' = "normal"
  BY EnteredLexes, SignsAreNotSuspended DEF LexEol, Lexing
<1>2. Reading = Promise!Eol(pos)
  BY <1>1, ReadingOfSigns DEF LexEol
<1>3. At(pos) = Promise!At(pos) /\ At(pos + 1) = Promise!At(pos + 1)
      /\ Promise!Length = Len(input)
  BY DEF At, Promise!At, Promise!Length
<1>4. fed \in Nat /\ pos \in Nat /\ pos < fed /\ fed <= Len(input)
      /\ (finished => fed = Len(input))
  BY <1>1 DEF Lexes
<1> HIDE DEF Promise!Length
<1>5. CASE At(pos) = "lf"
  <2>1. Reading = Promise!Bad("bad_line_ending", pos)
    BY <1>2, <1>3, <1>5 DEF Promise!Eol
  <2>2. Fails("bad_line_ending", pos)
    BY <1>5 DEF LexEol
  <2>3. pos \in 0..Len(input) /\ "bad_line_ending" \in ErrorKinds
    BY <1>1, <1>4 DEF ErrorKinds
  <2> QED
    BY <1>1, <2>1, <2>2, <2>3, RefusesBy
<1>6. CASE At(pos) # "lf" /\ ~EolArrived /\ finished
  <2>1. pos + 1 = Len(input)
    BY <1>4, <1>6 DEF EolArrived
  <2>2. Reading = Promise!Bad("unexpected_end", pos + 1)
    BY <1>2, <1>3, <1>6, <2>1 DEF Promise!Eol
  <2>3. Fails("unexpected_end", pos + 1)
    BY <1>6 DEF LexEol
  <2>4. pos + 1 \in 0..Len(input) /\ "unexpected_end" \in ErrorKinds
    BY <1>4, <2>1 DEF ErrorKinds
  <2> QED
    BY <1>1, <2>2, <2>3, <2>4, RefusesBy
<1>7. CASE At(pos) # "lf" /\ ~EolArrived /\ ~finished
  <2>1. pos + 1 = fed
    BY <1>4, <1>7 DEF EolArrived
  <2>2. \A o \in pos..(fed - 1) : At(o) # "lf"
    <3>1. \A o \in pos..(fed - 1) : o = pos
      BY <1>4, <2>1
    <3> QED
      BY <1>7, <3>1
  <2>3. fed - pos <= MaxToken
    BY <1>4, <2>1, LimitsAre
  <2>4. status' = "need_more" /\ UNCHANGED <<scan, error>> /\ Forget
    BY <1>7 DEF LexEol
  <2> QED
    BY <1>1, <1>7, <2>2, <2>3, <2>4 DEF Outcome, Waits
<1>8. CASE At(pos) # "lf" /\ EolArrived /\ At(pos + 1) # "lf"
  <2>1. pos + 1 # Len(input)
    BY <1>4, <1>8 DEF EolArrived
  <2>2. Reading = Promise!Bad("bad_line_ending", pos)
    BY <1>2, <1>3, <1>8, <2>1 DEF Promise!Eol
  <2>3. Fails("bad_line_ending", pos)
    BY <1>8 DEF LexEol
  <2>4. pos \in 0..Len(input) /\ "bad_line_ending" \in ErrorKinds
    BY <1>1, <1>4 DEF ErrorKinds
  <2> QED
    BY <1>1, <2>2, <2>3, <2>4, RefusesBy
<1>9. CASE At(pos) # "lf" /\ EolArrived /\ At(pos + 1) = "lf"
  <2>1. pos + 1 # Len(input) /\ pos + 2 <= fed
    BY <1>4, <1>9 DEF EolArrived
  <2>2. Reading = Promise!Good("eol", 2, 0)
    BY <1>2, <1>3, <1>9, <2>1 DEF Promise!Eol
  <2>3. /\ Emit("eol", 2, 0)
        /\ lineStart' = TRUE
        /\ depth' = 0
        /\ UNCHANGED <<inputVars, scan, literal, error>>
    BY <1>9 DEF LexEol
  <2>4. lineStart' = ("eol" = "eol")
    BY <2>3
  <2>5. depth' = Promise!DepthAfter("eol") /\ depth' \in 0..MaxDepth
    BY <2>3, LimitsAre DEF Promise!DepthAfter
  <2>6. scan' = NoScan /\ literal' = NoLiteral
    BY <1>1, <2>3
  <2> QED
    BY <1>1, <2>1, <2>2, <2>3, <2>4, <2>5, <2>6, GivesBy
<1> QED
  BY <1>1, <1>5, <1>6, <1>7, <1>8, <1>9 DEF Lexes

LEMMA OpenOutcome ==
    ASSUME Inv, LexOpen
    PROVE  Outcome
<1>1. /\ Lexes /\ scan = NoScan /\ literal = NoLiteral
      /\ status = "lexing" /\ mode' = "normal"
  BY EnteredLexes, SignsAreNotSuspended DEF LexOpen, Lexing
<1>2. Reading = Promise!Bracket(OpenKind, pos)
  BY <1>1, ReadingOfSigns DEF LexOpen
<1>3. OpenKind \in {"lparen", "lbracket"}
  BY DEF LexOpen, OpenKind, General
<1>4. /\ fed \in Nat /\ pos \in Nat /\ pos < fed /\ fed <= Len(input)
      /\ depth \in 0..MaxDepth /\ Len(input) \in Nat
  BY <1>1, EnteredLexes DEF Lexes
<1>5. CASE depth >= MaxDepth
  <2>1. depth = MaxDepth
    BY <1>4, <1>5, LimitsAre
  <2>2. Reading = Promise!Bad("nesting_too_deep", pos)
    BY <1>2, <1>3, <2>1 DEF Promise!Bracket
  <2>3. Fails("nesting_too_deep", pos)
    BY <1>5 DEF LexOpen
  <2>4. pos \in 0..Len(input) /\ "nesting_too_deep" \in ErrorKinds
    BY <1>4 DEF ErrorKinds
  <2> QED
    BY <1>1, <2>2, <2>3, <2>4, RefusesBy
<1>6. CASE ~(depth >= MaxDepth)
  <2>1. depth # MaxDepth /\ depth + 1 \in 0..MaxDepth /\ pos + 1 <= fed
    BY <1>4, <1>6, LimitsAre
  <2>2. Reading = Promise!Good(OpenKind, 1, 0)
    BY <1>2, <1>3, <2>1 DEF Promise!Bracket
  <2>3. /\ depth' = depth + 1
        /\ Emit(OpenKind, 1, 0)
        /\ lineStart' = FALSE
        /\ UNCHANGED <<inputVars, scan, literal, error>>
    BY <1>6 DEF LexOpen
  <2>4. OpenKind # "none" /\ OpenKind # "literal_begin" /\ OpenKind # "eol"
    BY <1>3
  <2>5. depth' = Promise!DepthAfter(OpenKind) /\ depth' \in 0..MaxDepth
    BY <1>3, <2>1, <2>3 DEF Promise!DepthAfter
  <2>6. scan' = NoScan /\ literal' = NoLiteral /\ lineStart' = (OpenKind = "eol")
    BY <1>1, <2>3, <2>4
  <2> HIDE DEF OpenKind
  <2> QED
    BY <1>1, <2>1, <2>2, <2>3, <2>4, <2>5, <2>6, GivesBy
<1> QED
  BY <1>5, <1>6

LEMMA CloseOutcome ==
    ASSUME Inv, LexClose
    PROVE  Outcome
<1>1. /\ Lexes /\ scan = NoScan /\ literal = NoLiteral
      /\ status = "lexing" /\ mode' = "normal"
  BY EnteredLexes, SignsAreNotSuspended DEF LexClose, Lexing
<1>2. Reading = Promise!Bracket(CloseKind, pos)
  BY <1>1, ReadingOfSigns DEF LexClose
<1>3. CloseKind \in {"rparen", "rbracket"}
  BY DEF LexClose, CloseKind, General
<1>4. /\ fed \in Nat /\ pos \in Nat /\ pos < fed
      /\ depth \in 0..MaxDepth
  BY <1>1 DEF Lexes
<1>5. Reading = Promise!Good(CloseKind, 1, 0)
  BY <1>2, <1>3 DEF Promise!Bracket
<1>6. /\ depth' = DepthOutside
      /\ Emit(CloseKind, 1, 0)
      /\ lineStart' = FALSE
      /\ UNCHANGED <<inputVars, scan, literal, error>>
  BY DEF LexClose
<1>7. Promise!DepthAfter(CloseKind) = DepthOutside
  BY <1>3, PromisedExtremes DEF Promise!DepthAfter, DepthOutside
<1>8. DepthOutside \in 0..MaxDepth
  <2>1. DepthOutside = IF depth - 1 >= 0 THEN depth - 1 ELSE 0
    BY <1>4, MaxOfTwo DEF DepthOutside
  <2> QED
    BY <1>4, <2>1, LimitsAre
<1>9. CloseKind # "none" /\ CloseKind # "literal_begin" /\ CloseKind # "eol" /\ pos + 1 <= fed
  BY <1>3, <1>4
<1>10. scan' = NoScan /\ literal' = NoLiteral /\ lineStart' = (CloseKind = "eol")
  BY <1>1, <1>6, <1>9
<1> QED
  BY <1>1, <1>5, <1>6, <1>7, <1>8, <1>9, <1>10, GivesBy

LEMMA TildeOutcome ==
    ASSUME Inv, LexTilde
    PROVE  Outcome
<1>1. Lexes /\ status = "lexing" /\ mode' = "normal"
  BY EnteredLexes DEF LexTilde, Lexing
<1>2. fed \in Nat /\ pos \in Nat /\ pos + 1 = fed /\ At(pos) = "~" /\ ~finished
  BY <1>1 DEF Lexes, LexTilde, TildeWaits
<1>3. \A o \in pos..(fed - 1) : At(o) # "lf"
  <2>1. \A o \in pos..(fed - 1) : o = pos
    BY <1>2
  <2> QED
    BY <1>2, <2>1
<1>4. fed - pos <= MaxToken
  BY <1>2, LimitsAre
<1> QED
  BY <1>1, <1>2, <1>3, <1>4 DEF LexTilde, Outcome, Waits

LEMMA ControlOutcome ==
    ASSUME Inv, LexControl
    PROVE  Outcome
<1>1. Lexes /\ status = "lexing" /\ mode' = "normal" /\ Len(input) \in Nat
  BY EnteredLexes DEF LexControl, Lexing
<1>2. Reading = Promise!Bad("invalid_character", pos)
  BY <1>1, ReadingOfSigns DEF LexControl
<1>3. pos \in 0..Len(input) /\ "invalid_character" \in ErrorKinds
  BY <1>1 DEF Lexes, ErrorKinds
<1> QED
  BY <1>1, <1>2, <1>3, RefusesBy DEF LexControl

-----------------------------------------------------------------------------
(* Atoms and text.                                                         *)

\* A run that is examined from a place on, what is before it being known.
LEMMA RunGoesOn ==
    ASSUME input \in Inputs, fed \in Nat, fed <= Len(input),
           NEW S, NEW o \in Nat, NEW p \in Nat, o <= p, p <= fed,
           \A i \in o..(p - 1) : At(i) \in S
    PROVE  /\ RunEnd(p, S) \in p..fed
           /\ \A i \in o..(RunEnd(p, S) - 1) : At(i) \in S
           /\ RunEnd(p, S) < fed => At(RunEnd(p, S)) \notin S
           /\ Promise!RunEnd(o, S) \in RunEnd(p, S)..Len(input)
           /\ RunEnd(p, S) < fed \/ fed = Len(input) =>
                Promise!RunEnd(o, S) = RunEnd(p, S)
<1> DEFINE e == RunEnd(p, S)
<1>1. /\ e \in p..fed
      /\ \A i \in p..(e - 1) : At(i) \in S
      /\ e < fed => At(e) \notin S
  BY RunEndProperties
<1> HIDE DEF e
<1>2. Len(input) \in Nat
  BY InputIsSeq
<1>3. \A i \in o..(e - 1) : At(i) \in S
  <2>1. \A i \in o..(e - 1) : i \in o..(p - 1) \/ i \in p..(e - 1)
    BY <1>1
  <2> QED
    BY <1>1, <2>1
<1>4. e \in Nat /\ o <= e /\ e <= Len(input)
  BY <1>1, <1>2
<1>5. /\ Promise!RunEnd(o, S) \in e..Len(input)
      /\ e = Len(input) \/ At(e) \notin S => Promise!RunEnd(o, S) = e
  BY <1>3, <1>4, WholeRun
<1>6. e < fed \/ fed = Len(input) => e = Len(input) \/ At(e) \notin S
  BY <1>1, <1>2
<1>7. e < fed \/ fed = Len(input) => Promise!RunEnd(o, S) = e
  BY <1>5, <1>6
<1> QED
  BY <1>1, <1>3, <1>5, <1>7 DEF e

LEMMA AtomSoFar ==
    ASSUME Inv, status = "lexing", IsAtom
    PROVE  /\ scan.len \in 0..MaxToken /\ pos + scan.len <= fed
           /\ \A i \in pos..(pos + scan.len - 1) : At(i) \in AtomChars(mode)
           /\ At(pos) \in AtomChars(mode)
<1>0. Lexes /\ At(pos) \in AtomChars(mode)
      /\ At(pos) \notin {"quote", "{"}
  <2>1. At(pos) \in AtomChars(mode)
    BY AtomCharsAre DEF IsAtom
  <2>2. AtomChars(mode) \subseteq Promise!AtomChars \cup {"[", "]"}
    BY AtomCharsAre
  <2>3. At(pos) \in Promise!AtomChars \cup {"[", "]"}
    BY <2>1, <2>2
  <2> QED
    BY <2>1, <2>3, EnteredLexes, SignsAreNotAtomChars
<1>1. CASE ~scan.on
  <2>1. scan.len = 0
    BY <1>1 DEF Inv, Scanning, NoScan
  <2>2. pos \in Nat /\ pos + 0 <= fed /\ pos..(pos + 0 - 1) = {}
    <3>1. Lexes
      BY <1>0
    <3> QED
      BY <3>1 DEF Lexes
  <2>3. 0 \in 0..MaxToken
    BY LimitsAre
  <2> QED
    BY <1>0, <2>1, <2>2, <2>3
<1>2. CASE scan.on
  <2>1. Half(scan) /\ scan.mode = mode
    BY <1>2, EnteredLexes DEF Inv, Scanning
  <2>2. scan.len \in 0..MaxToken /\ pos + scan.len <= fed /\ scan.len > 0
    BY <2>1 DEF Half
  <2>3. HalfAtom(scan)
    <3>1. ~HalfQuoted(scan) /\ ~HalfHeader(scan)
      BY <1>0 DEF HalfQuoted, HalfHeader
    <3>2. ~HalfText(scan)
      <4> SUFFICES ASSUME HalfText(scan) PROVE FALSE
        OBVIOUS
      <4>1. mode \notin GeneralModes
        BY <2>1 DEF HalfText
      <4>2. mode = "code_name" /\ At(pos) \in AtomChars("normal")
        BY <4>1 DEF IsAtom, General, GeneralModes
      <4> QED
        BY <2>1, <4>2 DEF HalfText
    <3> QED
      BY <2>1, <3>1, <3>2 DEF Half
  <2> QED
    BY <1>0, <2>1, <2>2, <2>3 DEF HalfAtom
<1> QED
  BY <1>1, <1>2

\* What the promise reads of an atom whose end is known.
LEMMA WordIs ==
    ASSUME input \in Inputs, pos \in Nat, NEW end \in Nat, pos < end, end - pos <= MaxToken,
           Promise!RunEnd(pos, Promise!AtomChars) = end
    PROVE  LET len == end - pos
               isNil == len = 1 /\ At(pos) = "N"
               isNumber == \A i \in pos..(end - 1) : At(i) \in Digits
           IN  /\ ~isNil /\ ~isNumber => Promise!Word(pos) = Promise!Good("atom", len, 0)
               /\ isNil => Promise!Word(pos) = Promise!Good("nil", len, 0)
               /\ ~isNil /\ isNumber /\ Refused(pos, end) # {} =>
                    Promise!Word(pos) = Promise!Bad("number_too_large", Min(Refused(pos, end)))
               /\ ~isNil /\ isNumber /\ Refused(pos, end) = {} =>
                    Promise!Word(pos) = Promise!Good("number", len, Values(pos, end)[end])
<1> DEFINE isNil == end - pos = 1 /\ At(pos) = "N"
           isNumber == \A i \in pos..(end - 1) : At(i) \in Digits
<1>1. ~(end - pos > MaxToken)
  BY LimitsAre
<1>2. isNumber <=> \A i \in pos..(end - 1) : Promise!At(i) \in Promise!Digits
  BY DEF Digits, At, Promise!At
<1>3. isNil <=> end = pos + 1 /\ Promise!At(pos) = "N"
  BY DEF At, Promise!At
<1>4. isNil => ~isNumber
  <2> SUFFICES ASSUME isNil, isNumber PROVE FALSE
    OBVIOUS
  <2>1. pos \in pos..(end - 1)
    OBVIOUS
  <2>2. "N" \in Digits
    BY <2>1
  <2> QED
    BY <2>2 DEF Digits, Promise!Digits
<1>5. Promise!Run("atom", pos, Promise!AtomChars) = Promise!Good("atom", end - pos, 0)
  BY <1>1 DEF Promise!Run
<1>6. Promise!Word(pos) =
        IF ~isNumber
          THEN IF isNil THEN Promise!Good("nil", 1, 0)
                        ELSE Promise!Run("atom", pos, Promise!AtomChars)
          ELSE IF Promise!TooLarge(pos, end) # {}
            THEN Promise!Bad("number_too_large", Min(Promise!TooLarge(pos, end)))
          ELSE Promise!Good("number", end - pos, Promise!Value(pos, end))
  <2> HIDE DEF isNil, isNumber
  <2> QED
    BY <1>1, <1>2, <1>3, PromisedExtremes DEF Promise!Word
<1>7. isNumber => Promise!TooLarge(pos, end) = Refused(pos, end)
  BY RefusedIsTooLarge DEF Promise!TooLarge
<1>8. isNumber => Promise!Value(pos, end) = Values(pos, end)[end]
  <2>1. end \in pos..end
    OBVIOUS
  <2> QED
    BY <2>1, PromisedValue
<1>9. isNil => end - pos = 1
  OBVIOUS
<1> HIDE DEF isNumber, isNil
<1>10. ~isNil /\ ~isNumber => Promise!Word(pos) = Promise!Good("atom", end - pos, 0)
  BY <1>5, <1>6
<1>11. isNil => Promise!Word(pos) = Promise!Good("nil", end - pos, 0)
  BY <1>4, <1>6, <1>9
<1>12. ~isNil /\ isNumber /\ Refused(pos, end) # {} =>
         Promise!Word(pos) = Promise!Bad("number_too_large", Min(Refused(pos, end)))
  BY <1>6, <1>7
<1>13. ~isNil /\ isNumber /\ Refused(pos, end) = {} =>
         Promise!Word(pos) = Promise!Good("number", end - pos, Values(pos, end)[end])
  BY <1>6, <1>7, <1>8
<1> QED
  BY <1>10, <1>11, <1>12, <1>13 DEF isNil, isNumber

LEMMA AtomOutcome ==
    ASSUME Inv, LexAtom
    PROVE  Outcome
<1> DEFINE S == AtomChars(mode)
           p == pos + scan.len
           end == RunEnd(p, S)
           len == end - pos
           isNil == len = 1 /\ At(pos) = "N"
           isNumber == \A i \in pos..(end - 1) : At(i) \in Digits
           refused == Refused(pos, end)
           E == Promise!RunEnd(pos, S)
<1>1. /\ Lexes /\ status = "lexing" /\ mode' = "normal" /\ IsAtom
      /\ Len(input) \in Nat
  BY EnteredLexes DEF LexAtom, Lexing
<1>2. IF AtomTooLong(end) THEN Fails("token_too_long", pos)
      ELSE IF end = fed /\ ~finished THEN Suspend(len, FALSE)
      ELSE IF mode # "normal" \/ ~(isNil \/ isNumber)
        THEN Completes("atom", len, 0) /\ UNCHANGED literal
      ELSE IF isNil THEN Completes("nil", len, 0) /\ UNCHANGED literal
      ELSE IF refused # {}
        THEN /\ Fail("number_too_large", Min(refused))
             /\ spaces' = 0
             /\ UNCHANGED <<inputVars, pos, lineStart, depth, scan, literal, token>>
      ELSE Completes("number", len, Values(pos, end)[end]) /\ UNCHANGED literal
  BY DEF LexAtom
<1>3. /\ scan.len \in 0..MaxToken /\ pos + scan.len <= fed
      /\ \A i \in pos..(pos + scan.len - 1) : At(i) \in S
      /\ At(pos) \in S
  BY <1>1, AtomSoFar
<1>4. /\ fed \in Nat /\ pos \in Nat /\ pos < fed /\ fed <= Len(input)
      /\ input \in Inputs /\ (finished => fed = Len(input)) /\ finished \in BOOLEAN
      /\ mode \in Modes
  BY <1>1 DEF Lexes
<1> HIDE DEF S
<1>5. /\ end \in p..fed
      /\ \A i \in pos..(end - 1) : At(i) \in S
      /\ end < fed => At(end) \notin S
      /\ E \in end..Len(input)
      /\ end < fed \/ fed = Len(input) => E = end
  <2>1. p \in Nat /\ pos <= p /\ p <= fed /\ \A i \in pos..(p - 1) : At(i) \in S
    BY <1>3, <1>4
  <2> HIDE DEF p
  <2> QED
    BY <1>4, <2>1, RunGoesOn
<1> HIDE DEF end, E
<1>6. end \in Nat /\ pos < end /\ end <= fed
  <2>1. end \in Nat /\ pos <= end /\ end <= fed
    BY <1>3, <1>4, <1>5
  <2>2. end # pos
    BY <1>3, <1>4, <1>5
  <2> QED
    BY <1>4, <2>1, <2>2
<1>7. /\ Reading = IF mode = "normal" THEN Promise!Word(pos)
                                      ELSE Promise!Run("atom", pos, S)
      /\ mode = "normal" => S = Promise!AtomChars
  BY <1>1, ReadingOfAtom, AtomCharsAre DEF S
<1>8. CASE AtomTooLong(end)
  <2>1. E \in Nat /\ E - pos > MaxToken /\ E # pos + 1
    BY <1>4, <1>5, <1>6, <1>8, LimitsAre DEF AtomTooLong
  <2>2. Promise!Run("atom", pos, S) = Promise!Bad("token_too_long", pos)
    BY <2>1 DEF Promise!Run, E
  <2>3. mode = "normal" => Promise!Word(pos) = Promise!Run("atom", pos, S)
    BY <1>7, <2>1 DEF Promise!Word, E
  <2>4. Reading = Promise!Bad("token_too_long", pos)
    BY <1>7, <2>2, <2>3
  <2>5. pos \in 0..Len(input) /\ "token_too_long" \in ErrorKinds
    BY <1>1, <1>4 DEF ErrorKinds
  <2> QED
    BY <1>1, <1>2, <1>8, <2>4, <2>5, RefusesBy
<1>9. CASE ~AtomTooLong(end) /\ end = fed /\ ~finished
  <2>1. Suspend(len, FALSE)
    BY <1>2, <1>9
  <2>2. len \in 1..MaxToken /\ pos + len = end
    BY <1>4, <1>6, <1>9, LimitsAre DEF AtomTooLong
  <2> HIDE DEF len
  <2>3. scan' = [on |-> TRUE, mode |-> mode, len |-> len, escape |-> FALSE]
    BY <2>1 DEF Suspend
  <2> DEFINE s == [on |-> TRUE, mode |-> mode, len |-> len, escape |-> FALSE]
  <2>4. HalfAtom(s)
    <3>1. mode \in GeneralModes \cup {"code_name"}
      BY <1>1 DEF IsAtom, General, GeneralModes
    <3>2. \A i \in pos..(pos + len - 1) : At(i) \in AtomChars(mode)
      <4>1. pos + len - 1 = end - 1
        BY <2>2, <1>4, <1>6, LimitsAre
      <4> QED
        BY <1>5, <4>1 DEF S
    <3> QED
      BY <3>1, <3>2 DEF HalfAtom
  <2>5. Half(s)
    <3>1. s \in [on : BOOLEAN, mode : Modes, len : 0..MaxToken, escape : BOOLEAN]
      BY <1>4, <2>2, LimitsAre
    <3>2. s.len > 0 /\ pos + s.len <= fed
      BY <1>6, <2>2
    <3> QED
      BY <1>1, <2>4, <3>1, <3>2 DEF Half, Lexes
  <2>6. \A o \in pos..(fed - 1) : At(o) # "lf"
    <3>1. "lf" \notin S
      BY DEF S, AtomChars
    <3> QED
      BY <1>5, <1>9, <3>1
  <2>7. fed - pos <= MaxToken
    BY <1>9, <2>2, <1>4, LimitsAre
  <2>8. scan' = scan \/ (scan'.on /\ Half(scan'))
    BY <2>3, <2>5
  <2>9. Waits
    BY <1>9, <2>1, <2>6, <2>7, <2>8 DEF Waits, Suspend
  <2> QED
    BY <1>1, <2>9 DEF Outcome
<1>10. CASE ~AtomTooLong(end) /\ ~(end = fed /\ ~finished)
  <2>1. E = end /\ ~(end - pos > MaxToken) /\ len \in Nat /\ pos + len <= fed
    BY <1>4, <1>5, <1>6, <1>10 DEF AtomTooLong
  <2>2. mode = "normal" => Promise!RunEnd(pos, Promise!AtomChars) = end
    BY <1>7, <2>1 DEF E
  <2>3. CASE mode # "normal"
    <3>1. Reading = Promise!Good("atom", len, 0)
      BY <1>7, <2>1, <2>3 DEF Promise!Run, E
    <3>2. Completes("atom", len, 0) /\ UNCHANGED literal
      BY <1>2, <1>10, <2>3
    <3> HIDE DEF len
    <3> QED
      BY <1>1, <2>1, <3>1, <3>2, GivesPlain
  <2>4. CASE mode = "normal"
    <3>1. Reading = Promise!Word(pos)
      BY <1>7, <2>4
    <3>2. end - pos <= MaxToken
      BY <2>1, LimitsAre
    <3>3. /\ ~isNil /\ ~isNumber => Reading = Promise!Good("atom", len, 0)
          /\ isNil => Reading = Promise!Good("nil", len, 0)
          /\ ~isNil /\ isNumber /\ refused # {} =>
               Reading = Promise!Bad("number_too_large", Min(refused))
          /\ ~isNil /\ isNumber /\ refused = {} =>
               Reading = Promise!Good("number", len, Values(pos, end)[end])
      BY <1>4, <1>6, <2>2, <2>4, <3>1, <3>2, WordIs
    <3> HIDE DEF isNil, isNumber, len, refused
    <3>4. CASE ~isNil /\ ~isNumber
      <4>1. Completes("atom", len, 0) /\ UNCHANGED literal
        BY <1>2, <1>10, <3>4
      <4> QED
        BY <1>1, <2>1, <3>3, <3>4, <4>1, GivesPlain
    <3>5. CASE isNil
      <4>1. Completes("nil", len, 0) /\ UNCHANGED literal
        BY <1>2, <1>10, <2>4, <3>5
      <4> QED
        BY <1>1, <2>1, <3>3, <3>5, <4>1, GivesPlain
    <3>6. CASE ~isNil /\ isNumber /\ refused = {}
      <4>1. Completes("number", len, Values(pos, end)[end]) /\ UNCHANGED literal
        BY <1>2, <1>10, <2>4, <3>6
      <4> QED
        BY <1>1, <2>1, <3>3, <3>6, <4>1, GivesPlain
    <3>7. CASE ~isNil /\ isNumber /\ refused # {}
      <4>1. /\ Fail("number_too_large", Min(refused))
            /\ spaces' = 0
            /\ UNCHANGED <<inputVars, pos, lineStart, depth, scan, literal, token>>
        BY <1>2, <1>10, <2>4, <3>7
      <4>2. Reading = Promise!Bad("number_too_large", Min(refused))
        BY <3>3, <3>7
      <4>3. Min(refused) \in 0..Len(input)
        <5>1. refused \in SUBSET (pos..(end - 1))
          BY DEF refused, Refused
        <5>2. refused \in SUBSET Nat
          BY <1>4, <5>1
        <5>3. Min(refused) \in refused
          BY <3>7, <5>2, MinOfNats
        <5>4. Min(refused) \in pos..(end - 1)
          BY <5>1, <5>3
        <5> QED
          BY <1>1, <1>4, <1>6, <5>4
      <4>4. Reading.bad /\ Reading.kind = "number_too_large" /\ Reading.at = Min(refused)
        BY <4>2 DEF Promise!Bad
      <4>5. Refuses(Reading)
        BY <4>1, <4>3, <4>4 DEF Refuses, ErrorKinds
      <4> QED
        BY <1>1, <4>5 DEF Outcome
    <3> QED
      BY <3>4, <3>5, <3>6, <3>7
  <2> QED
    BY <2>3, <2>4
<1> QED
  BY <1>8, <1>9, <1>10

LEMMA TextSoFar ==
    ASSUME Inv, status = "lexing", IsText
    PROVE  /\ scan.len \in 0..MaxToken /\ pos + scan.len <= fed
           /\ \A i \in pos..(pos + scan.len - 1) :
                 At(i) \in Promise!Characters \ (TextStops \cup {"nul"})
           /\ At(pos) \notin TextStops
           /\ mode \notin GeneralModes
           /\ mode = "resp_text" => At(pos) # "["
           /\ mode = "code_name" => At(pos) \notin AtomChars("normal")
<1>0. Lexes
  BY EnteredLexes
<1>1. /\ mode \notin GeneralModes
      /\ mode = "resp_text" => At(pos) # "["
      /\ mode = "code_name" => At(pos) \notin AtomChars("normal")
      /\ At(pos) \notin TextStops
  BY <1>0 DEF IsText, IsEol, General, GeneralModes, OpenKind, CloseKind, IsAtom, TextStops
<1>2. CASE ~scan.on
  <2>1. scan.len = 0
    BY <1>2 DEF Inv, Scanning, NoScan
  <2>2. pos \in Nat /\ pos + 0 <= fed /\ pos..(pos + 0 - 1) = {}
    BY <1>0 DEF Lexes
  <2>3. 0 \in 0..MaxToken
    BY LimitsAre
  <2> QED
    BY <1>1, <2>1, <2>2, <2>3
<1>3. CASE scan.on
  <2>1. Half(scan) /\ scan.mode = mode
    BY <1>3, EnteredLexes DEF Inv, Scanning
  <2>2. scan.len \in 0..MaxToken /\ pos + scan.len <= fed /\ scan.len > 0
    BY <2>1 DEF Half
  <2>3. HalfText(scan)
    <3>1. ~HalfQuoted(scan) /\ ~HalfHeader(scan)
      BY <1>1, <2>1 DEF HalfQuoted, HalfHeader
    <3>2. ~HalfAtom(scan)
      <4> SUFFICES ASSUME HalfAtom(scan) PROVE FALSE
        OBVIOUS
      <4>1. mode = "code_name"
        BY <1>1, <2>1 DEF HalfAtom
      <4>2. pos \in pos..(pos + scan.len - 1)
        BY <1>0, <2>2, LimitsAre DEF Lexes
      <4>3. At(pos) \in AtomChars(mode)
        BY <2>1, <4>2 DEF HalfAtom
      <4>4. AtomChars(mode) = AtomChars("normal")
        BY <4>1, AtomCharsAre
      <4> QED
        BY <1>1, <4>1, <4>3, <4>4
    <3> QED
      BY <2>1, <3>1, <3>2 DEF Half
  <2>4. ASSUME NEW i \in pos..(pos + scan.len - 1)
        PROVE  At(i) \in Promise!Characters \ (TextStops \cup {"nul"})
    <3>1. i \in 0..(Len(input) - 1)
      BY <1>0, <2>2, LimitsAre, InputIsSeq DEF Lexes
    <3>2. At(i) \in Promise!Characters
      BY <1>0, <3>1, InputIsSeq DEF Lexes
    <3>3. At(i) \notin TextStops \cup {"nul"}
      BY <2>1, <2>3 DEF HalfText, TextStops
    <3> QED
      BY <3>2, <3>3
  <2> QED
    BY <1>1, <2>2, <2>4
<1> QED
  BY <1>2, <1>3

LEMMA TextOutcome ==
    ASSUME Inv, LexText
    PROVE  Outcome
<1> DEFINE S == Promise!Characters \ (TextStops \cup {"nul"})
           p == pos + scan.len
           end == RunEnd(p, S)
           len == end - pos
           atNul == end < fed /\ At(end) = "nul"
           E == Promise!RunEnd(pos, S)
<1>1. /\ Lexes /\ status = "lexing" /\ mode' = "normal" /\ IsText
      /\ Len(input) \in Nat
  BY EnteredLexes DEF LexText, Lexing
<1>2. IF len > MaxToken \/ (len = MaxToken /\ atNul)
        THEN Fails("token_too_long", pos)
      ELSE IF atNul THEN Fails("invalid_character", end)
      ELSE IF end = fed /\ ~finished THEN Suspend(len, FALSE)
      ELSE Completes("text", len, 0) /\ UNCHANGED literal
  BY DEF LexText, TextStops
<1>3. /\ scan.len \in 0..MaxToken /\ pos + scan.len <= fed
      /\ \A i \in pos..(pos + scan.len - 1) : At(i) \in S
      /\ mode \notin GeneralModes
      /\ mode = "resp_text" => At(pos) # "["
      /\ mode = "code_name" => At(pos) \notin AtomChars("normal")
  BY <1>1, TextSoFar
<1>4. /\ fed \in Nat /\ pos \in Nat /\ pos < fed /\ fed <= Len(input)
      /\ input \in Inputs /\ (finished => fed = Len(input)) /\ finished \in BOOLEAN
      /\ mode \in Modes
  BY <1>1 DEF Lexes
<1> HIDE DEF S
<1>5. /\ end \in p..fed
      /\ \A i \in pos..(end - 1) : At(i) \in S
      /\ E \in end..Len(input)
      /\ end < fed \/ fed = Len(input) => E = end
  <2>1. p \in Nat /\ pos <= p /\ p <= fed /\ \A i \in pos..(p - 1) : At(i) \in S
    BY <1>3, <1>4
  <2> HIDE DEF p
  <2> QED
    BY <1>4, <2>1, RunGoesOn
<1> HIDE DEF end, E
<1>6. end \in Nat /\ pos <= end /\ end <= fed /\ len \in Nat /\ pos + len = end
      /\ E \in Nat /\ end <= E /\ E <= Len(input)
  BY <1>1, <1>3, <1>4, <1>5
<1>7. Reading = IF E - pos > MaxToken
                   \/ (E - pos = MaxToken /\ E < Len(input) /\ At(E) = "nul")
                  THEN Promise!Bad("token_too_long", pos)
                ELSE IF E < Len(input) /\ At(E) = "nul"
                  THEN Promise!Bad("invalid_character", E)
                ELSE Promise!Good("text", E - pos, 0)
  <2>1. Reading = Promise!Text(pos, TextStops)
    BY <1>1, ReadingOfText
  <2> QED
    BY <2>1 DEF Promise!Text, Promise!At, At, Promise!Length, E, S
<1>8. pos \in 0..Len(input) /\ end \in 0..Len(input)
      /\ "token_too_long" \in ErrorKinds /\ "invalid_character" \in ErrorKinds
  BY <1>1, <1>4, <1>6 DEF ErrorKinds
<1>9. atNul => E = end /\ E < Len(input) /\ At(E) = "nul"
  BY <1>1, <1>4, <1>5, <1>6
<1> HIDE DEF len
<1>10. CASE len > MaxToken \/ (len = MaxToken /\ atNul)
  <2>1. Fails("token_too_long", pos)
    BY <1>2, <1>10
  <2>2. E - pos > MaxToken \/ (E - pos = MaxToken /\ E < Len(input) /\ At(E) = "nul")
    BY <1>4, <1>6, <1>9, <1>10, LimitsAre
  <2>3. Reading = Promise!Bad("token_too_long", pos)
    BY <1>7, <2>2
  <2> QED
    BY <1>1, <1>8, <2>1, <2>3, RefusesBy
<1>11. CASE ~(len > MaxToken \/ (len = MaxToken /\ atNul)) /\ atNul
  <2>1. Fails("invalid_character", end)
    BY <1>2, <1>11
  <2>2. E - pos = len
    BY <1>4, <1>6, <1>9, <1>11
  <2>3. Reading = Promise!Bad("invalid_character", end)
    BY <1>7, <1>9, <1>11, <2>2
  <2> QED
    BY <1>1, <1>8, <2>1, <2>3, RefusesBy
<1>12. CASE ~(len > MaxToken) /\ ~atNul /\ end = fed /\ ~finished
  <2>1. Suspend(len, FALSE)
    BY <1>2, <1>12
  <2>2. len \in 1..MaxToken
    BY <1>4, <1>6, <1>12, LimitsAre
  <2>3. scan' = [on |-> TRUE, mode |-> mode, len |-> len, escape |-> FALSE]
    BY <2>1 DEF Suspend
  <2> DEFINE s == [on |-> TRUE, mode |-> mode, len |-> len, escape |-> FALSE]
  <2>4. HalfText(s)
    <3>1. ASSUME NEW i \in pos..(pos + len - 1)
          PROVE  At(i) \notin {"cr", "lf", "nul"} \cup
                     IF mode \in {"code_name", "code_text"} THEN {"]"} ELSE {}
      <4>1. i \in pos..(end - 1)
        BY <1>4, <1>6
      <4>2. At(i) \in S
        BY <1>5, <4>1
      <4> QED
        BY <4>2 DEF S, TextStops
    <3> QED
      BY <1>3, <3>1 DEF HalfText
  <2>5. Half(s)
    <3>1. s \in [on : BOOLEAN, mode : Modes, len : 0..MaxToken, escape : BOOLEAN]
      BY <1>4, <2>2, LimitsAre
    <3>2. s.len > 0 /\ pos + s.len <= fed
      BY <1>6, <2>2
    <3> QED
      BY <1>1, <2>4, <3>1, <3>2 DEF Half, Lexes
  <2>6. \A o \in pos..(fed - 1) : At(o) # "lf"
    <3>1. "lf" \notin S
      BY DEF S, TextStops
    <3> QED
      BY <1>5, <1>12, <3>1
  <2>7. fed - pos <= MaxToken
    BY <1>4, <1>6, <1>12, <2>2, LimitsAre
  <2>8. scan' = scan \/ (scan'.on /\ Half(scan'))
    BY <2>3, <2>5
  <2>9. Waits
    BY <1>12, <2>1, <2>6, <2>7, <2>8 DEF Waits, Suspend
  <2> QED
    BY <1>1, <2>9 DEF Outcome
<1>13. CASE ~(len > MaxToken) /\ ~atNul /\ ~(end = fed /\ ~finished)
  <2>1. Completes("text", len, 0) /\ UNCHANGED literal
    BY <1>2, <1>13
  <2>2. E = end
    BY <1>4, <1>5, <1>6, <1>13
  <2>3. E - pos = len /\ ~(E - pos > MaxToken) /\ pos + len <= fed
    BY <1>4, <1>6, <1>13, <2>2
  <2>4. ~(E < Len(input) /\ At(E) = "nul")
    BY <1>1, <1>4, <1>6, <1>13, <2>2
  <2>5. Reading = Promise!Good("text", len, 0)
    BY <1>7, <2>3, <2>4
  <2> QED
    BY <1>1, <1>6, <2>1, <2>3, <2>5, GivesPlain
<1> QED
  BY <1>10, <1>11, <1>12, <1>13

-----------------------------------------------------------------------------
(* Quoted strings.                                                         *)

LEMMA QuotedSoFar ==
    ASSUME Inv, status = "lexing", General, At(pos) = "quote",
           NEW start, start = pos + Max({scan.len, 1})
    PROVE  /\ start \in (pos + 1)..fed /\ start - pos <= MaxToken
           /\ (scan.len > 0 /\ scan.escape) = Promise!Escaped(pos, start)
           /\ \A i \in (pos + 1)..(start - 1) : ~QuoteEnds(i)
<1>1. Lexes /\ mode \in GeneralModes
  BY EnteredLexes DEF General, GeneralModes
<1>2. fed \in Nat /\ pos \in Nat /\ pos < fed
  BY <1>1 DEF Lexes
<1>3. Promise!Escaped(pos, pos + 1) = FALSE
  BY <1>2, EscapedStepwise DEF Promise!Escaped
<1>4. CASE ~scan.on
  <2>1. scan.len = 0
    BY <1>4 DEF Inv, Scanning, NoScan
  <2>2. start = pos + 1
    <3>1. Max({0, 1}) = 1
      BY MaxOfTwo
    <3> QED
      BY <2>1, <3>1
  <2>3. (scan.len > 0 /\ scan.escape) = FALSE
    BY <2>1
  <2>4. (pos + 1)..(start - 1) = {} /\ start \in (pos + 1)..fed /\ start - pos <= MaxToken
    BY <1>2, <2>2, LimitsAre
  <2> QED
    BY <1>3, <2>2, <2>3, <2>4
<1>5. CASE scan.on
  <2>1. Half(scan) /\ scan.mode = mode
    BY <1>5, EnteredLexes DEF Inv, Scanning
  <2>2. scan.len \in 1..MaxToken /\ pos + scan.len <= fed /\ scan.escape \in BOOLEAN
    BY <2>1, LimitsAre DEF Half
  <2>3. HalfQuoted(scan)
    <3>1. ~HalfHeader(scan) /\ ~HalfText(scan)
      BY <1>1, <2>1 DEF HalfHeader, HalfText
    <3>2. ~HalfAtom(scan)
      <4> SUFFICES ASSUME HalfAtom(scan) PROVE FALSE
        OBVIOUS
      <4>1. pos \in pos..(pos + scan.len - 1)
        BY <1>2, <2>2, LimitsAre
      <4>2. At(pos) \in AtomChars(mode)
        BY <2>1, <4>1 DEF HalfAtom
      <4> QED
        BY <4>2 DEF AtomChars
    <3> QED
      BY <2>1, <3>1, <3>2 DEF Half
  <2>4. start = pos + scan.len
    <3>1. scan.len \in Int /\ scan.len >= 1
      BY <2>2
    <3>2. Max({scan.len, 1}) = scan.len
      BY <3>1, MaxOfTwo
    <3> QED
      BY <3>2
  <2>5. (scan.len > 0 /\ scan.escape) = scan.escape
    BY <2>2
  <2>6. start \in (pos + 1)..fed /\ start - pos <= MaxToken
    BY <1>2, <2>2, <2>4, LimitsAre
  <2>7. /\ scan.escape = Promise!Escaped(pos, pos + scan.len)
        /\ \A i \in (pos + 1)..(pos + scan.len - 1) : ~QuoteEnds(i)
    BY <2>3 DEF HalfQuoted
  <2>8. scan.escape = Promise!Escaped(pos, start)
    BY <2>4, <2>7
  <2>9. ASSUME NEW i \in (pos + 1)..(start - 1) PROVE ~QuoteEnds(i)
    <3>1. start \in Nat /\ pos \in Nat /\ scan.len \in Nat
      BY <1>2, <2>2, <2>6, LimitsAre
    <3>2. i \in Nat /\ pos + 1 <= i /\ i <= start - 1
      BY <3>1
    <3>3. i \in (pos + 1)..(pos + scan.len - 1)
      BY <2>4, <3>1, <3>2
    <3> QED
      BY <2>7, <3>3
  <2>10. (scan.len > 0 /\ scan.escape) = Promise!Escaped(pos, start)
    <3> DEFINE flag == scan.len > 0 /\ scan.escape
               escaped == Promise!Escaped(pos, start)
    <3>1. flag = scan.escape /\ scan.escape = escaped
      BY <2>5, <2>8
    <3> HIDE DEF flag, escaped
    <3>2. flag = escaped
      BY <3>1
    <3> QED
      BY <3>2 DEF flag, escaped
  <2> QED
    BY <2>6, <2>9, <2>10
<1> QED
  BY <1>4, <1>5

\* The flag that is carried along is the promise's count of backslashes.
LEMMA EscapeIsEscaped ==
    ASSUME pos \in Nat, fed \in Nat, NEW start \in (pos + 1)..fed,
           NEW first, first = Promise!Escaped(pos, start),
           NEW Escape, Escape = [i \in start..fed |->
                                    IF i = start THEN first
                                    ELSE ~Escape[i - 1] /\ At(i - 1) = "slash"]
    PROVE  \A i \in start..fed : Escape[i] = Promise!Escaped(pos, i)
<1> DEFINE S == {k \in Nat : start + k <= fed =>
                                Escape[start + k] = Promise!Escaped(pos, start + k)}
<1>1. start \in Nat /\ start > pos /\ start <= fed
  OBVIOUS
<1>2. \A i \in start..fed : Escape[i] = IF i = start THEN first
                                        ELSE ~Escape[i - 1] /\ At(i - 1) = "slash"
  <2> DEFINE Body == [i \in start..fed |-> IF i = start THEN first
                                           ELSE ~Escape[i - 1] /\ At(i - 1) = "slash"]
  <2>1. \A i \in start..fed : Body[i] = IF i = start THEN first
                                        ELSE ~Escape[i - 1] /\ At(i - 1) = "slash"
    OBVIOUS
  <2>2. Escape = Body
    OBVIOUS
  <2> HIDE DEF Body
  <2> QED
    BY <2>1, <2>2
<1>3. 0 \in S
  <2>1. start \in start..fed /\ start + 0 = start
    BY <1>1
  <2>2. Escape[start] = first
    BY <1>2, <2>1
  <2> QED
    BY <2>1, <2>2
<1>4. ASSUME NEW k \in S PROVE k + 1 \in S
  <2> SUFFICES ASSUME start + (k + 1) <= fed
               PROVE  Escape[start + (k + 1)] = Promise!Escaped(pos, start + (k + 1))
    OBVIOUS
  <2> DEFINE i == start + k
             j == start + (k + 1)
  <2>1. /\ i \in Nat /\ i > pos /\ i <= fed
        /\ j \in start..fed /\ j # start /\ j - 1 = i /\ j = i + 1
    BY <1>1
  <2>2. Escape[i] = Promise!Escaped(pos, i)
    BY <2>1
  <2> HIDE DEF i, j
  <2>3. Escape[j] = (~Escape[i] /\ At(i) = "slash")
    BY <1>2, <2>1
  <2>4. Promise!Escaped(pos, i + 1) <=> ~Promise!Escaped(pos, i) /\ At(i) = "slash"
    BY <2>1, EscapedStepwise
  <2>5. Promise!Escaped(pos, i + 1) = (~Promise!Escaped(pos, i) /\ At(i) = "slash")
    BY <2>4 DEF Promise!Escaped
  <2>6. Escape[j] = Promise!Escaped(pos, j)
    BY <2>1, <2>2, <2>3, <2>5
  <2> QED
    BY <2>6 DEF j
<1>5. S = Nat
  <2>1. S \in SUBSET Nat
    OBVIOUS
  <2> HIDE DEF S
  <2> QED
    BY <1>3, <1>4, <2>1, SetInduction
<1>6. ASSUME NEW i \in start..fed PROVE Escape[i] = Promise!Escaped(pos, i)
  <2>1. i - start \in Nat /\ start + (i - start) = i /\ i <= fed
    BY <1>1
  <2>2. i - start \in S
    <3> HIDE DEF S
    <3> QED
      BY <1>5, <2>1
  <2> QED
    BY <2>1, <2>2
<1> QED
  BY <1>6

LEMMA QuotedOutcome ==
    ASSUME Inv, LexQuoted
    PROVE  Outcome
<1> DEFINE start == pos + Max({scan.len, 1})
           Escape[i \in start..fed] ==
               IF i = start THEN scan.len > 0 /\ scan.escape
                            ELSE ~Escape[i - 1] /\ At(i - 1) = "slash"
           Halts(i) ==
               \/ i - pos >= MaxToken
               \/ IF Escape[i] THEN At(i) \notin {"quote", "slash"}
                               ELSE At(i) \in {"quote", "cr", "lf", "nul"}
           halts == {i \in start..(fed - 1) : Halts(i)} \cup {fed}
           halt == Min(halts)
<1>1. /\ Lexes /\ status = "lexing" /\ mode' = "normal"
      /\ General /\ At(pos) = "quote" /\ mode \in GeneralModes
      /\ Len(input) \in Nat
  BY EnteredLexes DEF LexQuoted, Lexing, General, GeneralModes
<1>2. IF halt = fed
        THEN IF finished THEN Fails("unexpected_end", fed)
                         ELSE Suspend(fed - pos, Escape[fed])
      ELSE IF halt - pos >= MaxToken THEN Fails("token_too_long", pos)
      ELSE IF Escape[halt] THEN Fails("bad_escape", halt)
      ELSE IF At(halt) = "quote"
        THEN Completes("quoted", halt + 1 - pos, 0) /\ UNCHANGED literal
      ELSE Fails(IF At(halt) = "nul" THEN "invalid_character"
                                     ELSE "unterminated_quoted", halt)
  BY DEF LexQuoted
<1>3. /\ start \in (pos + 1)..fed /\ start - pos <= MaxToken
      /\ (scan.len > 0 /\ scan.escape) = Promise!Escaped(pos, start)
      /\ \A i \in (pos + 1)..(start - 1) : ~QuoteEnds(i)
  BY <1>1, QuotedSoFar
<1>4. /\ fed \in Nat /\ pos \in Nat /\ pos < fed /\ fed <= Len(input)
      /\ (finished => fed = Len(input)) /\ finished \in BOOLEAN
      /\ mode \in Modes
  BY <1>1 DEF Lexes
<1>5. \A i \in start..fed : Escape[i] = Promise!Escaped(pos, i)
  <2> DEFINE first == scan.len > 0 /\ scan.escape
             Body(f) == [i \in start..fed |-> IF i = start THEN first
                                              ELSE ~f[i - 1] /\ At(i - 1) = "slash"]
             g == [i \in start..fed |-> Promise!Escaped(pos, i)]
  <2>1. first = Promise!Escaped(pos, start)
    BY <1>3
  <2>2. ASSUME NEW i \in start..fed, i # start
        PROVE  i - 1 \in start..fed /\ i - 1 \in Nat /\ i - 1 > pos /\ i - 1 + 1 = i
    <3>1. start \in Nat /\ start > pos
      BY <1>3, <1>4
    <3> HIDE DEF start
    <3> QED
      BY <1>4, <2>2, <3>1
  <2> HIDE DEF start, first
  <2>3. g = Body(g)
    <3>1. ASSUME NEW i \in start..fed
          PROVE  Promise!Escaped(pos, i) = IF i = start THEN first
                                           ELSE ~g[i - 1] /\ At(i - 1) = "slash"
      <4>1. CASE i = start
        BY <2>1, <4>1
      <4>2. CASE i # start
        <5> DEFINE j == i - 1
        <5>1. j \in start..fed /\ j \in Nat /\ j > pos /\ j + 1 = i
          BY <2>2, <4>2
        <5> HIDE DEF j
        <5>2. g[j] = Promise!Escaped(pos, j)
          BY <5>1
        <5>3. Promise!Escaped(pos, j + 1) <=> ~Promise!Escaped(pos, j) /\ At(j) = "slash"
          BY <1>4, <5>1, EscapedStepwise
        <5>4. Promise!Escaped(pos, j + 1) = (~Promise!Escaped(pos, j) /\ At(j) = "slash")
          BY <5>3 DEF Promise!Escaped
        <5>5. Promise!Escaped(pos, i) = (~g[j] /\ At(j) = "slash")
          BY <5>1, <5>2, <5>4
        <5> QED
          BY <4>2, <5>5 DEF j
      <4> QED
        BY <4>1, <4>2
    <3> QED
      BY <3>1
  <2>4. Escape = CHOOSE f : f = Body(f)
    BY DEF first
  <2> HIDE DEF Escape, g
  <2>5. Escape = Body(Escape)
    <3> HIDE DEF Body
    <3> QED
      BY <2>3, <2>4
  <2>6. start \in (pos + 1)..fed
    BY <1>3
  <2> QED
    BY <1>4, <2>1, <2>5, <2>6, EscapeIsEscaped
<1> HIDE DEF start, Escape
<1>6. halt \in halts /\ \A y \in halts : halt <= y
  <2>1. halts \in SUBSET Nat /\ halts # {}
    BY <1>3, <1>4
  <2> HIDE DEF halts
  <2> QED
    BY <2>1, MinOfNats
<1> HIDE DEF halt
<1>7. halt \in start..fed /\ halt \in Nat /\ pos < halt /\ start \in Nat
      /\ (halt < fed => Halts(halt))
  BY <1>3, <1>4, <1>6
<1>8. ASSUME NEW i \in start..fed PROVE Halts(i) <=> i - pos >= MaxToken \/ QuoteEnds(i)
  BY <1>5 DEF QuoteEnds
<1>9. ASSUME NEW i \in (pos + 1)..(halt - 1)
      PROVE  ~QuoteEnds(i) /\ i - pos < MaxToken /\ i \in Nat
  <2>1. i \in Nat /\ i < halt /\ i < fed
    BY <1>4, <1>7
  <2>2. CASE i < start
    <3>1. i \in (pos + 1)..(start - 1)
      BY <1>4, <1>7, <2>1, <2>2
    <3>2. i - pos < MaxToken
      BY <1>3, <1>4, <1>7, <2>1, <2>2, LimitsAre
    <3> QED
      BY <1>3, <2>1, <3>1, <3>2
  <2>3. CASE ~(i < start)
    <3>1. i \in start..(fed - 1) /\ i \in start..fed
      BY <1>4, <1>7, <2>1, <2>3
    <3>2. i \notin halts
      <4> HIDE DEF halts
      <4> QED
        BY <1>6, <1>7, <2>1
    <3>3. ~Halts(i)
      BY <3>1, <3>2
    <3>4. ~(i - pos >= MaxToken \/ QuoteEnds(i))
      BY <1>8, <3>1, <3>3
    <3> QED
      BY <1>4, <2>1, <3>4, LimitsAre
  <2> QED
    BY <2>2, <2>3
<1>10. halt < fed => halt - pos >= MaxToken \/ QuoteEnds(halt)
  BY <1>7, <1>8
<1> HIDE DEF halts, Halts
<1> DEFINE ends == {i \in (pos + 1)..(Len(input) - 1) : QuoteEnds(i)}
           e == IF ends = {} THEN Len(input) ELSE Min(ends)
<1>11. Reading = IF e - pos >= MaxToken /\ pos + MaxToken < Len(input)
                   THEN Promise!Bad("token_too_long", pos)
                 ELSE IF e = Len(input) THEN Promise!Bad("unexpected_end", Len(input))
                 ELSE IF Promise!Escaped(pos, e) THEN Promise!Bad("bad_escape", e)
                 ELSE IF At(e) = "quote" THEN Promise!Good("quoted", e - pos + 1, 0)
                 ELSE IF At(e) = "nul" THEN Promise!Bad("invalid_character", e)
                 ELSE Promise!Bad("unterminated_quoted", e)
  <2> DEFINE C == CASE At(e) = "quote" -> Promise!Good("quoted", e - pos + 1, 0)
                    [] At(e) = "nul" -> Promise!Bad("invalid_character", e)
                    [] OTHER -> Promise!Bad("unterminated_quoted", e)
  <2>1. Promise!Quoted(pos) =
          IF e - pos >= MaxToken /\ pos + MaxToken < Len(input)
            THEN Promise!Bad("token_too_long", pos)
          ELSE IF e = Len(input) THEN Promise!Bad("unexpected_end", Len(input))
          ELSE IF Promise!Escaped(pos, e) THEN Promise!Bad("bad_escape", e)
          ELSE C
    BY PromisedExtremes DEF Promise!Quoted, Promise!At, At, Promise!Length, QuoteEnds
  <2>2. Reading = Promise!Quoted(pos)
    BY <1>1, ReadingOfSigns
  <2> HIDE DEF e
  <2>3. C = IF At(e) = "quote" THEN Promise!Good("quoted", e - pos + 1, 0)
            ELSE IF At(e) = "nul" THEN Promise!Bad("invalid_character", e)
            ELSE Promise!Bad("unterminated_quoted", e)
    OBVIOUS
  <2> HIDE DEF C
  <2> QED
    BY <2>1, <2>2, <2>3
<1>12. /\ ends # {} => e \in ends /\ \A y \in ends : e <= y
       /\ ends = {} => e = Len(input)
       /\ ends \in SUBSET Nat
  <2>1. ends \in SUBSET Nat
    BY <1>1, <1>4
  <2> HIDE DEF ends
  <2> QED
    BY <2>1, MinOfNats
<1> HIDE DEF e
<1>13. /\ e \in Nat /\ halt <= e /\ e <= Len(input)
       /\ halt < fed /\ QuoteEnds(halt) => e = halt
       /\ halt = Len(input) => e = Len(input)
  <2>1. ASSUME NEW y \in ends PROVE y \in Nat /\ halt <= y /\ y < Len(input)
    <3>1. y \in Nat /\ pos + 1 <= y /\ y < Len(input) /\ QuoteEnds(y)
      BY <1>1, <1>4
    <3>2. ~(y < halt)
      <4> SUFFICES ASSUME y < halt PROVE FALSE
        OBVIOUS
      <4>1. y \in (pos + 1)..(halt - 1)
        BY <1>4, <1>7, <3>1
      <4> QED
        BY <1>9, <3>1, <4>1
    <3> QED
      BY <1>7, <3>1, <3>2
  <2>2. halt < fed /\ QuoteEnds(halt) => halt \in ends
    BY <1>1, <1>4, <1>7
  <2>3. halt <= Len(input)
    BY <1>1, <1>4, <1>7
  <2> HIDE DEF ends
  <2>4. CASE ends = {}
    BY <1>1, <1>7, <1>12, <2>2, <2>3, <2>4
  <2>5. CASE ends # {}
    <3>1. e \in Nat /\ halt <= e /\ e < Len(input)
      BY <1>12, <2>1, <2>5
    <3>2. halt \in ends => e <= halt
      BY <1>12, <2>5
    <3> QED
      BY <1>1, <1>7, <2>2, <3>1, <3>2
  <2> QED
    BY <2>4, <2>5
<1>14. pos \in 0..Len(input) /\ halt \in 0..Len(input) /\ fed \in 0..Len(input)
       /\ {"unexpected_end", "token_too_long", "bad_escape", "invalid_character",
           "unterminated_quoted"} \subseteq ErrorKinds
  BY <1>1, <1>4, <1>7 DEF ErrorKinds
<1> HIDE DEF ends
<1>15. CASE halt = fed
  <2>1. fed - pos <= MaxToken
    <3>1. CASE fed = pos + 1
      BY <1>4, <3>1, LimitsAre
    <3>2. CASE fed # pos + 1
      <4>1. fed - 1 \in (pos + 1)..(halt - 1)
        BY <1>4, <1>7, <1>15, <3>2
      <4>2. fed - 1 - pos < MaxToken
        BY <1>9, <4>1
      <4> QED
        BY <1>4, <4>2, LimitsAre
    <3> QED
      BY <3>1, <3>2
  <2>2. CASE finished
    <3>1. e = Len(input) /\ fed = Len(input) /\ ~(pos + MaxToken < Len(input))
      BY <1>4, <1>13, <1>15, <2>1, <2>2, LimitsAre
    <3>2. Reading = Promise!Bad("unexpected_end", fed)
      BY <1>11, <3>1
    <3>3. Fails("unexpected_end", fed)
      BY <1>2, <1>15, <2>2
    <3> QED
      BY <1>1, <1>14, <3>2, <3>3, RefusesBy
  <2>3. CASE ~finished
    <3> DEFINE len == fed - pos
               flag == Promise!Escaped(pos, fed)
               s == [on |-> TRUE, mode |-> mode, len |-> len, escape |-> flag]
    <3>1. Suspend(len, flag)
      <4>1. fed \in start..fed
        BY <1>7, <1>15
      <4>2. Escape[fed] = flag
        BY <1>5, <4>1
      <4> QED
        BY <1>2, <1>15, <2>3, <4>2
    <3>2. len \in 1..MaxToken /\ pos + len = fed
      BY <1>4, <2>1, LimitsAre
    <3>3. flag \in BOOLEAN
      BY DEF Promise!Escaped
    <3> HIDE DEF len, flag
    <3>4. HalfQuoted(s)
      <4>1. \A i \in (pos + 1)..(fed - 1) : ~QuoteEnds(i)
        BY <1>9, <1>15
      <4>2. s.mode = mode /\ pos + s.len = fed /\ s.escape = flag
        BY <3>2
      <4>3. pos + s.len = fed /\ s.len \in Nat
        BY <3>2, LimitsAre
      <4> HIDE DEF s
      <4>4. \A i \in (pos + 1)..(pos + s.len - 1) : ~QuoteEnds(i)
        <5>1. pos + s.len - 1 = fed - 1
          BY <1>4, <4>3
        <5> QED
          BY <4>1, <5>1
      <4>5. s.escape = Promise!Escaped(pos, pos + s.len)
        BY <4>2 DEF flag
      <4> QED
        BY <1>1, <4>2, <4>4, <4>5 DEF HalfQuoted
    <3>5. Half(s)
      <4>1. s \in [on : BOOLEAN, mode : Modes, len : 0..MaxToken, escape : BOOLEAN]
        BY <1>4, <3>2, <3>3, LimitsAre
      <4>2. s.len > 0 /\ pos + s.len <= fed
        BY <1>4, <3>2
      <4> QED
        BY <1>1, <3>4, <4>1, <4>2 DEF Half
    <3>6. ASSUME NEW o \in pos..(fed - 1) PROVE At(o) # "lf"
      <4>1. CASE o = pos
        BY <1>1, <4>1
      <4>2. CASE o # pos
        <5>1. o \in (pos + 1)..(halt - 1)
          BY <1>4, <1>15, <4>2
        <5>2. ~QuoteEnds(o)
          BY <1>9, <5>1
        <5> QED
          BY <5>2 DEF QuoteEnds
      <4> QED
        BY <4>1, <4>2
    <3>7. scan' = s
      BY <3>1 DEF Suspend
    <3>8. scan' = scan \/ (scan'.on /\ Half(scan'))
      BY <3>5, <3>7
    <3>9. Waits
      BY <2>1, <2>3, <3>1, <3>6, <3>8 DEF Waits, Suspend
    <3> QED
      BY <1>1, <3>9 DEF Outcome
  <2> QED
    BY <1>4, <2>2, <2>3
<1>16. CASE halt # fed /\ halt - pos >= MaxToken
  <2>1. Fails("token_too_long", pos)
    BY <1>2, <1>16
  <2>2. e - pos >= MaxToken /\ pos + MaxToken < Len(input)
    BY <1>1, <1>4, <1>7, <1>13, <1>16, LimitsAre
  <2>3. Reading = Promise!Bad("token_too_long", pos)
    BY <1>11, <2>2
  <2> QED
    BY <1>1, <1>14, <2>1, <2>3, RefusesBy
<1>17. CASE halt # fed /\ ~(halt - pos >= MaxToken)
  <2>1. halt < fed /\ QuoteEnds(halt)
    BY <1>4, <1>7, <1>10, <1>17
  <2>2. e = halt /\ ~(e - pos >= MaxToken) /\ e # Len(input)
        /\ Escape[halt] = Promise!Escaped(pos, halt)
    BY <1>1, <1>4, <1>5, <1>7, <1>13, <1>17, <2>1
  <2>3. CASE Promise!Escaped(pos, halt)
    <3>1. Fails("bad_escape", halt)
      BY <1>2, <1>17, <2>2, <2>3
    <3>2. Reading = Promise!Bad("bad_escape", halt)
      BY <1>11, <2>2, <2>3
    <3> QED
      BY <1>1, <1>14, <3>1, <3>2, RefusesBy
  <2>4. CASE ~Promise!Escaped(pos, halt) /\ At(halt) = "quote"
    <3> DEFINE len == halt + 1 - pos
    <3>1. Completes("quoted", len, 0) /\ UNCHANGED literal
      BY <1>2, <1>17, <2>2, <2>4
    <3>2. len \in Nat /\ pos + len <= fed /\ e - pos + 1 = len
      BY <1>4, <1>7, <2>1, <2>2
    <3>3. Reading = Promise!Good("quoted", len, 0)
      BY <1>11, <2>2, <2>4, <3>2
    <3> HIDE DEF len
    <3> QED
      BY <1>1, <3>1, <3>2, <3>3, GivesPlain
  <2>5. CASE ~Promise!Escaped(pos, halt) /\ At(halt) # "quote"
    <3> DEFINE kind == IF At(halt) = "nul" THEN "invalid_character" ELSE "unterminated_quoted"
    <3>1. Fails(kind, halt)
      BY <1>2, <1>17, <2>2, <2>5
    <3>2. Reading = Promise!Bad(kind, halt)
      BY <1>11, <2>2, <2>5
    <3>3. kind \in ErrorKinds
      BY <1>14
    <3> HIDE DEF kind
    <3> QED
      BY <1>1, <1>14, <3>1, <3>2, <3>3, RefusesBy
  <2> QED
    BY <2>3, <2>4, <2>5
<1> QED
  BY <1>15, <1>16, <1>17

-----------------------------------------------------------------------------
(* Literal headers.                                                        *)

Closing == <<"}", "cr", "lf">>

\* The bytes up to a place that are not those that close a header.
NotClosing(t, last) == {i \in t..last : At(i) # Closing[i - t + 1]}

LEMMA HeaderOutcome ==
    ASSUME Inv, LexLiteralHeader
    PROVE  Outcome
<1> DEFINE first == pos + IF At(pos) = "~" THEN 2 ELSE 1
           digits == RunEnd(first, Digits)
           refused == Refused(first, digits)
           size == Values(first, digits)[digits]
           tail == digits + IF digits < fed /\ At(digits) = "+" THEN 1 ELSE 0
           last == Min({tail + 2, fed - 1})
           wrong == NotClosing(tail, last)
           cut == digits = fed \/ (digits > first /\ wrong = {} /\ tail + 2 >= fed)
           b == Promise!RunEnd(first, Digits)
           large == {i \in first..(b - 1) : Promise!Value(first, i + 1) > MaxNumber}
           t == b + IF b < Len(input) /\ At(b) = "+" THEN 1 ELSE 0
           W == {i \in t..(t + 2) : i < Len(input) /\ At(i) # Closing[i - t + 1]}
<1>1. /\ Lexes /\ status = "lexing" /\ mode' = "normal" /\ IsHeader
      /\ literal = NoLiteral /\ Len(input) \in Nat
  BY EnteredLexes DEF LexLiteralHeader, Lexing
<1>2. IF refused # {} THEN Fails("number_too_large", Min(refused))
      ELSE IF cut /\ finished THEN Fails("unexpected_end", fed)
      ELSE IF cut THEN Suspend(1, FALSE)
      ELSE IF digits = first THEN Fails("bad_literal", first)
      ELSE IF wrong # {} THEN Fails("bad_literal", Min(wrong))
      ELSE IF size > MaxLiteral THEN Fails("literal_too_large", pos)
      ELSE /\ Completes("literal_begin", tail + 3 - pos, size)
           /\ literal' = size
  BY DEF LexLiteralHeader, NotClosing, Closing
<1>3. /\ fed \in Nat /\ pos \in Nat /\ pos < fed /\ fed <= Len(input)
      /\ input \in Inputs /\ (finished => fed = Len(input)) /\ finished \in BOOLEAN
      /\ mode \in Modes
  BY <1>1 DEF Lexes
<1>4. first \in Nat /\ pos < first /\ first <= fed
  <2>1. At(pos) = "~" => pos + 1 < fed
    BY <1>1 DEF IsHeader
  <2> QED
    BY <1>3, <2>1
<1>5. At(pos) \in {"{", "~"} /\ \A i \in pos..(first - 1) : At(i) \in {"{", "~"}
  <2>1. At(pos) \in {"{", "~"}
    BY <1>1 DEF IsHeader
  <2>2. ASSUME NEW i \in pos..(first - 1) PROVE i = pos \/ (At(pos) = "~" /\ i = pos + 1)
    BY <1>3
  <2>3. At(pos) = "~" => At(pos + 1) = "{"
    BY <1>1 DEF IsHeader
  <2>4. ASSUME NEW i \in pos..(first - 1) PROVE At(i) \in {"{", "~"}
    BY <2>1, <2>2, <2>3
  <2> QED
    BY <2>1, <2>4
<1>6. Reading = IF large # {} THEN Promise!Bad("number_too_large", Min(large))
                ELSE IF first = b /\ b < Len(input) THEN Promise!Bad("bad_literal", b)
                ELSE IF W # {} THEN Promise!Bad("bad_literal", Min(W))
                ELSE IF t + 2 >= Len(input) THEN Promise!Bad("unexpected_end", Len(input))
                ELSE IF Promise!Value(first, b) > MaxLiteral
                  THEN Promise!Bad("literal_too_large", pos)
                ELSE Promise!Good("literal_begin", t + 3 - pos, Promise!Value(first, b))
  <2>1. Reading = Promise!Header(pos)
    BY <1>1, ReadingOfHeader
  <2> QED
    BY <2>1, PromisedExtremes
    DEF Promise!Header, Promise!TooLarge, Promise!At, At, Promise!Length, Digits, Closing
<1> HIDE DEF first
<1>7. /\ digits \in first..fed
      /\ \A i \in first..(digits - 1) : At(i) \in Digits
      /\ b \in digits..Len(input)
      /\ digits < fed \/ fed = Len(input) => b = digits
  <2>1. first <= first /\ \A i \in first..(first - 1) : At(i) \in Digits
    BY <1>4
  <2> QED
    BY <1>3, <1>4, <2>1, RunGoesOn
<1> HIDE DEF digits, b
<1>8. /\ digits \in Nat /\ first <= digits /\ digits <= fed
      /\ b \in Nat /\ digits <= b /\ b <= Len(input)
  BY <1>1, <1>3, <1>4, <1>7
<1>9. refused = {i \in first..(digits - 1) : Promise!Value(first, i + 1) > MaxNumber}
  BY <1>4, <1>7, <1>8, RefusedIsTooLarge
<1>10. size \in Nat /\ Promise!Value(first, digits) = size
  <2>1. digits \in first..digits
    BY <1>4, <1>8
  <2>2. Values(first, digits) \in [first..digits -> Nat]
    BY <1>4, <1>7, <1>8, ValuesProperties
  <2>3. size \in Nat
    BY <2>1, <2>2
  <2> QED
    BY <1>4, <1>7, <1>8, <2>1, <2>3, PromisedValue
<1> HIDE DEF refused, size
<1>11. {"number_too_large", "unexpected_end", "bad_literal", "literal_too_large"}
         \subseteq ErrorKinds
  BY DEF ErrorKinds
<1>12. CASE refused # {}
  <2>1. refused \in SUBSET Nat /\ large \in SUBSET Nat
    BY <1>4, <1>8, <1>9
  <2>2. refused \subseteq large
    <3>1. \A i \in first..(digits - 1) : i \in first..(b - 1)
      BY <1>4, <1>8
    <3> QED
      BY <1>9, <3>1
  <2>3. ASSUME NEW x \in refused, NEW y \in large \ refused PROVE x <= y
    <3>1. x \in first..(digits - 1)
      BY <1>9
    <3>2. y \in first..(b - 1) /\ y \notin first..(digits - 1)
      BY <1>9
    <3> QED
      BY <1>4, <1>8, <3>1, <3>2
  <2>4. large # {}
    BY <1>12, <2>2
  <2>5. Min(large) = Min(refused)
    <3> HIDE DEF large
    <3> QED
      BY <1>12, <2>1, <2>2, <2>3, MinOfFirstPart
  <2>6. Reading = Promise!Bad("number_too_large", Min(refused))
    <3> HIDE DEF large
    <3> QED
      BY <1>6, <2>4, <2>5
  <2>7. Min(refused) \in 0..Len(input)
    <3>1. Min(refused) \in refused
      BY <1>12, <2>1, MinOfNats
    <3>2. Min(refused) \in first..(digits - 1)
      BY <1>9, <3>1
    <3> QED
      BY <1>1, <1>3, <1>4, <1>8, <3>2
  <2>8. Fails("number_too_large", Min(refused))
    BY <1>2, <1>12
  <2> QED
    BY <1>1, <1>11, <2>6, <2>7, <2>8, RefusesBy
<1>13. ASSUME refused = {}, b = digits PROVE large = {}
  BY <1>9, <1>13
<1>14. tail \in digits..(digits + 1) /\ (tail = digits + 1 => At(digits) = "+")
       /\ (b = digits /\ (digits < fed \/ fed = Len(input)) => t = tail)
  <2>1. digits < fed => digits < Len(input)
    BY <1>1, <1>3, <1>8
  <2>2. fed = Len(input) => (digits < fed <=> digits < Len(input))
    OBVIOUS
  <2> QED
    BY <1>8, <2>1, <2>2
<1>15. tail \in Nat /\ digits <= tail
  BY <1>8, <1>14
<1> HIDE DEF large, tail, t
<1>16. last = IF tail + 2 <= fed - 1 THEN tail + 2 ELSE fed - 1
  BY <1>3, <1>15, MinOfTwo
<1>17. last \in Int /\ last < fed /\ last <= tail + 2
  BY <1>3, <1>15, <1>16
<1> HIDE DEF last
<1>18. (wrong \in SUBSET Nat /\ wrong \subseteq W) \/ t # tail
  <2> SUFFICES ASSUME t = tail PROVE wrong \in SUBSET Nat /\ wrong \subseteq W
    OBVIOUS
  <2>1. ASSUME NEW i \in tail..last PROVE i \in Nat /\ i \in t..(t + 2) /\ i < Len(input)
    BY <1>1, <1>3, <1>15, <1>17
  <2> QED
    BY <2>1 DEF NotClosing
<1>19. CASE refused = {} /\ cut /\ finished
  <2>1. fed = Len(input) /\ b = digits /\ t = tail /\ large = {}
    BY <1>3, <1>7, <1>13, <1>14, <1>19
  <2>2. ~(first = b /\ b < Len(input)) /\ W = {} /\ t + 2 >= Len(input)
    <3>1. CASE digits = fed
      <4>1. t >= Len(input)
        BY <1>3, <1>15, <2>1, <3>1
      <4>2. W = {}
        <5>1. \A i \in t..(t + 2) : ~(i < Len(input))
          BY <1>1, <1>15, <2>1, <4>1
        <5> QED
          BY <5>1
      <4> QED
        BY <1>1, <1>3, <1>15, <2>1, <3>1, <4>1, <4>2
    <3>2. CASE digits > first /\ wrong = {} /\ tail + 2 >= fed
      <4>1. ASSUME NEW i \in t..(t + 2), i < Len(input) PROVE At(i) = Closing[i - t + 1]
        <5>1. i \in tail..last
          BY <1>1, <1>3, <1>15, <1>16, <2>1, <4>1
        <5>2. i \notin wrong
          BY <3>2
        <5> QED
          BY <2>1, <5>1, <5>2 DEF NotClosing
      <4>2. W = {}
        BY <4>1
      <4> QED
        BY <1>3, <1>4, <1>8, <2>1, <3>2, <4>2
    <3> QED
      BY <1>19, <3>1, <3>2
  <2>3. Reading = Promise!Bad("unexpected_end", fed)
    <3> HIDE DEF W
    <3> QED
      BY <1>6, <2>1, <2>2
  <2>4. Fails("unexpected_end", fed)
    BY <1>2, <1>19
  <2>5. fed \in 0..Len(input)
    BY <1>1, <1>3
  <2> QED
    BY <1>1, <1>11, <2>3, <2>4, <2>5, RefusesBy
<1>20. CASE refused = {} /\ cut /\ ~finished
  <2>1. Suspend(1, FALSE)
    BY <1>2, <1>20
  <2> DEFINE s == [on |-> TRUE, mode |-> mode, len |-> 1, escape |-> FALSE]
  <2>2. scan' = s
    BY <2>1 DEF Suspend
  <2>3. mode \in GeneralModes
    BY <1>1 DEF IsHeader, General, GeneralModes
  <2>4. HalfAtom(s) \/ HalfHeader(s)
    <3>1. CASE At(pos) = "{"
      BY <2>3, <3>1 DEF HalfHeader
    <3>2. CASE At(pos) = "~"
      <4>1. "~" \in AtomChars(mode)
        BY DEF AtomChars, Promise!Characters, Promise!Others
      <4>2. \A i \in pos..(pos + s.len - 1) : i = pos
        BY <1>3
      <4> QED
        BY <2>3, <3>2, <4>1, <4>2 DEF HalfAtom
    <3> QED
      BY <1>5, <3>1, <3>2
  <2>5. Half(s)
    <3>1. s \in [on : BOOLEAN, mode : Modes, len : 0..MaxToken, escape : BOOLEAN]
      BY <1>3, LimitsAre
    <3>2. s.len > 0 /\ pos + s.len <= fed
      BY <1>3
    <3> QED
      BY <1>1, <2>4, <3>1, <3>2 DEF Half, Lexes
  <2>6. ASSUME NEW o \in pos..(fed - 1) PROVE At(o) # "lf"
    <3>1. CASE o < first
      <4>1. o \in pos..(first - 1)
        BY <1>3, <1>4, <3>1
      <4> QED
        BY <1>5, <4>1
    <3>2. CASE o >= first /\ o < digits
      <4>1. o \in first..(digits - 1)
        BY <1>3, <1>4, <1>8, <3>2
      <4>2. At(o) \in Digits
        BY <1>7, <4>1
      <4> QED
        BY <4>2 DEF Digits, Promise!Digits
    <3>3. CASE o >= digits /\ o < tail
      <4>1. o = digits /\ tail = digits + 1
        BY <1>3, <1>8, <1>14, <3>3
      <4> QED
        BY <1>14, <4>1
    <3>4. CASE o >= tail
      <4>1. digits # fed
        BY <1>3, <1>8, <1>15, <3>4
      <4>2. wrong = {} /\ tail + 2 >= fed
        BY <1>20, <4>1
      <4>3. o \in tail..last /\ o \in {tail, tail + 1}
        BY <1>3, <1>15, <1>16, <3>4, <4>2
      <4>4. At(o) = Closing[o - tail + 1]
        BY <4>2, <4>3 DEF NotClosing
      <4>5. o - tail + 1 \in {1, 2}
        BY <1>15, <4>3
      <4>6. Closing[1] = "}" /\ Closing[2] = "cr"
        BY DEF Closing
      <4> QED
        BY <4>4, <4>5, <4>6
    <3> QED
      BY <1>3, <1>4, <1>8, <1>15, <3>1, <3>2, <3>3, <3>4
  <2>7. scan' = scan \/ (scan'.on /\ Half(scan'))
    BY <2>2, <2>5
  <2>8. Waits
    BY <1>20, <1>5, <2>1, <2>6, <2>7 DEF Waits, Suspend
  <2> QED
    BY <1>1, <2>8 DEF Outcome
<1>21. CASE refused = {} /\ ~cut
  <2>1. digits < fed /\ b = digits /\ t = tail /\ large = {} /\ b < Len(input)
    BY <1>1, <1>3, <1>7, <1>8, <1>13, <1>14, <1>21
  <2>2. CASE digits = first
    <3>1. Reading = Promise!Bad("bad_literal", first)
      <4> HIDE DEF W
      <4> QED
        BY <1>6, <2>1, <2>2
    <3>2. Fails("bad_literal", first)
      BY <1>2, <1>21, <2>2
    <3>3. first \in 0..Len(input)
      BY <1>1, <1>3, <1>4
    <3> QED
      BY <1>1, <1>11, <3>1, <3>2, <3>3, RefusesBy
  <2>3. CASE digits # first /\ wrong # {}
    <3>1. wrong \in SUBSET Nat /\ wrong \subseteq W
      BY <1>18, <2>1
    <3>2. W \in SUBSET Nat
      BY <1>15, <2>1
    <3>3. ASSUME NEW x \in wrong, NEW y \in W \ wrong PROVE x <= y
      <4>1. x \in tail..last
        BY DEF NotClosing
      <4>2. y \in tail..(tail + 2) /\ y \notin tail..last
        BY <2>1 DEF NotClosing
      <4> QED
        BY <1>15, <1>17, <4>1, <4>2
    <3> HIDE DEF W, wrong
    <3>4. Min(W) = Min(wrong) /\ W # {}
      BY <2>3, <3>1, <3>2, <3>3, MinOfFirstPart
    <3>5. Reading = Promise!Bad("bad_literal", Min(wrong))
      BY <1>6, <2>1, <2>3, <3>4
    <3>6. Fails("bad_literal", Min(wrong))
      BY <1>2, <1>21, <2>3
    <3>7. Min(wrong) \in 0..Len(input)
      <4>1. Min(wrong) \in wrong
        BY <2>3, <3>1, MinOfNats
      <4>2. Min(wrong) \in tail..last
        BY <4>1 DEF wrong, NotClosing
      <4> QED
        BY <1>1, <1>3, <1>15, <1>17, <4>2
    <3> QED
      BY <1>1, <1>11, <3>5, <3>6, <3>7, RefusesBy
  <2>4. CASE digits # first /\ wrong = {}
    <3>1. digits > first /\ tail + 2 < fed
      BY <1>3, <1>4, <1>8, <1>15, <1>21, <2>1, <2>4
    <3>2. W = {}
      <4>1. last = tail + 2
        BY <1>3, <1>15, <1>16, <3>1
      <4>2. \A i \in t..(t + 2) : At(i) = Closing[i - t + 1]
        BY <2>1, <2>4, <4>1 DEF NotClosing
      <4> QED
        BY <4>2
    <3> DEFINE len == tail + 3 - pos
    <3>3. ~(t + 2 >= Len(input)) /\ len \in Nat /\ pos + len <= fed
      BY <1>1, <1>3, <1>4, <1>8, <1>15, <2>1, <3>1
    <3>4. Promise!Value(first, b) = size
      BY <1>10, <2>1
    <3> HIDE DEF W
    <3>5. Reading = IF size > MaxLiteral THEN Promise!Bad("literal_too_large", pos)
                    ELSE Promise!Good("literal_begin", len, size)
      BY <1>6, <2>1, <2>4, <3>2, <3>3, <3>4
    <3> HIDE DEF len
    <3>6. CASE size > MaxLiteral
      <4>1. Fails("literal_too_large", pos)
        BY <1>2, <1>21, <2>4, <3>6
      <4>2. pos \in 0..Len(input)
        BY <1>1, <1>3
      <4> QED
        BY <1>1, <1>11, <3>5, <3>6, <4>1, <4>2, RefusesBy
    <3>7. CASE ~(size > MaxLiteral)
      <4>1. Completes("literal_begin", len, size) /\ literal' = size
        BY <1>2, <1>21, <2>4, <3>7 DEF len
      <4>2. size \in 0..MaxLiteral
        BY <1>10, <3>7, LimitsAre
      <4>3. depth' = Promise!DepthAfter("literal_begin") /\ depth' \in 0..MaxDepth
        BY <1>1, <4>1 DEF Completes, Promise!DepthAfter, Lexes
      <4>4. lineStart' = ("literal_begin" = "eol")
        BY <4>1 DEF Completes
      <4> QED
        BY <1>1, <3>3, <3>5, <3>7, <4>1, <4>2, <4>3, <4>4, GivesBy DEF Completes
    <3> QED
      BY <3>6, <3>7
  <2> QED
    BY <2>2, <2>3, <2>4
<1> QED
  BY <1>3, <1>12, <1>19, <1>20, <1>21

-----------------------------------------------------------------------------
(* Every step keeps the invariant.                                         *)

LEMMA DispatchOutcome ==
    ASSUME Inv, Dispatch
    PROVE  Outcome /\ status = "lexing"
<1>1. Outcome
  BY EolOutcome, OpenOutcome, CloseOutcome, TildeOutcome, ControlOutcome, AtomOutcome,
     QuotedOutcome, HeaderOutcome, TextOutcome
  DEF Dispatch
<1>2. status = "lexing"
  BY DEF Dispatch, LexEol, LexOpen, LexClose, LexTilde, LexControl, LexAtom, LexQuoted,
         LexLiteralHeader, LexText, Lexing
<1> QED
  BY <1>1, <1>2

\* An error is not the absence of one.
LEMMA FailureIsError ==
    ASSUME NEW kind \in ErrorKinds, NEW o
    PROVE  [kind |-> kind, at |-> o] # NoError
<1>1. [kind |-> kind, at |-> o].kind # "none"
  BY DEF ErrorKinds
<1>2. NoError.kind = "none"
  BY DEF NoError, Promise!NoError
<1> QED
  BY <1>1, <1>2

\* More input does not change what is known of half a token.
LEMMA HalfIsKept ==
    ASSUME Half(scan'), input' = input, pos' = pos,
           fed \in Nat, fed' \in Nat, pos \in Nat, fed <= fed'
    PROVE  Half(scan)'
<1>1. At(pos)' = At(pos)
  BY DEF At
<1>2. HalfAtom(scan') => HalfAtom(scan)'
  BY DEF HalfAtom, At, AtomChars, Promise!Characters, Promise!Digits, Promise!Controls,
         Promise!Structural, Promise!Others, GeneralModes
<1>3. HalfHeader(scan') => HalfHeader(scan)'
  BY DEF HalfHeader, At, GeneralModes
<1>4. HalfText(scan') => HalfText(scan)'
  BY DEF HalfText, At, AtomChars, Promise!Characters, Promise!Digits, Promise!Controls,
         Promise!Structural, Promise!Others, GeneralModes
<1>5. HalfQuoted(scan') => HalfQuoted(scan)'
  <2>1. ASSUME NEW i PROVE Promise!Escaped(pos, i)' = Promise!Escaped(pos, i)
    BY DEF Promise!Escaped, Promise!At
  <2>2. ASSUME NEW i PROVE At(i)' = At(i)
    BY DEF At
  <2>3. ASSUME NEW i PROVE QuoteEnds(i)' <=> QuoteEnds(i)
    BY <2>1, <2>2 DEF QuoteEnds
  <2> QED
    BY <1>1, <2>1, <2>3 DEF HalfQuoted, GeneralModes
<1>6. /\ scan' \in [on : BOOLEAN, mode : Modes, len : 0..MaxToken, escape : BOOLEAN]
      /\ scan'.len > 0 /\ pos + scan'.len <= fed /\ At(pos) # "sp"
  BY DEF Half
<1>7. pos' + scan'.len <= fed'
  BY <1>6, LimitsAre
<1>8. Half(scan') => HalfAtom(scan') \/ HalfQuoted(scan') \/ HalfHeader(scan') \/ HalfText(scan')
  BY DEF Half
<1> QED
  BY <1>1, <1>2, <1>3, <1>4, <1>5, <1>6, <1>7, <1>8 DEF Half

LEMMA InitKeeps ==
    ASSUME Init
    PROVE  Inv
<1>1. input \in Inputs /\ Len(input) \in Nat
  BY InputIsSeq DEF Init
<1>2. NoScan.on = FALSE
      /\ NoScan \in [on : BOOLEAN, mode : Modes, len : 0..MaxToken, escape : BOOLEAN]
  BY LimitsAre DEF NoScan, Modes, Promise!Modes
<1>3. token.first = 0 /\ token.len = 0 /\ token.kind = "none"
  BY DEF Init, NoToken, Promise!NoToken
<1>4. TypeOK
  <2>1. fed \in 0..Len(input) /\ base \in 0..fed /\ pos \in base..fed
    BY <1>1 DEF Init
  <2>2. spaces \in 0..MaxToken /\ depth \in 0..MaxDepth
    BY LimitsAre DEF Init
  <2>3. token.first \in 0..fed /\ token.first + token.len <= pos
    BY <1>3 DEF Init
  <2>4. mode \in Modes
    BY DEF Init, Modes, Promise!Modes
  <2> QED
    BY <1>1, <1>2, <2>1, <2>2, <2>3, <2>4 DEF Init, TypeOK
<1>5. Gap
  <2>1. \A i \in (pos - spaces)..(pos - 1) : FALSE
    BY DEF Init
  <2> QED
    BY <2>1 DEF Gap, Init
<1> QED
  BY <1>2, <1>3, <1>4, <1>5
  DEF Init, Inv, Tokens, Scanning, Entered, InLiteral, Lines, Over, NoLineWithheld,
      WaitsWithinLimit

LEMMA AcceptKeeps ==
    ASSUME Inv, NEW n \in Nat, NEW over \in BOOLEAN, Accept(n, over)
    PROVE  Inv'
<1>1. /\ input \in Inputs /\ Len(input) \in Nat /\ fed \in Nat /\ fed <= Len(input)
      /\ base \in 0..fed /\ pos \in base..fed /\ pos \in Nat
      /\ token.first \in 0..fed
  BY InputIsSeq DEF Inv, TypeOK
<1>2. /\ fed' = fed + n /\ fed + n <= Len(input)
      /\ base' = IF n > 0 /\ Compacts THEN pos ELSE base
      /\ finished' = over
      /\ over => fed + n = Len(input)
      /\ status' = "idle"
      /\ UNCHANGED <<input, pos, lineStart, spaces, depth, scan, literal, error, token, mode>>
  BY DEF Accept
<1>3. fed' \in 0..Len(input) /\ fed <= fed' /\ fed' \in Nat
  BY <1>1, <1>2
<1>4. base' \in 0..fed' /\ pos \in base'..fed' /\ token.first \in 0..fed'
  BY <1>1, <1>2, <1>3
<1>5. TypeOK'
  <2>1. /\ lineStart \in BOOLEAN
        /\ spaces \in 0..MaxToken
        /\ depth \in 0..MaxDepth
        /\ scan \in [on : BOOLEAN, mode : Modes, len : 0..MaxToken, escape : BOOLEAN]
        /\ literal \in {NoLiteral} \cup 0..MaxLiteral
        /\ error = NoError \/ error \in [kind : ErrorKinds, at : 0..Len(input)]
        /\ token.first + token.len <= pos
        /\ mode \in Modes
    BY DEF Inv, TypeOK
  <2>2. status' \in {"idle", "lexing", "token", "need_more", "end", "error"}
    BY <1>2
  <2> QED
    BY <1>1, <1>2, <1>3, <1>4, <2>1, <2>2 DEF TypeOK
<1>6. Scanning'
  <2>1. ~scan.on => scan = NoScan
    BY DEF Inv, Scanning
  <2>2. scan.on => Half(scan')
    BY <1>2 DEF Inv, Scanning
  <2>3. scan.on => Half(scan)'
    BY <1>1, <1>2, <1>3, <2>2, HalfIsKept
  <2> QED
    BY <1>2, <2>1, <2>3 DEF Scanning, NoScan
<1>7. Gap'
  <2>1. UNCHANGED <<input, pos, spaces>>
    BY <1>2
  <2> QED
    BY <2>1 DEF Inv, Gap, At
<1>8. Over'
  BY <1>2, <1>3 DEF Over
<1> QED
  BY <1>2, <1>5, <1>6, <1>7, <1>8
  DEF Inv, Tokens, Entered, InLiteral, Lines, NoLineWithheld, WaitsWithinLimit

LEMMA FailedKeeps ==
    ASSUME Inv, NextFailed
    PROVE  Inv'
<1>1. /\ error # NoError /\ status' = "error"
      /\ UNCHANGED <<input, fed, finished, base, pos, lineStart, spaces, depth, scan, literal,
                     error, token, mode>>
  BY DEF NextFailed, inputVars
<1>2. TypeOK'
  BY <1>1 DEF Inv, TypeOK
<1>3. Scanning'
  <2>1. ~scan.on => scan = NoScan
    BY DEF Inv, Scanning
  <2>2. scan.on => Half(scan')
    BY <1>1 DEF Inv, Scanning
  <2>3. fed \in Nat /\ pos \in Nat
    BY InputIsSeq DEF Inv, TypeOK
  <2>4. scan.on => Half(scan)'
    BY <1>1, <2>2, <2>3, HalfIsKept
  <2> QED
    BY <1>1, <2>1, <2>4 DEF Scanning, NoScan
<1>4. Gap'
  BY <1>1 DEF Inv, Gap, At
<1> QED
  BY <1>1, <1>2, <1>3, <1>4
  DEF Inv, Tokens, Entered, InLiteral, Lines, Over, NoLineWithheld, WaitsWithinLimit

\* A token is given, and what is behind it is still to be read.
LEMMA TokenKeeps ==
    ASSUME Inv, NEW kind, NEW len \in Nat, NEW n, pos + len <= fed, kind # "none",
           Emit(kind, len, n), scan'.on = FALSE, scan' = NoScan,
           lineStart' = (kind = "eol"),
           depth' \in 0..MaxDepth, literal' \in {NoLiteral} \cup 0..MaxLiteral,
           kind = "eol" => literal' = NoLiteral,
           UNCHANGED <<input, fed, finished, base, error>>, mode' \in Modes
    PROVE  Inv'
<1>1. /\ input \in Inputs /\ Len(input) \in Nat /\ fed \in Nat /\ fed <= Len(input)
      /\ base \in 0..fed /\ pos \in base..fed /\ pos \in Nat
  BY InputIsSeq DEF Inv, TypeOK
<1>2. /\ token' = [kind |-> kind, spaces |-> spaces, first |-> pos, len |-> len, number |-> n]
      /\ spaces' = 0 /\ pos' = pos + len /\ status' = "token"
  BY DEF Emit
<1>3. token'.kind = kind /\ token'.first = pos /\ token'.len = len
  BY <1>2
<1>4. pos + len \in base..fed /\ pos + len \in Nat /\ pos \in 0..fed
  BY <1>1
<1>5. NoScan \in [on : BOOLEAN, mode : Modes, len : 0..MaxToken, escape : BOOLEAN]
  BY LimitsAre DEF NoScan, Modes, Promise!Modes
<1>6. TypeOK'
  <2>1. /\ finished \in BOOLEAN /\ fed \in 0..Len(input)
        /\ error = NoError \/ error \in [kind : ErrorKinds, at : 0..Len(input)]
    BY DEF Inv, TypeOK
  <2>2. /\ spaces' \in 0..MaxToken /\ lineStart' \in BOOLEAN
        /\ status' \in {"idle", "lexing", "token", "need_more", "end", "error"}
    BY <1>2, LimitsAre
  <2>3. token'.first \in 0..fed /\ token'.first + token'.len <= pos'
    BY <1>1, <1>2, <1>3, <1>4
  <2>4. pos' \in base..fed
    BY <1>2, <1>4
  <2> QED
    BY <1>1, <1>5, <2>1, <2>2, <2>3, <2>4 DEF TypeOK
<1>7. Tokens' /\ Scanning' /\ Entered' /\ InLiteral'
  BY <1>1, <1>2, <1>3 DEF Tokens, Scanning, Entered, InLiteral, NoScan, NoLiteral,
     Promise!NoLiteral
<1>8. Inv'
  <2>1. Gap'
    <3>1. \A p \in Nat : 0 <= p /\ \A i \in (p - 0)..(p - 1) : FALSE
      OBVIOUS
    <3>2. spaces' = 0 /\ pos' \in Nat
      BY <1>2, <1>4
    <3> QED
      BY <3>1, <3>2 DEF Gap
  <2>2. Lines'
    BY <1>2, <1>3 DEF Lines
  <2>3. Over'
    BY <1>2 DEF Inv, Over
  <2>4. NoLineWithheld' /\ WaitsWithinLimit'
    BY <1>2 DEF NoLineWithheld, WaitsWithinLimit
  <2> QED
    BY <1>6, <1>7, <2>1, <2>2, <2>3, <2>4 DEF Inv
<1> QED
  BY <1>8

\* A call fails, or returns with nothing. What it may have changed is where the
\* lexer stands, the spaces in front of it and the token that is suspended.
LEMMA StallKeeps ==
    ASSUME Inv, Gap', InLiteral',
           pos' \in pos..fed, spaces' \in 0..MaxToken, lineStart' \in BOOLEAN,
           \/ scan' = NoScan
           \/ scan' = scan /\ pos' = pos
           \/ scan'.on /\ Half(scan') /\ pos' = pos,
           UNCHANGED <<input, fed, finished, base, depth, literal, token>>,
           mode' \in Modes,
           \/ /\ status' = "error"
              /\ error' \in [kind : ErrorKinds, at : 0..Len(input)]
           \/ /\ status' \in {"need_more", "end"}
              /\ error' = error /\ Lines' /\ Over'
              /\ NoLineWithheld' /\ WaitsWithinLimit'
           \/ /\ status' = "lexing"
              /\ error' = error /\ Lines' /\ Entered'
    PROVE  Inv'
<1>1. /\ input \in Inputs /\ Len(input) \in Nat /\ fed \in Nat /\ fed <= Len(input)
      /\ base \in 0..fed /\ pos \in base..fed /\ pos \in Nat
  BY InputIsSeq DEF Inv, TypeOK
<1>2. pos' \in base..fed /\ pos' \in Nat /\ pos <= pos'
  BY <1>1
<1>3. /\ scan' \in [on : BOOLEAN, mode : Modes, len : 0..MaxToken, escape : BOOLEAN]
      /\ Scanning'
  <2>1. CASE scan' = NoScan
    <3>1. NoScan \in [on : BOOLEAN, mode : Modes, len : 0..MaxToken, escape : BOOLEAN]
      BY LimitsAre DEF NoScan, Modes, Promise!Modes
    <3> QED
      BY <2>1, <3>1 DEF Scanning, NoScan
  <2>2. ASSUME pos' = pos, scan'.on, Half(scan')
        PROVE  /\ scan' \in [on : BOOLEAN, mode : Modes, len : 0..MaxToken, escape : BOOLEAN]
               /\ Scanning'
    <3>1. fed' = fed /\ fed <= fed' /\ fed' \in Nat
      BY <1>1
    <3>2. Half(scan)'
      BY <1>1, <2>2, <3>1, HalfIsKept
    <3>3. scan' \in [on : BOOLEAN, mode : Modes, len : 0..MaxToken, escape : BOOLEAN]
      BY <2>2 DEF Half
    <3> QED
      BY <2>2, <3>2, <3>3 DEF Scanning
  <2>3. CASE scan' = scan /\ pos' = pos
    <3>1. CASE scan.on
      <4>1. Half(scan')
        BY <2>3, <3>1 DEF Inv, Scanning
      <4> QED
        BY <2>2, <2>3, <3>1, <4>1
    <3>2. CASE ~scan.on
      <4>1. scan' = NoScan
        BY <2>3, <3>2 DEF Inv, Scanning
      <4> QED
        BY <2>1, <4>1
    <3> QED
      BY <3>1, <3>2
  <2> QED
    BY <2>1, <2>2, <2>3
<1>4. TypeOK'
  <2>1. /\ finished \in BOOLEAN /\ fed \in 0..Len(input)
        /\ depth \in 0..MaxDepth
        /\ literal \in {NoLiteral} \cup 0..MaxLiteral
        /\ error = NoError \/ error \in [kind : ErrorKinds, at : 0..Len(input)]
        /\ token.first \in 0..fed /\ token.first + token.len <= pos
    BY DEF Inv, TypeOK
  <2>2. status' \in {"idle", "lexing", "token", "need_more", "end", "error"}
    OBVIOUS
  <2>3. token.first + token.len <= pos'
    <3>1. token.first \in Nat /\ token.len \in Nat
      BY DEF Inv, Tokens
    <3> QED
      BY <1>1, <1>2, <2>1, <3>1
  <2>4. error' = NoError \/ error' \in [kind : ErrorKinds, at : 0..Len(input)]
    BY <2>1
  <2> QED
    BY <1>1, <1>2, <1>3, <2>1, <2>2, <2>3, <2>4 DEF TypeOK
<1>5. Tokens'
  BY DEF Inv, Tokens
<1>6. CASE status' = "error" /\ error' \in [kind : ErrorKinds, at : 0..Len(input)]
  <2>1. error' # NoError
    <3>1. PICK kind \in ErrorKinds, o \in 0..Len(input) : error' = [kind |-> kind, at |-> o]
      BY <1>6
    <3> QED
      BY <3>1, FailureIsError
  <2>2. Lines'
    BY <2>1 DEF Lines, NoError, Promise!NoError
  <2>3. Over' /\ Entered' /\ NoLineWithheld' /\ WaitsWithinLimit'
    BY <1>6 DEF Inv, Over, Entered, NoLineWithheld, WaitsWithinLimit
  <2> QED
    BY <1>3, <1>4, <1>5, <2>2, <2>3 DEF Inv
<1>7. CASE status' = "lexing" /\ error' = error /\ Lines' /\ Entered'
  <2>1. Over' /\ NoLineWithheld' /\ WaitsWithinLimit'
    BY <1>7 DEF Inv, Over, NoLineWithheld, WaitsWithinLimit
  <2> QED
    BY <1>3, <1>4, <1>5, <1>7, <2>1 DEF Inv
<1>8. CASE /\ status' \in {"need_more", "end"}
           /\ error' = error /\ Lines' /\ Over'
           /\ NoLineWithheld' /\ WaitsWithinLimit'
  <2>1. Entered'
    BY <1>8 DEF Entered
  <2> QED
    BY <1>3, <1>4, <1>5, <1>8, <2>1 DEF Inv
<1> QED
  BY <1>6, <1>7, <1>8

LEMMA OutcomeKeeps ==
    ASSUME Inv, status = "lexing", Outcome
    PROVE  Inv'
<1>1. /\ Lexes /\ literal = NoLiteral /\ error = NoError /\ Len(input) \in Nat
      /\ mode' = "normal"
  BY EnteredLexes DEF Outcome
<1>2. mode' \in Modes
  BY <1>1 DEF Modes, Promise!Modes
<1>3. /\ fed \in Nat /\ pos \in Nat /\ pos \in pos..fed
      /\ spaces \in 0..MaxToken /\ lineStart \in BOOLEAN
  BY <1>1 DEF Lexes, Inv, TypeOK
<1> DEFINE r == Reading
<1> HIDE DEF r
<1>4. CASE Refuses(r)
  <2>1. /\ UNCHANGED <<input, fed, finished, base, lineStart, pos, depth, literal, token, scan>>
        /\ spaces' \in {spaces, 0} /\ status' = "error"
        /\ error' = [kind |-> r.kind, at |-> r.at]
        /\ r.kind \in ErrorKinds /\ r.at \in 0..Len(input)
    BY <1>4 DEF Refuses, Fail, inputVars
  <2>2. error' \in [kind : ErrorKinds, at : 0..Len(input)]
    BY <2>1
  <2>3. spaces' \in 0..MaxToken
    BY <1>3, <2>1, LimitsAre
  <2>4. Gap'
    <3>1. CASE spaces' = spaces
      BY <2>1, <3>1 DEF Inv, Gap, At
    <3>2. CASE spaces' = 0
      <4>1. \A p \in Nat : 0 <= p /\ \A i \in (p - 0)..(p - 1) : FALSE
        OBVIOUS
      <4> QED
        BY <1>3, <2>1, <3>2, <4>1 DEF Gap
    <3> QED
      BY <2>1, <3>1, <3>2
  <2>5. InLiteral'
    BY <1>1, <2>1 DEF InLiteral, NoLiteral, Promise!NoLiteral
  <2> QED
    BY <1>2, <1>3, <2>1, <2>2, <2>3, <2>4, <2>5, StallKeeps
<1>5. CASE Waits
  <2>1. /\ UNCHANGED <<input, fed, finished, base, lineStart, spaces, pos, depth, literal,
                       token, error>>
        /\ status' = "need_more"
        /\ scan' = scan \/ (scan'.on /\ Half(scan'))
        /\ \A o \in pos..(fed - 1) : At(o) # "lf"
        /\ fed - pos <= MaxToken \/ At(pos) \in {"{", "~"}
    BY <1>5 DEF Waits, Forget, inputVars
  <2>2. UNCHANGED <<input, pos, spaces, literal, fed>>
    BY <2>1
  <2>3. Gap'
    BY <2>2 DEF Inv, Gap, At
  <2>4. InLiteral'
    BY <1>1, <2>2 DEF InLiteral, NoLiteral, Promise!NoLiteral
  <2>5. NoLineWithheld' /\ WaitsWithinLimit'
    BY <2>1, <2>2 DEF NoLineWithheld, WaitsWithinLimit, At
  <2>6. Lines'
    BY <2>1 DEF Inv, Lines, NoError, Promise!NoError
  <2>7. Over'
    BY <2>1 DEF Inv, Over
  <2> QED
    BY <1>2, <1>3, <2>1, <2>3, <2>4, <2>5, <2>6, <2>7, StallKeeps
<1>6. CASE Gives(r)
  <2> DEFINE kind == r.kind
             len == r.len
             n == r.number
  <2>1. /\ len \in Nat /\ pos + len <= fed /\ kind # "none"
        /\ Emit(kind, len, n) /\ scan' = NoScan /\ lineStart' = (kind = "eol")
        /\ depth' \in 0..MaxDepth
        /\ UNCHANGED <<input, fed, finished, base, error>>
    BY <1>6 DEF Gives, inputVars
  <2>2. scan'.on = FALSE
    BY <2>1 DEF NoScan
  <2>3. /\ literal' \in {NoLiteral} \cup 0..MaxLiteral
        /\ kind = "eol" => literal' = NoLiteral
    BY <1>6 DEF Gives
  <2> HIDE DEF kind, len, n
  <2> QED
    BY <1>2, <2>1, <2>2, <2>3, TokenKeeps
<1> QED
  BY <1>4, <1>5, <1>6 DEF Outcome, r

\* What is buffered of a literal.
LEMMA ChunkIs ==
    ASSUME Inv, literal # NoLiteral, literal # 0, pos < fed
    PROVE  LET chunk == Min({literal, fed - pos}) IN
           /\ chunk \in 1..literal /\ pos + chunk <= fed
           /\ literal - chunk \in 0..MaxLiteral
<1>1. /\ fed \in Nat /\ pos \in Nat
      /\ literal \in 1..MaxLiteral
  <2>1. literal \in {NoLiteral} \cup 0..MaxLiteral
    BY DEF Inv, TypeOK
  <2>2. fed \in Nat /\ pos \in Nat
    BY InputIsSeq DEF Inv, TypeOK
  <2> QED
    BY <2>1, <2>2, LimitsAre
<1> DEFINE chunk == Min({literal, fed - pos})
<1>2. chunk = IF literal <= fed - pos THEN literal ELSE fed - pos
  BY <1>1, LimitsAre, MinOfTwo
<1> HIDE DEF chunk
<1>3. chunk \in 1..literal /\ pos + chunk <= fed /\ literal - chunk \in 0..MaxLiteral
  BY <1>1, <1>2, LimitsAre
<1> QED
  BY <1>3 DEF chunk

LEMMA LiteralKeeps ==
    ASSUME Inv, NextLiteral
    PROVE  Inv'
<1> DEFINE chunk == Min({literal, fed - pos})
<1>1. /\ fed \in Nat /\ pos \in Nat /\ pos \in 0..Len(input) /\ pos <= fed
      /\ spaces = 0 /\ ~lineStart /\ scan = NoScan /\ mode \in Modes
      /\ depth \in 0..MaxDepth /\ literal \in {NoLiteral} \cup 0..MaxLiteral
  BY InputIsSeq DEF Inv, TypeOK, NextLiteral, InLiteral, Scanning
<1>2. /\ status # "lexing" /\ error = NoError /\ literal # NoLiteral
      /\ UNCHANGED <<input, fed, finished, base, depth, scan, mode>>
  BY DEF NextLiteral, Idle, inputVars
<1>3. NoScan.on = FALSE
  BY DEF NoScan
<1>4. CASE literal = 0
  <2>1. /\ Emit("literal_end", 0, 0)
        /\ literal' = NoLiteral
        /\ UNCHANGED <<lineStart, error>>
    BY <1>4 DEF NextLiteral
  <2>2. lineStart' = ("literal_end" = "eol") /\ pos + 0 <= fed
    BY <1>1, <2>1 DEF Inv, TypeOK
  <2> QED
    BY <1>1, <1>2, <1>3, <2>1, <2>2, TokenKeeps
<1>5. CASE literal # 0 /\ pos < fed
  <2>1. /\ Emit("literal_data", chunk, 0)
        /\ literal' = literal - chunk
        /\ lineStart' = FALSE
        /\ UNCHANGED error
    BY <1>5 DEF NextLiteral
  <2>2. chunk \in 1..literal /\ pos + chunk <= fed /\ literal - chunk \in 0..MaxLiteral
    BY <1>2, <1>5, ChunkIs
  <2> HIDE DEF chunk
  <2>3. chunk \in Nat
    BY <2>2
  <2>4. lineStart' = ("literal_data" = "eol")
    BY <2>1
  <2> QED
    BY <1>1, <1>2, <1>3, <2>1, <2>2, <2>3, <2>4, TokenKeeps
<1>6. CASE literal # 0 /\ ~(pos < fed)
  <2>1. /\ UNCHANGED <<pos, lineStart, spaces, literal, token>>
        /\ IF finished THEN Fail("unexpected_end", pos)
                       ELSE status' = "need_more" /\ UNCHANGED error
    BY <1>6 DEF NextLiteral
  <2>2. Gap'
    <3>1. UNCHANGED <<input, pos, spaces>>
      BY <1>2, <2>1
    <3> QED
      BY <3>1 DEF Inv, Gap, At
  <2>3. InLiteral'
    BY <1>2, <2>1 DEF Inv, InLiteral, NoLiteral, Promise!NoLiteral
  <2>4. /\ pos' \in pos..fed /\ spaces' \in 0..MaxToken /\ lineStart' \in BOOLEAN
    BY <1>1, <2>1, LimitsAre DEF Inv, TypeOK
  <2>5. CASE finished
    <3>1. status' = "error" /\ error' = [kind |-> "unexpected_end", at |-> pos]
      BY <2>1, <2>5 DEF Fail
    <3>2. error' \in [kind : ErrorKinds, at : 0..Len(input)]
      BY <1>1, <3>1 DEF ErrorKinds
    <3> QED
      BY <1>1, <1>2, <2>1, <2>2, <2>3, <2>4, <3>1, <3>2, StallKeeps
  <2>6. CASE ~finished
    <3>1. status' = "need_more" /\ error' = error
      BY <2>1, <2>6
    <3>2. pos = fed /\ (\A o \in pos..(fed - 1) : FALSE) /\ fed - pos <= MaxToken
      BY <1>1, <1>6, LimitsAre
    <3>3. NoLineWithheld' /\ WaitsWithinLimit'
      BY <1>2, <2>1, <3>2 DEF NoLineWithheld, WaitsWithinLimit
    <3>4. Lines'
      BY <1>2, <2>1, <3>1 DEF Inv, Lines, NoError, Promise!NoError
    <3>5. Over'
      BY <1>2, <3>1 DEF Inv, Over
    <3> QED
      BY <1>1, <1>2, <2>1, <2>2, <2>3, <2>4, <3>1, <3>3, <3>4, <3>5, StallKeeps
  <2> QED
    BY <2>5, <2>6
<1> QED
  BY <1>4, <1>5, <1>6

-----------------------------------------------------------------------------
(* A call is entered.                                                      *)

\* What a call does that skips k spaces.
Skips(m, k) ==
    /\ pos' = pos + k /\ spaces' = spaces + k
    /\ lineStart' = (lineStart /\ k = 0)
    /\ \/ scan' = NoScan
       \/ scan' = scan /\ k = 0 /\ scan.on /\ scan.mode = m
    /\ error = NoError /\ literal = NoLiteral /\ Idle
    /\ UNCHANGED <<input, fed, finished, base, depth, literal, token>>
    /\ \/ /\ spaces + k = MaxToken /\ pos + k < fed /\ At(pos + k) = "sp"
          /\ Fail("token_too_long", pos + k) /\ UNCHANGED mode
       \/ /\ pos + k = fed
          /\ Starved(lineStart /\ k = 0, spaces + k, pos + k) /\ UNCHANGED mode
       \/ /\ pos + k < fed /\ At(pos + k) # "sp"
          /\ status' = "lexing" /\ mode' = m /\ UNCHANGED error

LEMMA EnterSkips ==
    ASSUME Inv, NEW m \in Modes, Enter(m)
    PROVE  \E k \in Nat : /\ pos + k <= fed /\ spaces + k <= MaxToken
                          /\ \A i \in pos..(pos + k - 1) : At(i) = "sp"
                          /\ Skips(m, k)
<1> DEFINE resumed == Resumes(m)
           end == RunEnd(pos, {"sp"})
           skipped == IF resumed THEN 0 ELSE end - pos
           room == MaxToken - spaces
           k == Min({skipped, room})
<1>1. /\ input \in Inputs /\ Len(input) \in Nat /\ fed \in Nat /\ pos \in Nat /\ pos <= fed
      /\ spaces \in Nat /\ spaces <= MaxToken /\ lineStart \in BOOLEAN
  BY InputIsSeq, LimitsAre DEF Inv, TypeOK
<1>2. /\ Idle
      /\ error = NoError /\ literal = NoLiteral
      /\ scan' = IF resumed THEN scan ELSE NoScan
      /\ pos' = pos + k
      /\ spaces' = spaces + k
      /\ lineStart' = (lineStart /\ pos' = pos)
      /\ IF skipped > room
           THEN Fail("token_too_long", pos') /\ UNCHANGED mode
         ELSE IF pos' = fed
           THEN Starved(lineStart', spaces', pos') /\ UNCHANGED mode
         ELSE status' = "lexing" /\ mode' = m /\ UNCHANGED error
      /\ UNCHANGED <<input, fed, finished, base, depth, literal, token>>
  BY DEF Enter, inputVars
<1>3. /\ end \in pos..fed
      /\ \A i \in pos..(end - 1) : At(i) = "sp"
      /\ end < fed => At(end) # "sp"
  BY <1>1, RunEndProperties
<1>4. resumed => scan.on /\ scan.mode = m /\ At(pos) # "sp" /\ pos < fed
  <2>1. resumed => scan.on /\ scan.mode = m /\ Half(scan)
    BY DEF Resumes, Inv, Scanning
  <2>2. resumed => scan.len \in Nat /\ scan.len > 0 /\ pos + scan.len <= fed /\ At(pos) # "sp"
    BY <2>1, LimitsAre DEF Half
  <2> QED
    BY <1>1, <2>1, <2>2
<1> HIDE DEF end, resumed
<1>5. room \in Nat /\ skipped \in Nat /\ pos + skipped <= fed
  BY <1>1, <1>3, LimitsAre
<1>6. /\ \A i \in pos..(pos + skipped - 1) : At(i) = "sp"
      /\ pos + skipped < fed => At(pos + skipped) # "sp"
      /\ resumed => skipped = 0
  <2>1. CASE resumed
    <3>1. skipped = 0 /\ pos + 0 = pos /\ \A i \in pos..(pos + 0 - 1) : FALSE
      BY <1>1, <2>1
    <3> QED
      BY <1>4, <2>1, <3>1
  <2>2. CASE ~resumed
    <3>1. pos + skipped = end /\ pos + skipped - 1 = end - 1
      BY <1>1, <1>3, <2>2
    <3> QED
      BY <1>3, <2>2, <3>1
  <2> QED
    BY <2>1, <2>2
<1> HIDE DEF skipped
<1>7. k = IF skipped <= room THEN skipped ELSE room
  <2> HIDE DEF room
  <2> QED
    BY <1>5, MinOfTwo
<1> HIDE DEF k
<1>8. k \in Nat /\ pos + k <= fed /\ spaces + k <= MaxToken /\ k <= skipped
      /\ (resumed => k = 0)
  BY <1>1, <1>5, <1>6, <1>7, LimitsAre
<1>9. \A i \in pos..(pos + k - 1) : At(i) = "sp"
  <2>1. \A i \in pos..(pos + k - 1) : i \in pos..(pos + skipped - 1)
    BY <1>1, <1>5, <1>8
  <2> QED
    BY <1>6, <2>1
<1>10. lineStart' = (lineStart /\ k = 0)
  <2>1. pos + k = pos <=> k = 0
    BY <1>1, <1>8
  <2> QED
    BY <1>2, <2>1
<1>11. \/ scan' = NoScan
       \/ scan' = scan /\ k = 0 /\ scan.on /\ scan.mode = m
  BY <1>2, <1>4, <1>8
<1>12. \/ /\ spaces + k = MaxToken /\ pos + k < fed /\ At(pos + k) = "sp"
          /\ Fail("token_too_long", pos + k) /\ UNCHANGED mode
       \/ /\ pos + k = fed
          /\ Starved(lineStart /\ k = 0, spaces + k, pos + k) /\ UNCHANGED mode
       \/ /\ pos + k < fed /\ At(pos + k) # "sp"
          /\ status' = "lexing" /\ mode' = m /\ UNCHANGED error
  <2>1. CASE skipped > room
    <3>1. k = room /\ pos + k \in pos..(pos + skipped - 1)
      BY <1>1, <1>5, <1>7, <2>1
    <3>2. spaces + k = MaxToken /\ pos + k < fed
      BY <1>1, <1>5, <2>1, <3>1, LimitsAre
    <3>3. Fail("token_too_long", pos') /\ UNCHANGED mode /\ pos' = pos + k
      BY <1>2, <2>1
    <3> QED
      BY <1>6, <3>1, <3>2, <3>3 DEF Fail
  <2>2. CASE ~(skipped > room) /\ pos + k = fed
    <3>1. /\ Starved(lineStart', spaces', pos') /\ UNCHANGED mode
          /\ pos' = pos + k /\ spaces' = spaces + k
      BY <1>2, <2>2
    <3>2. Starved(lineStart /\ k = 0, spaces + k, pos + k)
      BY <1>10, <3>1 DEF Starved, Fail
    <3> QED
      BY <2>2, <3>1, <3>2
  <2>3. CASE ~(skipped > room) /\ pos + k # fed
    <3>1. k = skipped /\ pos + k < fed
      BY <1>1, <1>5, <1>7, <1>8, <2>3
    <3>2. status' = "lexing" /\ mode' = m /\ UNCHANGED error
      BY <1>2, <2>3
    <3> QED
      BY <1>6, <3>1, <3>2
  <2> QED
    BY <2>1, <2>2, <2>3
<1>13. Skips(m, k)
  BY <1>2, <1>10, <1>11, <1>12 DEF Skips
<1> QED
  BY <1>8, <1>9, <1>13

LEMMA EnterKeeps ==
    ASSUME Inv, NEW m \in Modes, Enter(m)
    PROVE  Inv'
<1>1. PICK k \in Nat : /\ pos + k <= fed /\ spaces + k <= MaxToken
                       /\ \A i \in pos..(pos + k - 1) : At(i) = "sp"
                       /\ Skips(m, k)
  BY EnterSkips
<1>2. /\ input \in Inputs /\ Len(input) \in Nat /\ fed \in Nat /\ pos \in Nat /\ fed <= Len(input)
      /\ spaces \in Nat /\ lineStart \in BOOLEAN /\ mode \in Modes
      /\ spaces <= pos
      /\ (finished => fed = Len(input)) /\ finished \in BOOLEAN
  BY InputIsSeq, LimitsAre DEF Inv, TypeOK, Gap, Over
<1>3. /\ pos' = pos + k /\ spaces' = spaces + k
      /\ lineStart' = (lineStart /\ k = 0)
      /\ \/ scan' = NoScan
         \/ scan' = scan /\ k = 0 /\ scan.on /\ scan.mode = m
      /\ error = NoError /\ literal = NoLiteral
      /\ UNCHANGED <<input, fed, finished, base, depth, literal, token>>
  BY <1>1 DEF Skips
<1>4. \/ scan' = NoScan
      \/ scan' = scan /\ pos' = pos
  BY <1>2, <1>3
<1>5. Gap'
  <2> DEFINE p == pos + k
             n == spaces + k
  <2>1. n <= p /\ p \in Nat /\ n \in Nat
    BY <1>1, <1>2
  <2>2. ASSUME NEW i \in (p - n)..(p - 1) PROVE At(i) = "sp"
    <3>1. i \in (pos - spaces)..(pos - 1) \/ i \in pos..(pos + k - 1)
      BY <1>2
    <3>2. \A j \in (pos - spaces)..(pos - 1) : At(j) = "sp"
      BY DEF Inv, Gap
    <3> QED
      BY <1>1, <3>1, <3>2
  <2> HIDE DEF p, n
  <2>3. pos' = p /\ spaces' = n /\ input' = input
    BY <1>3 DEF p, n
  <2> QED
    BY <2>1, <2>2, <2>3 DEF Gap, At
<1>6. InLiteral'
  BY <1>3 DEF InLiteral, NoLiteral, Promise!NoLiteral
<1>7. pos' \in pos..fed /\ spaces' \in 0..MaxToken /\ lineStart' \in BOOLEAN
  <2>1. pos + k \in pos..fed /\ spaces + k \in 0..MaxToken
    BY <1>1, <1>2, LimitsAre
  <2> QED
    BY <1>3, <2>1
<1>8. lineStart' <=> token'.kind \in {"none", "eol"} /\ spaces' = 0
  <2>1. lineStart <=> token.kind \in {"none", "eol"} /\ spaces = 0
    BY <1>3 DEF Inv, Lines
  <2>2. spaces + k = 0 <=> spaces = 0 /\ k = 0
    BY <1>2
  <2> QED
    BY <1>3, <2>1, <2>2
<1>9. CASE /\ spaces + k = MaxToken /\ pos + k < fed /\ At(pos + k) = "sp"
           /\ Fail("token_too_long", pos + k) /\ UNCHANGED mode
  <2>1. pos + k \in 0..Len(input)
    BY <1>1, <1>2
  <2>2. status' = "error" /\ error' \in [kind : ErrorKinds, at : 0..Len(input)]
    BY <1>9, <2>1 DEF Fail, ErrorKinds
  <2>3. mode' \in Modes
    BY <1>2, <1>9
  <2> QED
    BY <1>3, <1>4, <1>5, <1>6, <1>7, <2>2, <2>3, StallKeeps
<1>10. CASE /\ pos + k = fed
            /\ Starved(lineStart /\ k = 0, spaces + k, pos + k) /\ UNCHANGED mode
  <2>1. mode' \in Modes
    BY <1>2, <1>10
  <2>2. pos' = fed /\ fed' = fed
    BY <1>3, <1>10
  <2>3. CASE finished /\ ~(lineStart /\ k = 0 /\ spaces + k = 0)
    <3>1. Fail("unexpected_end", pos + k)
      BY <1>10, <2>3 DEF Starved
    <3>2. pos + k \in 0..Len(input)
      BY <1>1, <1>2
    <3>3. status' = "error" /\ error' \in [kind : ErrorKinds, at : 0..Len(input)]
      BY <3>1, <3>2 DEF Fail, ErrorKinds
    <3> QED
      BY <1>3, <1>4, <1>5, <1>6, <1>7, <2>1, <3>3, StallKeeps
  <2>4. CASE ~(finished /\ ~(lineStart /\ k = 0 /\ spaces + k = 0))
    <3>1. /\ error' = error
          /\ status' = IF finished THEN "end" ELSE "need_more"
      BY <1>2, <1>10, <2>4 DEF Starved
    <3>2. Lines'
      BY <1>8 DEF Lines
    <3>3. Over'
      <4>1. finished => lineStart' /\ spaces' = 0
        BY <1>3, <2>4
      <4> QED
        BY <1>2, <1>3, <2>2, <3>1, <4>1 DEF Over, NoError, Promise!NoError, NoLiteral,
           Promise!NoLiteral
    <3>4. NoLineWithheld' /\ WaitsWithinLimit'
      <4>1. (\A o \in fed..(fed - 1) : FALSE) /\ fed - fed <= MaxToken
        BY <1>2, LimitsAre
      <4> QED
        BY <2>2, <4>1 DEF NoLineWithheld, WaitsWithinLimit
    <3>5. status' \in {"need_more", "end"}
      BY <3>1
    <3> QED
      BY <1>3, <1>4, <1>5, <1>6, <1>7, <2>1, <3>1, <3>2, <3>3, <3>4, <3>5, StallKeeps
  <2> QED
    BY <2>3, <2>4
<1>11. CASE /\ pos + k < fed /\ At(pos + k) # "sp"
            /\ status' = "lexing" /\ mode' = m /\ UNCHANGED error
  <2>1. Lines'
    BY <1>8 DEF Lines
  <2>2. At(pos)' # "sp" /\ pos' < fed'
    BY <1>3, <1>11 DEF At
  <2>3. scan'.on => scan'.mode = mode'
    BY <1>3, <1>11 DEF NoScan
  <2>4. Entered'
    BY <1>3, <1>11, <2>2, <2>3
    DEF Entered, NoError, Promise!NoError, NoLiteral, Promise!NoLiteral
  <2>5. mode' \in Modes
    BY <1>11
  <2> QED
    BY <1>3, <1>4, <1>5, <1>6, <1>7, <1>11, <2>1, <2>4, <2>5, StallKeeps
<1> QED
  BY <1>1, <1>9, <1>10, <1>11 DEF Skips

\* Stuttering.
LEMMA StutterKeeps ==
    ASSUME Inv, UNCHANGED lexVars
    PROVE  Inv'
<1>1. UNCHANGED <<input, fed, finished, base, pos, lineStart, spaces, depth, scan, literal,
                  error, token, status, mode>>
  BY DEF lexVars
<1>2. TypeOK'
  BY <1>1 DEF Inv, TypeOK
<1>3. Scanning'
  <2>1. ~scan.on => scan = NoScan
    BY DEF Inv, Scanning
  <2>2. scan.on => Half(scan')
    BY <1>1 DEF Inv, Scanning
  <2>3. fed \in Nat /\ pos \in Nat
    BY InputIsSeq DEF Inv, TypeOK
  <2>4. scan.on => Half(scan)'
    BY <1>1, <2>2, <2>3, HalfIsKept
  <2> QED
    BY <1>1, <2>1, <2>4 DEF Scanning, NoScan
<1>4. Gap' /\ Entered' /\ NoLineWithheld' /\ WaitsWithinLimit'
  BY <1>1 DEF Inv, Gap, Entered, NoLineWithheld, WaitsWithinLimit, At
<1> QED
  BY <1>1, <1>2, <1>3, <1>4
  DEF Inv, Tokens, InLiteral, Lines, Over

LEMMA InvKept ==
    ASSUME Inv, [Next]_lexVars
    PROVE  Inv'
<1>1. ASSUME NEW n \in 1..(Len(input) - fed), Feed(n) PROVE Inv'
  <2>1. n \in Nat /\ FALSE \in BOOLEAN
    BY InputIsSeq DEF Inv, TypeOK
  <2> QED
    BY <1>1, <2>1, AcceptKeeps DEF Feed
<1>2. ASSUME Finish PROVE Inv'
  <2>1. 0 \in Nat /\ TRUE \in BOOLEAN
    OBVIOUS
  <2> QED
    BY <1>2, <2>1, AcceptKeeps DEF Finish
<1>3. ASSUME Call PROVE Inv'
  BY <1>3, FailedKeeps, LiteralKeeps, EnterKeeps DEF Call
<1>4. ASSUME Dispatch PROVE Inv'
  BY <1>4, DispatchOutcome, OutcomeKeeps
<1> QED
  BY <1>1, <1>2, <1>3, <1>4, StutterKeeps DEF Next

LEMMA Invariance == Spec => []Inv
<1>1. Init => Inv
  BY InitKeeps
<1>2. Inv /\ [Next]_lexVars => Inv'
  BY InvKept
<1> QED
  BY <1>1, <1>2, PTL DEF Spec

\* Every variable has its type and the depth stays within its limit, whatever
\* the server sends, however it is split and in whatever modes it is read.
THEOREM TypeCorrect == Spec => []TypeOK
<1>1. Inv => TypeOK
  BY DEF Inv
<1> QED
  BY <1>1, Invariance, PTL

\* A lexer that asks for more has no line end among the bytes it keeps
\* (lexer.cpp: every way out of next() with need_more).
THEOREM NoLineIsWithheld == Spec => []NoLineWithheld
<1>1. Inv => NoLineWithheld
  BY DEF Inv
<1> QED
  BY <1>1, Invariance, PTL

\* A lexer that asks for more keeps no more than limits.max_token_bytes, unless
\* it is a literal's header that is arriving.
THEOREM WaitsAreLimited == Spec => []WaitsWithinLimit
<1>1. Inv => WaitsWithinLimit
  BY DEF Inv
<1> QED
  BY <1>1, Invariance, PTL

-----------------------------------------------------------------------------
(* Every step is one of the promise, or none that the promise sees.        *)

PromisedStep == [Promise!Next]_(Promise!vars)

\* The spaces in front of the next token: those that are pending, and k more.
LEMMA SpacesAre ==
    ASSUME Inv, NEW k \in Nat, pos + k <= fed,
           \A i \in pos..(pos + k - 1) : At(i) = "sp"
    PROVE  /\ pos - spaces \in Nat
           /\ pos + k = Len(input) \/ At(pos + k) # "sp" => Promise!SpacesAt = spaces + k
           /\ pos + k < Len(input) /\ At(pos + k) = "sp" => Promise!SpacesAt > spaces + k
<1> DEFINE o == pos - spaces
           e == pos + k
<1>1. /\ input \in Inputs /\ Len(input) \in Nat /\ fed \in Nat /\ fed <= Len(input)
      /\ pos \in Nat /\ spaces \in Nat /\ spaces <= pos
  BY InputIsSeq, LimitsAre DEF Inv, TypeOK, Gap
<1>2. o \in Nat /\ e \in Nat /\ o <= e /\ e <= Len(input) /\ e - o = spaces + k
  BY <1>1
<1>3. ASSUME NEW i \in o..(e - 1) PROVE At(i) \in {"sp"}
  <2>1. i \in (pos - spaces)..(pos - 1) \/ i \in pos..(pos + k - 1)
    BY <1>1
  <2>2. \A j \in (pos - spaces)..(pos - 1) : At(j) = "sp"
    BY DEF Inv, Gap
  <2> QED
    BY <2>1, <2>2
<1> DEFINE r == Promise!RunEnd(o, {"sp"})
<1>4. Promise!SpacesAt = r - o
  BY DEF Promise!SpacesAt
<1>5. e = Len(input) \/ At(e) # "sp" => Promise!SpacesAt = spaces + k
  <2>1. e = Len(input) \/ At(e) \notin {"sp"} => r = e
    <3> HIDE DEF o, e
    <3> QED
      BY <1>1, <1>2, <1>3, WholeRun
  <2> HIDE DEF o, e, r
  <2> QED
    BY <1>2, <1>4, <2>1
<1>6. ASSUME e < Len(input), At(e) = "sp" PROVE Promise!SpacesAt > spaces + k
  <2> HIDE DEF o, e
  <2> DEFINE f == e + 1
  <2>1. f \in Nat /\ o <= f /\ f <= Len(input)
    BY <1>1, <1>2, <1>6
  <2>2. \A i \in o..(f - 1) : i \in o..(e - 1) \/ i = e
    BY <1>2
  <2>3. \A i \in o..(f - 1) : At(i) \in {"sp"}
    BY <1>3, <1>6, <2>2
  <2>4. r \in f..Len(input)
    <3> HIDE DEF f
    <3> QED
      BY <1>1, <1>2, <2>1, <2>3, WholeRun
  <2> HIDE DEF r
  <2> QED
    BY <1>1, <1>2, <1>4, <2>1, <2>4
<1> QED
  BY <1>2, <1>5, <1>6

\* What the promise sees is left alone.
LEMMA UnseenStep ==
    ASSUME UNCHANGED <<input, depth, literal, token, error>>,
           pos' - spaces' = pos - spaces,
           status' = "end" <=> status = "end"
    PROVE  PromisedStep
<1>1. (status' = "end") = (status = "end")
  OBVIOUS
<1> QED
  BY <1>1 DEF PromisedStep, Promise!vars

LEMMA PromisedFailure ==
    ASSUME NEW kind, NEW o, Fail(kind, o), pos' - spaces' \in Nat,
           UNCHANGED <<depth, literal, token>>
    PROVE  Promise!Fails(kind, o)
<1> QED
  BY DEF Fail, Promise!Fails

\* More input is none of the promise's business, and cannot follow its end.
LEMMA AcceptIsUnseen ==
    ASSUME Inv, NEW n \in Nat, NEW over \in BOOLEAN, Accept(n, over)
    PROVE  PromisedStep
<1>1. /\ UNCHANGED <<input, depth, literal, token, error, pos, spaces>>
      /\ status' = "idle" /\ ~finished
  BY DEF Accept
<1>2. status # "end"
  BY <1>1 DEF Inv, Over
<1> QED
  BY <1>1, <1>2, UnseenStep

LEMMA FailedIsUnseen ==
    ASSUME Inv, NextFailed
    PROVE  PromisedStep
<1>1. UNCHANGED <<input, depth, literal, token, error, pos, spaces>> /\ status' = "error"
  BY DEF NextFailed, inputVars
<1>2. status # "end"
  BY DEF NextFailed, Inv, Over
<1> QED
  BY <1>1, <1>2, UnseenStep

\* A literal comes in pieces, ends, or is cut short.
LEMMA LiteralIsPromised ==
    ASSUME Inv, NextLiteral
    PROVE  PromisedStep
<1> DEFINE chunk == Min({literal, fed - pos})
<1>1. /\ pos \in Nat /\ fed \in Nat /\ pos <= fed /\ fed <= Len(input) /\ Len(input) \in Nat
      /\ spaces = 0 /\ pos - spaces = pos /\ (finished => fed = Len(input))
      /\ literal \in {NoLiteral} \cup 0..MaxLiteral
  BY InputIsSeq DEF Inv, TypeOK, NextLiteral, InLiteral, Over
<1>2. /\ error = NoError /\ literal # NoLiteral /\ status # "end"
      /\ UNCHANGED <<input, fed, finished, base, depth, scan, mode>>
  BY DEF NextLiteral, Inv, Over, inputVars
<1>3. Promise!NoError = NoError /\ Promise!NoLiteral = NoLiteral
  BY DEF NoError, NoLiteral
<1>4. CASE literal = 0
  <2>1. /\ token' = [kind |-> "literal_end", spaces |-> 0, first |-> pos, len |-> 0, number |-> 0]
        /\ spaces' = 0 /\ pos' = pos + 0 /\ status' = "token"
        /\ literal' = NoLiteral
        /\ UNCHANGED error
    BY <1>1, <1>4 DEF NextLiteral, Emit
  <2>2. pos' - spaces' = pos - spaces
    BY <1>1, <2>1
  <2>3. (status' = "end") = (status = "end")
    BY <1>2, <2>1
  <2>4. Promise!LiteralEnd
    BY <1>1, <1>2, <1>3, <1>4, <2>1, <2>2, <2>3 DEF Promise!LiteralEnd
  <2> QED
    BY <2>4 DEF PromisedStep, Promise!Next
<1>5. CASE literal # 0 /\ pos < fed
  <2>1. /\ token' = [kind |-> "literal_data", spaces |-> 0, first |-> pos, len |-> chunk,
                     number |-> 0]
        /\ spaces' = 0 /\ pos' = pos + chunk /\ status' = "token"
        /\ literal' = literal - chunk
        /\ UNCHANGED error
    BY <1>1, <1>5 DEF NextLiteral, Emit
  <2>2. chunk \in 1..literal /\ pos + chunk <= fed
    BY <1>2, <1>5, ChunkIs
  <2> HIDE DEF chunk
  <2>3. chunk \in Nat /\ pos + chunk <= Len(input)
    <3>1. literal \in Nat
      BY <1>1, <1>2, LimitsAre
    <3> QED
      BY <1>1, <2>2, <3>1
  <2>4. pos' - spaces' = (pos - spaces) + chunk
    BY <1>1, <2>1, <2>3
  <2>5. (status' = "end") = (status = "end")
    BY <1>2, <2>1
  <2>6. Promise!LiteralData(chunk)
    BY <1>1, <1>2, <1>3, <2>1, <2>2, <2>3, <2>4, <2>5 DEF Promise!LiteralData, Promise!Length
  <2> QED
    BY <2>2, <2>6 DEF PromisedStep, Promise!Next
<1>6. CASE literal # 0 /\ ~(pos < fed)
  <2>1. /\ UNCHANGED <<pos, lineStart, spaces, literal, token>>
        /\ IF finished THEN Fail("unexpected_end", pos)
                       ELSE status' = "need_more" /\ UNCHANGED error
    BY <1>6 DEF NextLiteral
  <2>2. CASE finished
    <3>1. pos = Len(input) /\ literal > 0
      BY <1>1, <1>2, <1>6, <2>2, LimitsAre
    <3>2. Fail("unexpected_end", Len(input)) /\ pos' - spaces' \in Nat
      BY <1>1, <2>1, <2>2, <3>1
    <3>3. Promise!Fails("unexpected_end", Promise!Length)
      BY <1>2, <2>1, <3>2, PromisedFailure DEF Promise!Length
    <3>4. (status' = "end") = (status = "end")
      BY <1>2, <3>2 DEF Fail
    <3>5. Promise!LiteralCutShort
      BY <1>1, <1>2, <1>3, <3>1, <3>3, <3>4 DEF Promise!LiteralCutShort, Promise!Length
    <3> QED
      BY <3>5 DEF PromisedStep, Promise!Next
  <2>3. CASE ~finished
    <3>1. UNCHANGED <<input, depth, literal, token, error, pos, spaces>> /\ status' = "need_more"
      BY <1>2, <2>1, <2>3
    <3> QED
      BY <1>2, <3>1, UnseenStep
  <2> QED
    BY <2>2, <2>3
<1> QED
  BY <1>4, <1>5, <1>6

\* A call is entered: nothing is seen of it unless the spaces are too many or
\* the input is over.
LEMMA EnterIsPromised ==
    ASSUME Inv, NEW m \in Modes, Enter(m)
    PROVE  PromisedStep
<1>1. PICK k \in Nat : /\ pos + k <= fed /\ spaces + k <= MaxToken
                       /\ \A i \in pos..(pos + k - 1) : At(i) = "sp"
                       /\ Skips(m, k)
  BY EnterSkips
<1>2. /\ input \in Inputs /\ Len(input) \in Nat /\ fed \in Nat /\ pos \in Nat /\ fed <= Len(input)
      /\ spaces \in Nat /\ spaces <= pos /\ lineStart \in BOOLEAN
      /\ (finished => fed = Len(input)) /\ finished \in BOOLEAN
  BY InputIsSeq, LimitsAre DEF Inv, TypeOK, Gap, Over
<1>3. /\ pos' = pos + k /\ spaces' = spaces + k
      /\ error = NoError /\ literal = NoLiteral
      /\ UNCHANGED <<input, depth, literal, token>>
  BY <1>1 DEF Skips
<1>4. pos' - spaces' = pos - spaces /\ pos' - spaces' \in Nat
  BY <1>2, <1>3
<1>5. /\ pos + k = Len(input) \/ At(pos + k) # "sp" => Promise!SpacesAt = spaces + k
      /\ pos + k < Len(input) /\ At(pos + k) = "sp" => Promise!SpacesAt > spaces + k
  BY <1>1, SpacesAre
<1>6. Promise!NoError = NoError /\ Promise!NoLiteral = NoLiteral
  BY DEF NoError, NoLiteral
<1>7. status = "end" => finished /\ pos = fed /\ lineStart /\ spaces = 0
  BY DEF Inv, Over
<1>8. CASE /\ spaces + k = MaxToken /\ pos + k < fed /\ At(pos + k) = "sp"
           /\ Fail("token_too_long", pos + k) /\ UNCHANGED mode
  <2>1. Promise!SpacesAt > MaxToken
    BY <1>2, <1>5, <1>8
  <2>2. (pos - spaces) + MaxToken = pos + k
    BY <1>2, <1>8
  <2>3. Promise!Fails("token_too_long", (pos - spaces) + MaxToken)
    BY <1>3, <1>4, <1>8, <2>2, PromisedFailure
  <2>4. (status' = "end") = (status = "end")
    BY <1>2, <1>7, <1>8 DEF Fail
  <2>5. Promise!TooManySpaces
    BY <1>3, <1>6, <2>1, <2>3, <2>4 DEF Promise!TooManySpaces
  <2> QED
    BY <2>5 DEF PromisedStep, Promise!Next
<1>9. CASE /\ pos + k = fed
           /\ Starved(lineStart /\ k = 0, spaces + k, pos + k) /\ UNCHANGED mode
  <2>1. CASE ~finished
    <3>1. status' = "need_more" /\ UNCHANGED error
      BY <1>9, <2>1 DEF Starved
    <3> QED
      BY <1>3, <1>4, <1>7, <2>1, <3>1, UnseenStep
  <2>2. CASE finished
    <3>1. pos + k = Len(input) /\ Promise!SpacesAt = spaces + k
      BY <1>2, <1>5, <1>9, <2>2
    <3>2. (pos - spaces) + Promise!SpacesAt = Promise!Length /\ Promise!SpacesAt <= MaxToken
      BY <1>1, <1>2, <3>1 DEF Promise!Length
    <3>3. lineStart <=> token.kind \in {"none", "eol"} /\ spaces = 0
      BY <1>3 DEF Inv, Lines
    <3>4. lineStart /\ k = 0 /\ spaces + k = 0
             <=> token.kind \in {"none", "eol"} /\ Promise!SpacesAt = 0
      BY <1>2, <3>1, <3>3
    <3>5. CASE lineStart /\ k = 0 /\ spaces + k = 0
      <4>1. status' = "end" /\ UNCHANGED error
        BY <1>9, <2>2, <3>5 DEF Starved
      <4>2. (status' = "end") = TRUE
        BY <4>1
      <4>3. Promise!Over
        BY <1>3, <1>4, <1>6, <3>2, <3>4, <3>5, <4>1, <4>2 DEF Promise!Over
      <4> QED
        BY <4>3 DEF PromisedStep, Promise!Next
    <3>6. CASE ~(lineStart /\ k = 0 /\ spaces + k = 0)
      <4>1. Fail("unexpected_end", pos + k)
        BY <1>9, <2>2, <3>6 DEF Starved
      <4>2. Promise!Fails("unexpected_end", Promise!Length)
        BY <1>3, <1>4, <3>1, <4>1, PromisedFailure DEF Promise!Length
      <4>3. status # "end"
        BY <1>2, <1>7, <1>9, <3>6
      <4>4. (status' = "end") = (status = "end")
        BY <4>1, <4>3 DEF Fail
      <4>5. Promise!Over
        BY <1>3, <1>6, <3>2, <3>4, <3>6, <4>2, <4>4 DEF Promise!Over
      <4> QED
        BY <4>5 DEF PromisedStep, Promise!Next
    <3> QED
      BY <3>5, <3>6
  <2> QED
    BY <2>1, <2>2
<1>10. CASE /\ pos + k < fed /\ At(pos + k) # "sp"
            /\ status' = "lexing" /\ mode' = m /\ UNCHANGED error
  <2>1. status # "end"
    BY <1>2, <1>7, <1>10
  <2> QED
    BY <1>3, <1>4, <1>10, <2>1, UnseenStep
<1> QED
  BY <1>1, <1>8, <1>9, <1>10 DEF Skips

\* What is made of a byte is what the promise reads there.
LEMMA OutcomeIsPromised ==
    ASSUME Inv, status = "lexing", Outcome
    PROVE  PromisedStep
<1>1. /\ input \in Inputs /\ Len(input) \in Nat
      /\ fed \in Nat /\ pos \in Nat /\ pos < fed /\ fed <= Len(input)
      /\ mode \in Modes /\ At(pos) # "sp"
      /\ literal = NoLiteral /\ error = NoError
      /\ spaces \in Nat /\ spaces <= MaxToken /\ spaces <= pos
  BY EnteredLexes, LimitsAre DEF Lexes, Inv, TypeOK, Gap
<1>2. Promise!SpacesAt = spaces /\ pos - spaces \in Nat
  <2>1. pos + 0 = pos /\ pos + 0 <= fed /\ spaces + 0 = spaces
        /\ \A i \in pos..(pos + 0 - 1) : At(i) = "sp"
    BY <1>1
  <2> QED
    BY <1>1, <2>1, SpacesAre
<1>3. (pos - spaces) + Promise!SpacesAt = pos
  BY <1>1, <1>2
<1> DEFINE r == Reading
<1>4. r = Promise!ReadAt((pos - spaces) + Promise!SpacesAt, mode)
  BY <1>3 DEF Reading
<1> HIDE DEF r
<1>5. Promise!NoError = NoError /\ Promise!NoLiteral = NoLiteral /\ Promise!Modes = Modes
  BY DEF NoError, NoLiteral, Modes
<1>6. CASE Waits
  <2>1. UNCHANGED <<input, depth, literal, token, error, pos, spaces>> /\ status' = "need_more"
    BY <1>6 DEF Waits, Forget, inputVars
  <2> QED
    BY <2>1, UnseenStep
<1>7. CASE Refuses(r)
  <2>1. /\ r.bad /\ Fail(r.kind, r.at)
        /\ spaces' \in {spaces, 0}
        /\ UNCHANGED <<input, pos, depth, literal, token>>
    BY <1>7 DEF Refuses, inputVars
  <2>2. pos' - spaces' \in Nat
    <3>1. pos' = pos /\ (spaces' = spaces \/ spaces' = 0)
      BY <2>1
    <3>2. pos - 0 \in Nat
      BY <1>1
    <3> QED
      BY <1>2, <3>1, <3>2
  <2>3. Promise!Fails(r.kind, r.at)
    BY <2>1, <2>2, PromisedFailure
  <2>4. (status' = "end") = (status = "end")
    BY <2>1 DEF Fail
  <2>5. Promise!Token(mode)
    BY <1>1, <1>2, <1>3, <1>4, <1>5, <2>1, <2>3, <2>4 DEF Promise!Token, Promise!Length
  <2> QED
    BY <1>1, <1>5, <2>5 DEF PromisedStep, Promise!Next
<1>8. CASE Gives(r)
  <2>1. /\ ~r.bad /\ r.len \in Nat
        /\ token' = [kind |-> r.kind, spaces |-> spaces, first |-> pos, len |-> r.len,
                     number |-> r.number]
        /\ spaces' = 0 /\ pos' = pos + r.len /\ status' = "token"
        /\ depth' = Promise!DepthAfter(r.kind)
        /\ literal' = IF r.kind = "literal_begin" THEN r.number ELSE NoLiteral
        /\ UNCHANGED <<input, error>>
    BY <1>8 DEF Gives, Emit, inputVars
  <2>2. pos' - spaces' = pos + r.len
    BY <1>1, <2>1
  <2>3. (status' = "end") = (status = "end")
    BY <2>1
  <2>4. Promise!Token(mode)
    BY <1>1, <1>2, <1>3, <1>4, <1>5, <2>1, <2>2, <2>3 DEF Promise!Token, Promise!Length
  <2> QED
    BY <1>1, <1>5, <2>4 DEF PromisedStep, Promise!Next
<1> QED
  BY <1>6, <1>7, <1>8 DEF Outcome, r

LEMMA StepIsPromised ==
    ASSUME Inv, [Next]_lexVars
    PROVE  PromisedStep
<1>1. ASSUME NEW n \in 1..(Len(input) - fed), Feed(n) PROVE PromisedStep
  <2>1. n \in Nat /\ FALSE \in BOOLEAN
    BY InputIsSeq DEF Inv, TypeOK
  <2> QED
    BY <1>1, <2>1, AcceptIsUnseen DEF Feed
<1>2. ASSUME Finish PROVE PromisedStep
  <2>1. 0 \in Nat /\ TRUE \in BOOLEAN
    OBVIOUS
  <2> QED
    BY <1>2, <2>1, AcceptIsUnseen DEF Finish
<1>3. ASSUME Call PROVE PromisedStep
  BY <1>3, FailedIsUnseen, LiteralIsPromised, EnterIsPromised DEF Call
<1>4. ASSUME Dispatch PROVE PromisedStep
  BY <1>4, DispatchOutcome, OutcomeIsPromised
<1>5. ASSUME UNCHANGED lexVars PROVE PromisedStep
  BY <1>5, UnseenStep DEF lexVars
<1> QED
  BY <1>1, <1>2, <1>3, <1>4, <1>5 DEF Next

\* lexer.h:86-88 and imap.md:96-97: the tokens, the error and its offset are
\* those of the whole input, however it is split, whenever the caller asks, and
\* even if it changes its mind about the mode of a token that is half read.
THEOREM TokensAreOfTheWhole == Spec => TokensOfTheWhole
<1>1. Init => Promise!Init
  <2> SUFFICES ASSUME Init PROVE Promise!Init
    OBVIOUS
  <2>1. pos - spaces = 0 /\ (status = "end") = FALSE
    BY DEF Init
  <2> QED
    BY <2>1 DEF Init, Promise!Init, NoLiteral, NoToken, NoError
<1>2. Inv /\ [Next]_lexVars => [Promise!Next]_(Promise!vars)
  BY StepIsPromised DEF PromisedStep
<1> QED
  BY <1>1, <1>2, Invariance, PTL DEF Spec, TokensOfTheWhole, Promise!Spec
=============================================================================
