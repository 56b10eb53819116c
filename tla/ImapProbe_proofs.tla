-------------------------- MODULE ImapProbe_proofs --------------------------
(***************************************************************************)
(* Theorems about ImapProbe, for every session of every server.            *)
(***************************************************************************)
EXTENDS ImapProbe, ResponseReader_proofs

-----------------------------------------------------------------------------
(* The inductive invariant.                                                *)

\* A literal was announced in what was consumed.
Announced ==
    status = "token" /\ token.kind = "literal_begin" => token.first < pos

\* Only the next call touches the token that the last one returned.
Kept == call = "idle" /\ outcome = "token" => status = "token"

\* Before the first command the server sends its greeting and nothing else.
Greeted == sent = 0 => fed <= Len(session[1])

\* The program runs until it exits, and sends two commands at most.
Ongoing ==
    /\ pc # "exited" => code = Running
    /\ pc = "send" => sent < 2

\* No token was added to the summary of a response that has not begun: the end,
\* which comes between two responses, forgets no literal.
AtStart == pc = "next" \/ (pc = "reading" /\ (call # "idle" \/ outcome = "end"))

Fresh ==
    /\ pc \in {"next", "reading"} /\ index = 0 => ~summary.literal
    /\ AtStart /\ state = "start" => index = 0

\* Until the probe exits, a literal is the greeting's, was noted, or is of the
\* response being read.
HeadersNoted ==
    pc # "exited" => \A o \in headers :
        \/ o < Len(session[1])
        \/ sawLiteral
        \/ pc \in {"next", "reading"} /\ summary.literal

Copied == whole <=> ~overflowed

\* The fields of a summary.
Fields == {"tag", "kind", "bye", "literal"}

ProbeTypes ==
    /\ session \in Sessions
    /\ wants \in BOOLEAN /\ sawLiteral \in BOOLEAN
    /\ whole \in BOOLEAN /\ overflowed \in BOOLEAN
    /\ pc \in {"setup", "next", "reading", "send", "close", "exited"}
    /\ sent \in 0..2 /\ index \in 0..2
    /\ DOMAIN summary = Fields
    /\ summary.kind \in {"none", "tagged", "untagged", "continuation"}
    /\ summary.literal \in BOOLEAN
    /\ headers \subseteq Nat /\ \A o \in headers : o < pos
    /\ code \in {Running, 0, 1, 2}

ProbeInv ==
    /\ ReaderInv /\ ProbeTypes
    /\ Announced /\ Kept /\ Greeted /\ Ongoing /\ Fresh /\ HeadersNoted /\ Copied
    /\ RecordingIsWhole

-----------------------------------------------------------------------------
(* What the blocks of a session add up to.                                 *)

\* f[i] is what the first i of the sequences ss add up to.
AddsUp(f, ss, n) ==
    /\ DOMAIN f = 1..n
    /\ \A i \in 1..n : f[i] = IF i = 1 THEN ss[i] ELSE f[i - 1] \o ss[i]

LEMMA SumsExist ==
    ASSUME NEW S, NEW ss \in Seq(Seq(S)), NEW n \in Nat, n <= Len(ss)
    PROVE  \E f \in [1..n -> Seq(S)] : AddsUp(f, ss, n)
<1> DEFINE P == {k \in Nat : k <= Len(ss) => \E f \in [1..k -> Seq(S)] : AddsUp(f, ss, k)}
<1>1. 0 \in P
  <2> DEFINE f == [i \in 1..0 |-> <<>>]
  <2>1. f \in [1..0 -> Seq(S)] /\ AddsUp(f, ss, 0)
    BY DEF AddsUp
  <2> HIDE DEF f
  <2> QED
    BY <2>1
<1>2. ASSUME NEW k \in P PROVE k + 1 \in P
  <2> SUFFICES ASSUME k + 1 <= Len(ss)
               PROVE  \E f \in [1..(k + 1) -> Seq(S)] : AddsUp(f, ss, k + 1)
    OBVIOUS
  <2>1. k \in Nat /\ k <= Len(ss)
    OBVIOUS
  <2>2. PICK f \in [1..k -> Seq(S)] : AddsUp(f, ss, k)
    BY <2>1
  <2> DEFINE next == IF k = 0 THEN ss[k + 1] ELSE f[k] \o ss[k + 1]
             g == [i \in 1..(k + 1) |-> IF i = k + 1 THEN next ELSE f[i]]
  <2>3. next \in Seq(S)
    <3>1. ss[k + 1] \in Seq(S)
      BY <2>1, ElementOfSeq
    <3>2. k # 0 => f[k] \in Seq(S)
      BY <2>1
    <3> QED
      BY <3>1, <3>2, ConcatProperties
  <2>4. ASSUME NEW i \in 1..(k + 1)
        PROVE  g[i] \in Seq(S) /\ g[i] = IF i = 1 THEN ss[i] ELSE g[i - 1] \o ss[i]
    <3>1. CASE i = k + 1
      <4>1. g[i] = next
        BY <3>1
      <4>2. k # 0 => i - 1 \in 1..(k + 1) /\ i - 1 # k + 1 /\ i - 1 = k
        BY <2>1, <3>1
      <4>3. k # 0 => g[i - 1] = f[k]
        BY <4>2
      <4>4. (k = 0) <=> (i = 1)
        BY <2>1, <3>1
      <4>5. next = IF k = 0 THEN ss[i] ELSE f[k] \o ss[i]
        BY <3>1
      <4> HIDE DEF g, next
      <4> QED
        BY <2>3, <4>1, <4>3, <4>4, <4>5
    <3>2. CASE i # k + 1
      <4>1. i \in 1..k /\ g[i] = f[i]
        BY <2>1, <3>2
      <4>2. i # 1 => i - 1 \in 1..(k + 1) /\ i - 1 # k + 1
        BY <2>1, <4>1
      <4>3. i # 1 => g[i - 1] = f[i - 1]
        BY <4>2
      <4> HIDE DEF g
      <4> QED
        BY <2>2, <4>1, <4>3 DEF AddsUp
    <3> QED
      BY <3>1, <3>2
  <2>5. DOMAIN g = 1..(k + 1) /\ g \in [1..(k + 1) -> Seq(S)]
    <3>1. \A i \in 1..(k + 1) : g[i] \in Seq(S)
      BY <2>4
    <3> HIDE DEF next
    <3> QED
      BY <3>1
  <2> HIDE DEF g
  <2>6. AddsUp(g, ss, k + 1)
    BY <2>4, <2>5 DEF AddsUp
  <2> QED
    BY <2>5, <2>6
<1>3. P = Nat
  <2>1. P \in SUBSET Nat
    OBVIOUS
  <2> HIDE DEF P
  <2> QED
    BY <1>1, <1>2, <2>1, SetInduction
<1> QED
  BY <1>3

LEMMA OneSum ==
    ASSUME NEW ss, NEW n \in Nat, NEW f, NEW g, AddsUp(f, ss, n), AddsUp(g, ss, n)
    PROVE  \A i \in 1..n : f[i] = g[i]
<1> DEFINE P == {k \in Nat : \A i \in 1..n : i <= k => f[i] = g[i]}
<1>1. 0 \in P
  OBVIOUS
<1>2. ASSUME NEW k \in P PROVE k + 1 \in P
  <2> SUFFICES ASSUME NEW i \in 1..n, i <= k + 1 PROVE f[i] = g[i]
    OBVIOUS
  <2>1. CASE i <= k
    BY <2>1
  <2>2. CASE i = 1
    BY <2>2 DEF AddsUp
  <2>3. CASE i > k /\ i # 1
    <3>1. i - 1 \in 1..n /\ i - 1 <= k
      BY <2>3
    <3>2. f[i - 1] = g[i - 1]
      BY <3>1
    <3>3. f[i] = f[i - 1] \o ss[i] /\ g[i] = g[i - 1] \o ss[i]
      BY <2>3 DEF AddsUp
    <3> QED
      BY <3>2, <3>3
  <2> QED
    BY <2>1, <2>2, <2>3
<1>3. P = Nat
  <2>1. P \in SUBSET Nat
    OBVIOUS
  <2> HIDE DEF P
  <2> QED
    BY <1>1, <1>2, <2>1, SetInduction
<1>4. n \in P
  BY <1>3
<1> QED
  BY <1>4

LEMMA FlattenIsSum ==
    ASSUME NEW S, NEW ss \in Seq(Seq(S)), ss # <<>>
    PROVE  \E f \in [1..Len(ss) -> Seq(S)] :
               AddsUp(f, ss, Len(ss)) /\ FlattenSeq(ss) = f[Len(ss)]
<1> DEFINE n == Len(ss)
           Is(f) == f = [i \in 1..n |-> IF i = 1 THEN ss[i] ELSE f[i - 1] \o ss[i]]
           flatten == CHOOSE f : Is(f)
<1>1. n \in Nat /\ n # 0
  BY EmptySeq
<1>2. FlattenSeq(ss) = flatten[n]
  <2>1. FlattenSeq(ss) = IF n = 0 THEN ss ELSE flatten[n]
    BY Zenon DEF FlattenSeq
  <2> HIDE DEF n, flatten
  <2> QED
    BY <1>1, <2>1
<1> HIDE DEF n
<1>3. PICK f \in [1..n -> Seq(S)] : AddsUp(f, ss, n)
  <2>1. \A m \in Nat : m <= Len(ss) => \E f \in [1..m -> Seq(S)] : AddsUp(f, ss, m)
    BY SumsExist
  <2>2. n <= Len(ss)
    BY <1>1 DEF n
  <2> QED
    BY <1>1, <2>1, <2>2
<1>4. Is(f)
  BY <1>3 DEF AddsUp
<1>5. Is(flatten)
  <2> HIDE DEF Is
  <2> QED
    BY <1>4
<1> HIDE DEF flatten
<1>6. AddsUp(flatten, ss, n)
  <2> DEFINE body == [i \in 1..n |-> IF i = 1 THEN ss[i] ELSE flatten[i - 1] \o ss[i]]
  <2>1. flatten = body
    BY <1>5
  <2>2. DOMAIN body = 1..n
    OBVIOUS
  <2>3. \A i \in 1..n : body[i] = IF i = 1 THEN ss[i] ELSE flatten[i - 1] \o ss[i]
    OBVIOUS
  <2> HIDE DEF body
  <2> QED
    BY <2>1, <2>2, <2>3 DEF AddsUp
<1>7. flatten[n] = f[n]
  <2>1. n \in 1..n
    BY <1>1
  <2> QED
    BY <1>1, <1>3, <1>6, <2>1, OneSum
<1> QED
  BY <1>2, <1>3, <1>7 DEF n

LEMMA DueIs ==
    ASSUME session \in Sessions, sent \in 0..2
    PROVE  Due \in Nat /\ (sent = 0 => Due = Len(session[1]))
<1> DEFINE C == Promise!Characters
           k == Min({sent + 1, Len(session)})
           ss == SubSeq(session, 1, k)
<1>1. session \in Seq(Seq(C)) /\ session # <<>> /\ Len(session) \in Nat /\ Len(session) # 0
  <2>1. session \in Seq(Seq(C)) /\ session # <<>>
    BY ProbeAssumption
  <2> HIDE DEF C
  <2> QED
    BY <2>1, EmptySeq
<1> HIDE DEF C
<1>2. k \in 1..Len(session) /\ (sent = 0 => k = 1)
  <2>1. \A a, b \in Int : Min({a, b}) = IF a <= b THEN a ELSE b
    BY MinOfTwo
  <2>2. sent + 1 \in Int /\ Len(session) \in Int
    BY <1>1
  <2>3. k = IF sent + 1 <= Len(session) THEN sent + 1 ELSE Len(session)
    BY <2>1, <2>2
  <2> HIDE DEF k
  <2> QED
    BY <1>1, <2>3
<1> HIDE DEF k
<1>3. ss \in Seq(Seq(C)) /\ Len(ss) = k /\ ss[1] = session[1]
  <2>1. k \in Nat /\ k <= Len(session) /\ 1 \in 1..k
    BY <1>2
  <2> QED
    BY <1>1, <2>1, PrefixProperties
<1>4. ss # <<>> /\ k \in 1..k
  BY <1>2, <1>3
<1> HIDE DEF ss
<1>5. PICK f \in [1..k -> Seq(C)] : AddsUp(f, ss, k) /\ FlattenSeq(ss) = f[k]
  BY <1>3, <1>4, FlattenIsSum
<1>6. f[k] \in Seq(C) /\ (k = 1 => f[k] = session[1])
  BY <1>3, <1>4, <1>5 DEF AddsUp
<1>7. Due = Len(f[k])
  BY <1>5 DEF Due, BlockEnd, ss, k
<1> QED
  BY <1>2, <1>6, <1>7

-----------------------------------------------------------------------------
(* What the steps of the probe are to the reader.                          *)

\* The header of a literal is not empty.
LEMMA HeaderIsLong ==
    ASSUME Inv, LexLiteralHeader, status' = "token"
    PROVE  token'.first = pos /\ pos' > pos
<1> DEFINE first == pos + IF At(pos) = "~" THEN 2 ELSE 1
           digits == RunEnd(first, Digits)
           tail == digits + IF digits < fed /\ At(digits) = "+" THEN 1 ELSE 0
<1>1. Lexing /\ IsHeader
  BY DEF LexLiteralHeader
<1>2. Lexes
  BY <1>1, EnteredLexes DEF Lexing
<1>3. pos \in Nat /\ fed \in Nat /\ pos < fed
  BY <1>2 DEF Lexes
<1>4. first \in Nat /\ first > pos /\ first <= fed
  <2>1. At(pos) = "~" => pos + 1 < fed
    BY <1>1 DEF IsHeader
  <2>2. CASE At(pos) = "~"
    <3>1. first = pos + 2
      BY <2>2
    <3> QED
      BY <1>3, <2>1, <2>2, <3>1
  <2>3. CASE At(pos) # "~"
    <3>1. first = pos + 1
      BY <2>3
    <3> QED
      BY <1>3, <3>1
  <2> QED
    BY <2>2, <2>3
<1>5. digits \in first..fed
  <2> HIDE DEF first
  <2> QED
    BY <1>3, <1>4, RunEndProperties
<1>6. tail \in Nat /\ tail > pos
  <2> HIDE DEF digits, first
  <2> QED
    BY <1>3, <1>4, <1>5
<1>7. ASSUME NEW refused, NEW wrong, NEW none, NEW bad, NEW big, NEW a, NEW b, NEW c, NEW d,
             NEW n, NEW cut, NEW more,
             IF refused THEN Fails("number_too_large", a)
             ELSE IF cut /\ finished THEN Fails("unexpected_end", b)
             ELSE IF cut THEN Suspend(1, FALSE)
             ELSE IF none THEN Fails("bad_literal", c)
             ELSE IF bad THEN Fails("bad_literal", d)
             ELSE IF big THEN Fails("literal_too_large", pos)
             ELSE Completes("literal_begin", tail + 3 - pos, n) /\ more
      PROVE  \E m : Completes("literal_begin", tail + 3 - pos, m)
  <2> HIDE DEF tail
  <2> QED
    BY <1>7 DEF Fails, Fail, Suspend
<1>8. \E m : Completes("literal_begin", tail + 3 - pos, m)
  BY <1>7 DEF LexLiteralHeader
<1>9. token'.first = pos /\ pos' = pos + (tail + 3 - pos)
  <2> HIDE DEF tail
  <2> QED
    BY <1>8 DEF Completes, Emit
<1> HIDE DEF tail
<1> QED
  BY <1>3, <1>6, <1>9

LEMMA HeaderBegins ==
    ASSUME Inv, Dispatch, status' = "token", token'.kind = "literal_begin"
    PROVE  token'.first < pos'
<1>1. pos \in Nat
  BY InputIsSeq DEF Inv, TypeOK
<1>2. CASE LexLiteralHeader
  <2>1. token'.first = pos /\ pos' > pos
    BY <1>2, HeaderIsLong
  <2>2. pos' \in Nat
    <3>1. Inv'
      BY DispatchOutcome, OutcomeKeeps
    <3>2. input' \in Inputs /\ fed' \in 0..Len(input') /\ base' \in 0..fed' /\ pos' \in base'..fed'
      BY <3>1 DEF Inv, TypeOK
    <3>3. Len(input') \in Nat
      BY <3>2, LexerAssumption
    <3> QED
      BY <3>2, <3>3
  <2> QED
    BY <1>1, <2>1, <2>2
<1>3. ~LexEol /\ ~LexOpen /\ ~LexClose
  BY DEF LexEol, LexOpen, LexClose, Fails, Fail, Emit, OpenKind, CloseKind
<1>4. ~LexTilde /\ ~LexControl
  BY DEF LexTilde, LexControl, Fails, Fail
<1>5. ~LexAtom
  BY DEF LexAtom, Fails, Fail, Suspend, Completes, Emit
<1>6. ~LexQuoted
  BY DEF LexQuoted, Fails, Fail, Suspend, Completes, Emit
<1>7. ~LexText
  BY DEF LexText, Fails, Fail, Suspend, Completes, Emit
<1> QED
  BY <1>2, <1>3, <1>4, <1>5, <1>6, <1>7 DEF Dispatch

\* What main() does between two calls of next().
Quiet ==
    /\ UNCHANGED <<setVars, readerVars, recordVars>>
    /\ \/ Connected \/ SetupFails \/ ReadFailed \/ ServerClosed
       \/ TokenWithin \/ Greeting \/ Response
       \/ Command \/ CommandFails \/ Finishes

LEMMA MainIs ==
    ASSUME Main
    PROVE  NextToken \/ InsideNext \/ Quiet
<1> USE DEF idleVars
<1>1. Connected \/ Command \/ Response => UNCHANGED <<setVars, readerVars, recordVars>>
  BY DEF Connected, Command, Response, Responds
<1>2. SetupFails \/ ReadFailed \/ CommandFails => UNCHANGED <<setVars, readerVars, recordVars>>
  BY DEF SetupFails, ReadFailed, CommandFails, Exits
<1>3. ServerClosed \/ Greeting => UNCHANGED <<setVars, readerVars, recordVars>>
  BY DEF ServerClosed, Greeting, Exits, GoesTo
<1>4. Finishes => UNCHANGED <<setVars, readerVars, recordVars>>
  BY DEF Finishes, Exits, WriteRecording
<1>5. TokenWithin => UNCHANGED <<setVars, readerVars, recordVars>>
  BY DEF TokenWithin
<1> QED
  BY <1>1, <1>2, <1>3, <1>4, <1>5 DEF Main, Quiet

LEMMA ServerSendsSome ==
    ASSUME session \in Sessions, sent \in 0..2, fed \in Nat, ServerSends
    PROVE  \E n \in 0..ReadChunk, eof \in BOOLEAN :
               /\ StreamReads(n, eof) /\ Records(n)
               /\ sent = 0 => fed + n <= Len(session[1])
<1>1. PICK n \in 0..Min({ReadChunk, Due - fed}), eof \in BOOLEAN :
          StreamReads(n, eof) /\ Records(n)
  BY DEF ServerSends
<1>2. Due \in Nat /\ (sent = 0 => Due = Len(session[1]))
  BY DueIs
<1>3. ReadChunk \in Nat
  BY ReaderAssumption
<1>4. \A a, b \in Int : Min({a, b}) = IF a <= b THEN a ELSE b
  BY MinOfTwo
<1>5. Min({ReadChunk, Due - fed}) = IF ReadChunk <= Due - fed THEN ReadChunk ELSE Due - fed
  BY <1>2, <1>3, <1>4
<1>6. n \in 0..ReadChunk /\ fed + n <= Due
  BY <1>2, <1>3, <1>5
<1> QED
  BY <1>1, <1>2, <1>6

LEMMA InsideNextIs ==
    ASSUME session \in Sessions, sent \in 0..2, fed \in Nat, InsideNext
    PROVE  ReaderNext
<1>1. ServerSends => \E n \in 0..ReadChunk, eof \in BOOLEAN : StreamReads(n, eof)
  BY ServerSendsSome
<1> QED
  BY <1>1 DEF InsideNext, ReaderNext, Stream

LEMMA PositionGrows ==
    ASSUME ReaderInv, ReaderNext
    PROVE  pos \in Nat /\ pos' \in Nat /\ pos <= pos'
<1>1. Inv /\ pos \in Nat /\ state \in States
  BY ClosingsAre DEF ReaderInv, ReaderTypes
<1>2. CASE Ask
  BY <1>1, <1>2, ModesAre, AskTells DEF Ask
<1>3. CASE Lex
  <2>1. Outcome
    BY <1>1, <1>3, DispatchOutcome DEF Lex
  <2>2. pos' = pos \/ \E n \in Nat : pos' = pos + n
    BY <2>1 DEF Outcome, Refuses, Waits, Gives, Forget, Emit
  <2> QED
    BY <1>1, <2>2
<1>4. CASE Stream
  <2>1. pos' = pos
    BY <1>4 DEF Stream, StreamReads, Accept, StreamFails, StreamStalls, Returns, lexVars
  <2> QED
    BY <1>1, <2>1
<1>5. CASE LexerRefuses \/ InputEnds \/ Refuse \/ PassLiteral \/ EndLine \/ Start \/ Advance
  <2>1. UNCHANGED lexVars
    BY <1>5 DEF LexerRefuses, InputEnds, Refuse, PassLiteral, EndLine, Start, Advance, Returns
  <2> QED
    BY <1>1, <2>1 DEF lexVars
<1> QED
  BY <1>2, <1>3, <1>4, <1>5 DEF ReaderNext

-----------------------------------------------------------------------------
(* Every step keeps the invariant.                                         *)

LEMMA ReaderTells ==
    ASSUME ReaderInv, Announced, Kept, ReaderNext
    PROVE  /\ Announced' /\ Kept'
           /\ ~Ask /\ (call' # "idle" \/ outcome' = "end") =>
                 call # "idle" /\ state' = state
           /\ Ask => call' # "idle" /\ state' = state
<1>1. Inv /\ state \in States /\ "token" \notin Errors /\ "end" \notin Errors
  BY DEF ReaderInv, ReaderTypes, Errors
<1>2. CASE Ask
  <2>1. call' = "asked" /\ UNCHANGED <<state, outcome>>
    BY <1>2 DEF Ask, rdVars
  <2>2. status' = "token" => token'.kind \in {"literal_data", "literal_end"}
    BY <1>1, <1>2, ModesAre, AskTells DEF Ask
  <2> QED
    BY <1>2, <2>1, <2>2 DEF Announced, Kept
<1>3. CASE Lex
  <2>1. call = "asked" /\ Dispatch /\ UNCHANGED <<state, call, outcome>>
    BY <1>3 DEF Lex, rdVars
  <2>2. Announced'
    BY <1>1, <2>1, HeaderBegins DEF Announced
  <2> QED
    BY <1>3, <2>1, <2>2 DEF Kept, Ask
<1>4. ASSUME NEW n \in 0..ReadChunk, NEW eof \in BOOLEAN, StreamReads(n, eof)
      PROVE  /\ Announced' /\ Kept' /\ ~Ask
             /\ call # "idle" /\ state' = state
  BY <1>4 DEF StreamReads, Accept, rdVars, Announced, Kept, Ask
<1>5. ASSUME NEW r, Returns(r), call = "asked",
             r = "token" => status = "token",
             r = "end" => state' = state
      PROVE  /\ Announced' /\ Kept' /\ ~Ask
             /\ call' # "idle" \/ outcome' = "end" => call # "idle" /\ state' = state
  BY <1>5 DEF Returns, lexVars, Announced, Kept, Ask
<1>6. StreamFails \/ StreamStalls => Returns("net_error") /\ call = "asked"
  BY DEF StreamFails, StreamStalls
<1>7. LexerRefuses \/ Refuse => Returns("syntax_error") /\ call = "asked"
  BY DEF LexerRefuses, Refuse, Got
<1>8. InputEnds => Returns("end") /\ call = "asked" /\ state' = state
  BY DEF InputEnds, rdVars
<1>9. PassLiteral \/ EndLine \/ Start \/ Advance =>
        Returns("token") /\ call = "asked" /\ status = "token"
  BY DEF PassLiteral, EndLine, Start, Advance, Got
<1> QED
  BY <1>2, <1>3, <1>4, <1>5, <1>6, <1>7, <1>8, <1>9 DEF ReaderNext, Stream

LEMMA ReadingKeeps ==
    ASSUME ProbeInv, NextToken \/ InsideNext
    PROVE  ProbeInv'
<1>1. /\ ReaderInv /\ session \in Sessions /\ sent \in 0..2
      /\ fed \in Nat
  BY ClosingsAre DEF ProbeInv, ProbeTypes, ReaderInv
<1>2. ReaderNext
  BY <1>1, InsideNextIs DEF NextToken, ReaderNext
<1>3. ReaderInv'
  BY <1>1, <1>2, ReaderInvKept
<1>4. /\ Announced' /\ Kept'
      /\ ~Ask /\ (call' # "idle" \/ outcome' = "end") => call # "idle" /\ state' = state
      /\ Ask => call' # "idle" /\ state' = state
  BY <1>1, <1>2, ReaderTells DEF ProbeInv
<1>5. pos \in Nat /\ pos' \in Nat /\ pos <= pos'
  BY <1>1, <1>2, PositionGrows
<1>6. UNCHANGED <<setVars, sent, index, summary, sawLiteral, headers, code>>
  BY DEF NextToken, InsideNext, mainVars
<1>7. /\ pc \in {"next", "reading"} /\ pc' = "reading"
      /\ pc = "reading" /\ Ask => call # "idle"
  BY DEF NextToken, InsideNext, mainVars, ServerSends, StreamReads, Lex, StreamFails,
         StreamStalls, LexerRefuses, InputEnds, Refuse, PassLiteral, EndLine, Start, Advance,
         Got, Ask
<1>8. /\ whole' \in BOOLEAN /\ overflowed' \in BOOLEAN
      /\ whole' <=> ~overflowed'
  <2>1. UNCHANGED recordVars \/ \E n \in 0..ReadChunk : Records(n)
    BY <1>1, ServerSendsSome DEF NextToken, InsideNext
  <2>2. whole \in BOOLEAN /\ overflowed \in BOOLEAN /\ (whole <=> ~overflowed)
    BY DEF ProbeInv, ProbeTypes, Copied
  <2>3. ASSUME UNCHANGED recordVars
        PROVE  whole' \in BOOLEAN /\ overflowed' \in BOOLEAN /\ (whole' <=> ~overflowed')
    <3>1. whole' = whole /\ overflowed' = overflowed
      BY <2>3 DEF recordVars
    <3> QED
      BY <2>2, <3>1, Zenon
  <2>4. ASSUME ~UNCHANGED recordVars
        PROVE  whole' = FALSE /\ overflowed' = TRUE
    BY <2>1, <2>4 DEF Records
  <2> QED
    BY <2>3, <2>4
<1>9. ProbeTypes'
  <2>1. \A o \in headers' : o < pos'
    <3> SUFFICES ASSUME NEW o \in headers PROVE o < pos'
      BY <1>6
    <3>1. o \in Nat /\ o < pos
      BY DEF ProbeInv, ProbeTypes
    <3> QED
      BY <1>5, <3>1
  <2>2. UNCHANGED <<session, wants, sent, index, summary, sawLiteral, code>>
    BY <1>6 DEF setVars
  <2>3. wants' \in BOOLEAN /\ sawLiteral' \in BOOLEAN
    BY <2>2, Zenon DEF ProbeInv, ProbeTypes
  <2>4. /\ session' \in Sessions
        /\ pc' \in {"setup", "next", "reading", "send", "close", "exited"}
        /\ sent' \in 0..2 /\ index' \in 0..2
        /\ headers' \subseteq Nat
        /\ code' \in {Running, 0, 1, 2}
    BY <1>6, <1>7, <2>2 DEF ProbeInv, ProbeTypes
  <2>5. /\ DOMAIN summary' = Fields
        /\ summary'.kind \in {"none", "tagged", "untagged", "continuation"}
        /\ summary'.literal \in BOOLEAN
    BY <2>2, Zenon DEF ProbeInv, ProbeTypes
  <2> QED
    BY <1>8, <2>1, <2>3, <2>4, <2>5, Zenon DEF ProbeTypes, Running
<1>10. Greeted'
  <2>1. Ask => UNCHANGED fed
    BY DEF Ask, NextFailed, NextLiteral, Enter, inputVars
  <2>2. Lex => UNCHANGED fed
    <3>1. Lex => Outcome
      BY <1>1, DispatchOutcome DEF ReaderInv, Lex
    <3> QED
      BY <3>1 DEF Outcome, Refuses, Waits, Gives, Forget, inputVars
  <2>3. StreamFails \/ StreamStalls \/ LexerRefuses \/ InputEnds \/ Refuse
           \/ PassLiteral \/ EndLine \/ Start \/ Advance => UNCHANGED fed
    BY DEF StreamFails, StreamStalls, LexerRefuses, InputEnds, Refuse, PassLiteral, EndLine,
           Start, Advance, Returns, lexVars
  <2>4. UNCHANGED fed \/ ServerSends
    BY <2>1, <2>2, <2>3 DEF NextToken, InsideNext
  <2>5. ASSUME sent = 0, ServerSends PROVE fed' <= Len(session[1])
    BY <1>1, <2>5, ServerSendsSome DEF StreamReads, Accept
  <2> QED
    BY <1>6, <2>4, <2>5 DEF ProbeInv, Greeted, setVars
<1>11. Ongoing' /\ Copied'
  BY <1>6, <1>7, <1>8 DEF ProbeInv, Ongoing, Copied
<1>12. Fresh'
  <2>1. index = 0 => ~summary.literal
    BY <1>7 DEF ProbeInv, Fresh
  <2>2. call' # "idle" \/ outcome' = "end" => AtStart /\ state' = state
    BY <1>4, <1>7 DEF AtStart
  <2> QED
    BY <1>6, <1>7, <2>1, <2>2 DEF ProbeInv, Fresh, AtStart
<1>13. HeadersNoted'
  BY <1>6, <1>7 DEF ProbeInv, HeadersNoted, setVars
<1>14. RecordingIsWhole'
  BY <1>6, <1>7 DEF ProbeInv, Ongoing, RecordingIsWhole, Running
<1> QED
  BY <1>3, <1>4, <1>9, <1>10, <1>11, <1>12, <1>13, <1>14 DEF ProbeInv

\* What a step of main() has to keep itself.
MainPart ==
    /\ pc \in {"setup", "next", "reading", "send", "close", "exited"}
    /\ sent \in 0..2 /\ index \in 0..2
    /\ sawLiteral \in BOOLEAN
    /\ DOMAIN summary = Fields
    /\ summary.kind \in {"none", "tagged", "untagged", "continuation"}
    /\ summary.literal \in BOOLEAN
    /\ headers \subseteq Nat /\ \A o \in headers : o < pos
    /\ code \in {Running, 0, 1, 2}
    /\ Ongoing /\ Fresh /\ HeadersNoted
    /\ RecordingIsWhole

LEMMA QuietKeeps ==
    ASSUME ProbeInv, UNCHANGED <<setVars, readerVars, recordVars>>, MainPart',
           sent' = 0 => sent = 0
    PROVE  ProbeInv'
<1>1. /\ UNCHANGED <<session, wants, whole, overflowed>>
      /\ UNCHANGED <<fed, pos, status, token, call, outcome>>
  BY DEF setVars, recordVars, readerVars, lexVars
<1>2. ReaderInv'
  BY ReaderStutterKeeps DEF ProbeInv
<1>3. Announced' /\ Kept' /\ Greeted'
  BY <1>1 DEF ProbeInv, Announced, Kept, Greeted
<1>4. Copied' /\ wants' \in BOOLEAN /\ whole' \in BOOLEAN /\ overflowed' \in BOOLEAN
  BY <1>1, Zenon DEF ProbeInv, ProbeTypes, Copied
<1>5. session' \in Sessions
  BY <1>1 DEF ProbeInv, ProbeTypes
<1>6. ProbeTypes'
  BY <1>4, <1>5, Zenon DEF MainPart, ProbeTypes, Running
<1> QED
  BY <1>2, <1>3, <1>4, <1>6, Zenon DEF ProbeInv, MainPart

\* Another response is begun by a step that leaves no literal unnoted.
LEMMA RespondsKeeps ==
    ASSUME ProbeInv, Responds, pc # "exited", sent' \in 0..2, sent' = 0 => sent = 0,
           sawLiteral' \in BOOLEAN,
           \A o \in headers : o < Len(session[1]) \/ sawLiteral'
    PROVE  ProbeInv'
<1> USE DEF idleVars
<1>1. /\ pc' = "next" /\ index' = 0 /\ summary' = NoSummary
      /\ UNCHANGED <<setVars, readerVars, recordVars, headers, code>>
  BY DEF Responds
<1>2. UNCHANGED <<session, pos, state, call, outcome>>
  BY <1>1 DEF setVars, readerVars, lexVars, rdVars
<1>3. code = Running /\ Running # 0
  BY DEF ProbeInv, Ongoing, Running
<1>4. /\ DOMAIN summary' = Fields
      /\ summary'.kind = "none" /\ summary'.literal = FALSE
  BY <1>1 DEF NoSummary, Fields
<1>5. headers' \subseteq Nat /\ \A o \in headers' : o < pos'
  BY <1>1, <1>2 DEF ProbeInv, ProbeTypes
<1>6. Ongoing' /\ Fresh' /\ RecordingIsWhole'
  BY <1>1, <1>3, <1>4 DEF Ongoing, Fresh, RecordingIsWhole
<1>7. HeadersNoted'
  BY <1>1, <1>2 DEF HeadersNoted
<1>8. code' \in {Running, 0, 1, 2} /\ 0 \in 0..2
  BY <1>1, <1>3
<1>9. MainPart'
  BY <1>1, <1>4, <1>5, <1>6, <1>7, <1>8, Zenon DEF MainPart, Running
<1> QED
  BY <1>1, <1>9, QuietKeeps

\* The probe goes somewhere else, or exits, with what it has.
LEMMA LeavesKeeps ==
    ASSUME ProbeInv, NEW p \in {"send", "close", "exited"}, NEW c \in {Running, 0, 1, 2},
           pc # "exited", pc' = p, code' = c, sawLiteral' \in BOOLEAN,
           UNCHANGED <<idleVars, sent, index, summary>>,
           p = "exited" <=> c # Running,
           p = "send" => sent < 2,
           p # "exited" => \A o \in headers : o < Len(session[1]) \/ sawLiteral',
           c = 0 /\ wants => ~overflowed /\ \A o \in headers : o < Len(session[1])
    PROVE  ProbeInv'
<1>1. UNCHANGED <<setVars, readerVars, recordVars, headers, sent, index, summary>>
  BY DEF idleVars
<1>2. UNCHANGED <<session, wants, pos, whole, overflowed>>
  BY <1>1 DEF setVars, readerVars, lexVars, recordVars
<1>3. /\ DOMAIN summary' = Fields
      /\ summary'.kind \in {"none", "tagged", "untagged", "continuation"}
      /\ summary'.literal \in BOOLEAN
  BY <1>1, Zenon DEF ProbeInv, ProbeTypes
<1>4. /\ sent' \in 0..2 /\ index' \in 0..2
      /\ headers' \subseteq Nat /\ \A o \in headers' : o < pos'
      /\ pc' \in {"setup", "next", "reading", "send", "close", "exited"}
  BY <1>1, <1>2 DEF ProbeInv, ProbeTypes
<1>5. Ongoing'
  BY <1>1 DEF Ongoing
<1>6. Fresh'
  <2>1. ~AtStart' /\ pc' \notin {"next", "reading"}
    BY DEF AtStart
  <2> QED
    BY <2>1 DEF Fresh
<1>7. HeadersNoted'
  BY <1>1, <1>2 DEF HeadersNoted
<1>8. RecordingIsWhole'
  <2>1. whole <=> ~overflowed
    BY DEF ProbeInv, Copied
  <2> QED
    BY <1>1, <1>2, <2>1 DEF RecordingIsWhole
<1>9. MainPart'
  BY <1>3, <1>4, <1>5, <1>6, <1>7, <1>8, Zenon DEF MainPart, Running
<1> QED
  BY <1>1, <1>9, QuietKeeps

\* What is known of the token that was just returned.
LEMMA AnswerTells ==
    ASSUME ProbeInv, call = "idle", outcome = "token"
    PROVE  /\ status = "token"
           /\ state = "start" => token.kind = "eol"
           /\ token.kind = "literal_begin" => token.first \in Nat /\ token.first < pos
<1>1. status = "token"
  BY DEF ProbeInv, Kept
<1>2. state = "start" => lineStart
  BY DEF ProbeInv, ReaderInv, Framed, Errors
<1>3. lineStart <=> token.kind = "eol"
  BY <1>1 DEF ProbeInv, ReaderInv, Given
<1>4. token.first \in Nat
  BY DEF ProbeInv, ReaderInv, Inv, Tokens
<1> QED
  BY <1>1, <1>2, <1>3, <1>4 DEF ProbeInv, Announced

\* The literals of the greeting are its own.
LEMMA GreetingsHeaders ==
    ASSUME ProbeInv, sent = 0
    PROVE  \A o \in headers : o < Len(session[1])
<1>1. /\ pos \in Nat /\ fed \in Nat /\ pos <= fed
  BY InputIsSeq DEF ProbeInv, ReaderInv, Inv, TypeOK
<1>2. fed <= Len(session[1]) /\ Len(session[1]) \in Nat
  <2>1. 0 \in 0..2 /\ session \in Sessions
    BY DEF ProbeInv, ProbeTypes
  <2>2. Due \in Nat /\ Due = Len(session[1])
    BY <2>1, DueIs
  <2> QED
    BY <2>2 DEF ProbeInv, Greeted
<1>3. \A o \in headers : o \in Nat /\ o < pos
  BY DEF ProbeInv, ProbeTypes
<1> QED
  BY <1>1, <1>2, <1>3

LEMMA TokenKeepsProbe ==
    ASSUME ProbeInv, TokenWithin
    PROVE  ProbeInv'
<1>1. /\ call = "idle" /\ outcome = "token" /\ pc = "reading"
      /\ token.kind # "eol" \/ state # "start"
      /\ pc' = "next" /\ index' = Min({index + 1, 2}) /\ summary' = Noted
      /\ headers' = IF token.kind = "literal_begin" THEN headers \cup {token.first} ELSE headers
      /\ UNCHANGED <<setVars, readerVars, recordVars, sawLiteral, sent, code>>
  BY DEF TokenWithin, Answered, ResponseEnds
<1>2. UNCHANGED <<session, pos, state>>
  BY <1>1 DEF setVars, readerVars, lexVars, rdVars
<1>3. /\ state # "start"
      /\ token.kind = "literal_begin" => token.first \in Nat /\ token.first < pos
  BY <1>1, AnswerTells
<1>4. index' \in 1..2
  <2>1. index \in 0..2 /\ \A a, b \in Int : Min({a, b}) = IF a <= b THEN a ELSE b
    BY MinOfTwo DEF ProbeInv, ProbeTypes
  <2>2. index + 1 \in Int /\ 2 \in Int
    BY <2>1
  <2>3. index' = IF index + 1 <= 2 THEN index + 1 ELSE 2
    BY <1>1, <2>1, <2>2
  <2> QED
    BY <2>1, <2>3
<1>5. /\ DOMAIN summary' = Fields
      /\ summary'.kind \in {"none", "tagged", "untagged", "continuation"}
      /\ summary'.literal \in BOOLEAN
      /\ summary'.literal <=> summary.literal \/ token.kind = "literal_begin"
  <2>1. /\ DOMAIN summary = Fields
        /\ summary.kind \in {"none", "tagged", "untagged", "continuation"}
        /\ kind \in {"none", "tagged", "untagged", "continuation"}
    BY DEF ProbeInv, ProbeTypes, ReaderInv, ReaderTypes
  <2> DEFINE t == IF index = 0 THEN SubSeq(input, token.first + 1, token.first + token.len)
                               ELSE summary.tag
             k == IF index = 0 THEN kind ELSE summary.kind
             b == IF index = 1 THEN IsWord("B") ELSE summary.bye
             l == summary.literal \/ token.kind = "literal_begin"
  <2>2. summary' = [summary EXCEPT !.tag = t, !.kind = k, !.bye = b, !.literal = l]
    BY <1>1, Zenon DEF Noted
  <2>3. l \in BOOLEAN /\ k \in {"none", "tagged", "untagged", "continuation"}
    BY <2>1
  <2> HIDE DEF t, k, b, l
  <2>4. DOMAIN summary' = Fields /\ summary'.kind = k /\ summary'.literal = l
    BY <2>1, <2>2 DEF Fields
  <2>5. summary'.literal <=> summary.literal \/ token.kind = "literal_begin"
    BY <2>4, Zenon DEF l
  <2> QED
    BY <2>3, <2>4, <2>5, Zenon
<1>6. headers' \subseteq Nat /\ \A o \in headers' : o < pos'
  BY <1>1, <1>2, <1>3 DEF ProbeInv, ProbeTypes
<1>7. Fresh'
  BY <1>1, <1>2, <1>3, <1>4 DEF Fresh, AtStart
<1>8. HeadersNoted'
  BY <1>1, <1>2, <1>5 DEF ProbeInv, HeadersNoted
<1>9. code = Running /\ code' = code /\ Running # 0
  BY <1>1 DEF ProbeInv, Ongoing, Running
<1>10. Ongoing' /\ RecordingIsWhole'
  BY <1>1, <1>9 DEF Ongoing, RecordingIsWhole
<1>11. sent' \in 0..2 /\ index' \in 0..2 /\ code' \in {Running, 0, 1, 2}
  BY <1>1, <1>4, <1>9 DEF ProbeInv, ProbeTypes
<1>12. sawLiteral' \in BOOLEAN
  BY <1>1, Zenon DEF ProbeInv, ProbeTypes
<1>13. MainPart'
  BY <1>1, <1>5, <1>6, <1>7, <1>8, <1>10, <1>11, <1>12, Zenon DEF MainPart, Running
<1> QED
  BY <1>1, <1>13, QuietKeeps

LEMMA MainKeeps ==
    ASSUME ProbeInv, Quiet
    PROVE  ProbeInv'
<1>1. /\ UNCHANGED <<setVars, readerVars, recordVars>>
      /\ sent \in 0..2 /\ sawLiteral \in BOOLEAN
  BY DEF Quiet, ProbeInv, ProbeTypes
<1>2. ASSUME NEW c \in {1, 2}, Exits(c), pc # "exited" PROVE ProbeInv'
  <2>1. /\ pc' = "exited" /\ code' = c /\ sawLiteral' = sawLiteral
        /\ UNCHANGED <<idleVars, sent, index, summary>>
    BY <1>2 DEF Exits
  <2>2. c \in {Running, 0, 1, 2} /\ c # Running /\ c # 0
    BY DEF Running
  <2>3. sawLiteral' \in BOOLEAN
    BY <1>1, <2>1, Zenon
  <2> QED
    BY <1>2, <2>1, <2>2, <2>3, LeavesKeeps
<1>3. ASSUME Connected PROVE ProbeInv'
  <2>1. pc = "setup" /\ Responds /\ sent' = sent /\ sawLiteral' = sawLiteral
    BY <1>3 DEF Connected
  <2>2. sawLiteral' \in BOOLEAN
    BY <1>1, <2>1, Zenon
  <2>3. \A o \in headers : o < Len(session[1]) \/ sawLiteral'
    BY <2>1 DEF ProbeInv, HeadersNoted
  <2> QED
    BY <1>1, <2>1, <2>2, <2>3, RespondsKeeps
<1>4. ASSUME SetupFails PROVE ProbeInv'
  BY <1>2, <1>4 DEF SetupFails
<1>5. ASSUME ReadFailed PROVE ProbeInv'
  BY <1>2, <1>5 DEF ReadFailed, Answered
<1>6. ASSUME CommandFails PROVE ProbeInv'
  BY <1>2, <1>6 DEF CommandFails
<1>7. ASSUME ServerClosed PROVE ProbeInv'
  <2>1. pc = "reading" /\ call = "idle" /\ outcome = "end"
    BY <1>7 DEF ServerClosed, Answered
  <2>2. CASE sent = 0
    BY <1>2, <1>7, <2>1, <2>2 DEF ServerClosed
  <2>3. CASE sent # 0
    <3>1. /\ pc' = "close" /\ code' = code /\ sawLiteral' = sawLiteral
          /\ UNCHANGED <<idleVars, sent, index, summary>>
      BY <1>7, <2>3 DEF ServerClosed, GoesTo, AfterEnd
    <3>2. code = Running /\ Running \in {Running, 0, 1, 2} /\ Running # 0
      BY <2>1 DEF ProbeInv, Ongoing, Running
    <3>3. ~summary.literal
      <4>1. state = "start"
        BY <2>1 DEF ProbeInv, ReaderInv, Ended
      <4> QED
        BY <2>1, <4>1 DEF ProbeInv, Fresh, AtStart
    <3>4. \A o \in headers : o < Len(session[1]) \/ sawLiteral'
      BY <2>1, <3>1, <3>3 DEF ProbeInv, HeadersNoted
    <3>5. sawLiteral' \in BOOLEAN
      BY <1>1, <3>1, Zenon
    <3> QED
      BY <2>1, <3>1, <3>2, <3>4, <3>5, LeavesKeeps
  <2> QED
    BY <2>2, <2>3
<1>8. ASSUME Greeting PROVE ProbeInv'
  <2>1. pc = "reading" /\ sent = 0
    BY <1>8 DEF Greeting, Answered
  <2>2. CASE Noted.bye
    BY <1>2, <1>8, <2>1, <2>2 DEF Greeting
  <2>3. CASE ~Noted.bye
    <3>1. /\ pc' = "send" /\ code' = code /\ sawLiteral' = sawLiteral
          /\ UNCHANGED <<idleVars, sent, index, summary>>
      BY <1>8, <2>3 DEF Greeting, GoesTo
    <3>2. code = Running /\ Running \in {Running, 0, 1, 2} /\ Running # 0
      BY <2>1 DEF ProbeInv, Ongoing, Running
    <3>3. \A o \in headers : o < Len(session[1])
      BY <2>1, GreetingsHeaders
    <3>4. sawLiteral' \in BOOLEAN
      BY <1>1, <3>1, Zenon
    <3> QED
      BY <2>1, <3>1, <3>2, <3>3, <3>4, LeavesKeeps
  <2> QED
    BY <2>2, <2>3
<1>9. ASSUME Response PROVE ProbeInv'
  <2>1. /\ pc = "reading" /\ sent > 0 /\ sent' = sent
        /\ sawLiteral' = (sawLiteral \/ summary.literal)
    BY <1>9 DEF Response, Answered, LiteralsSoFar
  <2>2. /\ sawLiteral' \in BOOLEAN
        /\ sawLiteral' <=> sawLiteral \/ summary.literal
    BY <2>1, Zenon
  <2>3. \A o \in headers : o < Len(session[1]) \/ sawLiteral'
    BY <2>1, <2>2 DEF ProbeInv, HeadersNoted
  <2>4. CASE summary.kind = "tagged" /\ summary.tag = Tag(sent)
    <3>1. /\ pc' = IF sent < 2 THEN "send" ELSE "close"
          /\ UNCHANGED <<idleVars, sent, index, summary>> /\ code' = code
      BY <1>9, <2>1, <2>4 DEF Response
    <3>2. code = Running /\ Running \in {Running, 0, 1, 2} /\ Running # 0
      BY <2>1 DEF ProbeInv, Ongoing, Running
    <3>3. CASE sent < 2
      BY <2>1, <2>2, <2>3, <3>1, <3>2, <3>3, LeavesKeeps
    <3>4. CASE ~(sent < 2)
      BY <2>1, <2>2, <2>3, <3>1, <3>2, <3>4, LeavesKeeps
    <3> QED
      BY <3>3, <3>4
  <2>5. CASE ~(summary.kind = "tagged" /\ summary.tag = Tag(sent))
    <3>1. Responds
      BY <1>9, <2>5 DEF Response
    <3> QED
      BY <1>1, <2>1, <2>2, <2>3, <3>1, RespondsKeeps
  <2> QED
    BY <2>4, <2>5
<1>10. ASSUME Command PROVE ProbeInv'
  <2>1. pc = "send" /\ sent' = sent + 1 /\ Responds /\ sawLiteral' = sawLiteral
    BY <1>10 DEF Command
  <2>2. sent' \in 0..2 /\ sent' # 0
    BY <1>1, <2>1 DEF ProbeInv, Ongoing
  <2>3. sawLiteral' \in BOOLEAN
    BY <1>1, <2>1, Zenon
  <2>4. \A o \in headers : o < Len(session[1]) \/ sawLiteral'
    BY <2>1 DEF ProbeInv, HeadersNoted
  <2> QED
    BY <2>1, <2>2, <2>3, <2>4, RespondsKeeps
<1>11. ASSUME Finishes PROVE ProbeInv'
  <2>1. pc = "close"
    BY <1>11 DEF Finishes
  <2>2. ASSUME Exits(0), ~wants \/ MayRecord PROVE ProbeInv'
    <3>1. /\ pc' = "exited" /\ code' = 0 /\ sawLiteral' = sawLiteral
          /\ UNCHANGED <<idleVars, sent, index, summary>>
      BY <2>2 DEF Exits
    <3>2. 0 \in {Running, 0, 1, 2} /\ 0 # Running
      BY DEF Running
    <3>3. sawLiteral' \in BOOLEAN
      BY <1>1, <3>1, Zenon
    <3>4. wants => ~overflowed /\ \A o \in headers : o < Len(session[1])
      BY <2>1, <2>2 DEF MayRecord, ProbeInv, HeadersNoted
    <3> QED
      BY <2>1, <3>1, <3>2, <3>3, <3>4, LeavesKeeps
  <2>3. Exits(1) \/ (Exits(0) /\ (~wants \/ MayRecord))
    BY <1>11 DEF Finishes, WriteRecording
  <2> QED
    BY <1>2, <2>1, <2>2, <2>3
<1>12. ASSUME TokenWithin PROVE ProbeInv'
  BY <1>12, TokenKeepsProbe
<1> QED
  BY <1>3, <1>4, <1>5, <1>6, <1>7, <1>8, <1>9, <1>10, <1>11, <1>12 DEF Quiet

LEMMA ProbeInitKeeps ==
    ASSUME ProbeInit
    PROVE  ProbeInv
<1>1. ReaderInv
  BY ReaderInitKeeps DEF ProbeInit
<1>2. /\ session \in Sessions /\ wants \in BOOLEAN /\ pc = "setup" /\ sent = 0 /\ index = 0
      /\ summary = NoSummary /\ sawLiteral = FALSE /\ whole = TRUE /\ overflowed = FALSE
      /\ headers = {} /\ code = Running
      /\ fed = 0 /\ status = "idle" /\ outcome = "none"
  BY DEF ProbeInit, ReaderInit, Init
<1>3. /\ DOMAIN summary = Fields
      /\ summary.kind = "none"
      /\ summary.literal = FALSE
  BY <1>2 DEF NoSummary, Fields
<1>4. ProbeTypes
  <2>1. /\ sent \in 0..2 /\ index \in 0..2
        /\ headers \subseteq Nat /\ \A o \in headers : o < pos
    BY <1>2
  <2>2. /\ sawLiteral \in BOOLEAN /\ whole \in BOOLEAN /\ overflowed \in BOOLEAN
        /\ summary.literal \in BOOLEAN
    BY <1>2, <1>3, Zenon
  <2> QED
    BY <1>2, <1>3, <2>1, <2>2, Zenon DEF ProbeTypes, Running
<1>5. Greeted
  <2>1. Due \in Nat /\ Due = Len(session[1])
    BY <1>2, DueIs
  <2> QED
    BY <1>2, <2>1 DEF Greeted
<1> QED
  BY <1>1, <1>2, <1>3, <1>4, <1>5
  DEF ProbeInv, Announced, Kept, Ongoing, Fresh, AtStart, HeadersNoted, Copied,
      RecordingIsWhole, Running

LEMMA ProbeStutterKeeps ==
    ASSUME ProbeInv, UNCHANGED probeVars
    PROVE  ProbeInv'
<1>1. /\ UNCHANGED <<setVars, readerVars, recordVars>>
      /\ UNCHANGED <<pc, sent, index, summary, sawLiteral, headers, code>>
  BY DEF probeVars, mainVars
<1>2. /\ UNCHANGED <<session, wants, whole, overflowed>>
      /\ UNCHANGED <<pos, state, call, outcome>>
  BY <1>1 DEF setVars, recordVars, readerVars, lexVars, rdVars
<1>3. Ongoing' /\ Fresh' /\ HeadersNoted' /\ RecordingIsWhole'
  BY <1>1, <1>2
  DEF ProbeInv, Ongoing, Running, Fresh, AtStart, HeadersNoted, RecordingIsWhole
<1>4. MainPart'
  BY <1>1, <1>2, <1>3, Zenon DEF ProbeInv, ProbeTypes, MainPart, Running
<1> QED
  BY <1>1, <1>4, QuietKeeps

LEMMA ProbeInvariance == ProbeSpec => []ProbeInv
<1>1. ProbeInit => ProbeInv
  BY ProbeInitKeeps
<1>2. ProbeInv /\ [Main]_probeVars => ProbeInv'
  BY MainIs, MainKeeps, ReadingKeeps, ProbeStutterKeeps
<1> QED
  BY <1>1, <1>2, PTL DEF ProbeSpec

-----------------------------------------------------------------------------
(* The theorems.                                                           *)

\* The probe, its reader and its lexer keep their types in every session.
THEOREM ProbeTypeCorrect == ProbeSpec => []ProbeTypeOK
<1>1. ReaderInv => ReaderTypeOK
  BY DEF ReaderInv, Inv, ReaderTypes, ReaderTypeOK
<1>2. ProbeInv => ProbeTypeOK
  BY <1>1, Zenon DEF ProbeInv, ProbeTypes, ProbeTypeOK, Running
<1> QED
  BY <1>2, ProbeInvariance, PTL

\* A recording that was written holds every byte the reader was given, and after
\* the greeting no literal (main.cpp:402-412).
THEOREM RecordingStaysWhole == ProbeSpec => []RecordingIsWhole
<1>1. ProbeInv => RecordingIsWhole
  BY DEF ProbeInv
<1> QED
  BY <1>1, ProbeInvariance, PTL

\* A step of the probe is a step of the reader under it or leaves the reader alone:
\* the recording stream and the loops around read_response() add nothing to what
\* the reader is given (main.cpp:57-84, 343-398).
THEOREM ProbeImplementsReader == ProbeSpec => ReaderSpec
<1>1. ProbeInit => ReaderInit
  BY DEF ProbeInit
<1>2. ASSUME ProbeInv, [Main]_probeVars PROVE [ReaderNext]_readerVars
  <2>1. session \in Sessions /\ sent \in 0..2 /\ fed \in Nat
    BY <1>2, ClosingsAre DEF ProbeInv, ProbeTypes, ReaderInv
  <2>2. NextToken => ReaderNext
    BY DEF NextToken, ReaderNext
  <2>3. InsideNext => ReaderNext
    BY <2>1, InsideNextIs
  <2>4. Quiet \/ UNCHANGED probeVars => UNCHANGED readerVars
    BY DEF Quiet, probeVars
  <2> QED
    BY <1>2, <2>2, <2>3, <2>4, MainIs
<1> QED
  BY <1>1, <1>2, ProbeInvariance, PTL DEF ProbeSpec, ReaderSpec

\* What was proved of the reader holds in the program: its responses are lines,
\* nothing in free text is taken for structure, an end is clean, and its tokens
\* are those of all that the server sends, however the network splits it.
THEOREM ProbeReadsSoundly ==
    ProbeSpec => /\ []ResponsesAreLines /\ []TextIsOpaque /\ []EndIsClean
                 /\ TokensOfTheWhole
<1> QED
  BY ProbeImplementsReader, ResponsesStayLines, TextStaysOpaque, EndStaysClean,
     ReaderKeepsTokens, PTL

\* Of CommandsInTurn, what needs no assumption about the server: a command follows
\* a whole response, never the end of the input or an error, and never a response
\* that is cut short (main.cpp:377-398).
Ready == outcome = "token" /\ ResponseEnds

THEOREM CommandsFollowResponses == ProbeSpec => [][sent' # sent => Ready]_probeVars
<1> DEFINE Sending == pc = "send" => Ready
<1>1. ProbeInit => Sending
  BY DEF ProbeInit
<1>2. ASSUME Sending, [Main]_probeVars PROVE Sending'
  <2>1. ASSUME UNCHANGED readerVars PROVE Ready' <=> Ready
    BY <2>1 DEF Ready, ResponseEnds, readerVars, lexVars, rdVars
  <2>2. Connected \/ NextToken \/ InsideNext \/ TokenWithin \/ Command => pc' # "send"
    BY DEF Connected, Responds, NextToken, InsideNext, mainVars, TokenWithin, Command
  <2>3. SetupFails \/ ReadFailed \/ CommandFails \/ Finishes \/ ServerClosed => pc' # "send"
    BY DEF SetupFails, ReadFailed, CommandFails, Finishes, WriteRecording, Exits, ServerClosed,
           GoesTo, AfterEnd
  <2>4. Greeting \/ Response => Ready
    BY DEF Greeting, Response, Answered, Ready
  <2>5. Greeting \/ Response => UNCHANGED readerVars
    BY DEF Greeting, Response, Exits, GoesTo, Responds, idleVars
  <2>6. UNCHANGED probeVars => pc' = pc /\ UNCHANGED readerVars
    BY DEF probeVars, mainVars
  <2> QED
    BY <1>2, <2>1, <2>2, <2>3, <2>4, <2>5, <2>6 DEF Main
<1>3. ASSUME Sending, [Main]_probeVars PROVE [sent' # sent => Ready]_probeVars
  <2>1. sent' # sent => Command
    BY <1>3 DEF Main, Connected, NextToken, InsideNext, mainVars, TokenWithin, SetupFails,
                ReadFailed, CommandFails, Finishes, WriteRecording, Exits, ServerClosed,
                GoesTo, Greeting, Response, probeVars
  <2>2. Command => pc = "send"
    BY DEF Command
  <2> QED
    BY <1>3, <2>1, <2>2
<1> QED
  BY <1>1, <1>2, <1>3, PTL DEF ProbeSpec

-----------------------------------------------------------------------------
(* What stands at a place of the complete input.                           *)

\* At the places of a complete input the same is read as by the lexer's promise,
\* but for the limit on nesting.
LEMMA SameRuns ==
    /\ \A o : Told(input)!Whole!At(o) = Promise!At(o)
    /\ \A o, S : Told(input)!Whole!RunEnd(o, S) = Promise!RunEnd(o, S)
    /\ \A a, b : Told(input)!Whole!Value(a, b) = Promise!Value(a, b)
    /\ \A o, i : Told(input)!Whole!Escaped(o, i) = Promise!Escaped(o, i)
    /\ Told(input)!Whole!Length = Promise!Length
<1>1. \A o : Told(input)!Whole!At(o) = Promise!At(o)
  BY DEF Told!Whole!At, Promise!At
<1>2. \A o, S : Told(input)!Whole!RunEnd(o, S) = Promise!RunEnd(o, S)
  BY DEF Told!Whole!RunEnd, Promise!RunEnd, Told!Whole!At, Promise!At, Told!Whole!Min, Promise!Min,
   Told!Whole!Length, Promise!Length
<1>3. \A a, b : Told(input)!Whole!Value(a, b) = Promise!Value(a, b)
  BY DEF Told!Whole!Value, Promise!Value, Told!Whole!At, Promise!At, Told!Whole!DigitValue,
         Promise!DigitValue
<1>4. \A o, i : Told(input)!Whole!Escaped(o, i) = Promise!Escaped(o, i)
  BY DEF Told!Whole!Escaped, Promise!Escaped, Told!Whole!At, Promise!At
<1>5. Told(input)!Whole!Length = Promise!Length
  BY DEF Told!Whole!Length, Promise!Length
<1> QED
  BY <1>1, <1>2, <1>3, <1>4, <1>5

LEMMA SameTokens ==
    /\ \A o : Told(input)!Whole!Eol(o) = Promise!Eol(o)
    /\ \A k, o, S : Told(input)!Whole!Run(k, o, S) = Promise!Run(k, o, S)
    /\ \A o : Told(input)!Whole!Word(o) = Promise!Word(o)
    /\ \A o, S : Told(input)!Whole!Text(o, S) = Promise!Text(o, S)
    /\ \A o : Told(input)!Whole!Quoted(o) = Promise!Quoted(o)
    /\ \A o : Told(input)!Whole!Header(o) = Promise!Header(o)
<1> USE DEF Told!Whole!Good, Promise!Good, Told!Whole!Bad, Promise!Bad,
   Told!Whole!Length, Promise!Length, Told!Whole!Min, Promise!Min
<1>1. \A o : Told(input)!Whole!Eol(o) = Promise!Eol(o)
  BY SameRuns DEF Told!Whole!Eol, Promise!Eol
<1>2. \A k, o, S : Told(input)!Whole!Run(k, o, S) = Promise!Run(k, o, S)
  BY SameRuns DEF Told!Whole!Run, Promise!Run
<1>3. \A o : Told(input)!Whole!Word(o) = Promise!Word(o)
  BY DEF Told!Whole!Word, Promise!Word, Told!Whole!Run, Promise!Run,
     Told!Whole!TooLarge, Promise!TooLarge, Told!Whole!AtomChars, Promise!AtomChars,
     Told!Whole!Digits, Promise!Digits, Told!Whole!Others, Promise!Others,
     Told!Whole!RunEnd, Promise!RunEnd, Told!Whole!At, Promise!At,
     Told!Whole!Value, Promise!Value, Told!Whole!DigitValue, Promise!DigitValue
<1>4. \A o, S : Told(input)!Whole!Text(o, S) = Promise!Text(o, S)
  BY DEF Told!Whole!Text, Promise!Text,
     Told!Whole!Characters, Promise!Characters,
     Told!Whole!Controls, Promise!Controls, Told!Whole!Structural, Promise!Structural,
     Told!Whole!Digits, Promise!Digits, Told!Whole!Others, Promise!Others,
     Told!Whole!RunEnd, Promise!RunEnd, Told!Whole!At, Promise!At
<1>5. \A o : Told(input)!Whole!Quoted(o) = Promise!Quoted(o)
  BY DEF Told!Whole!Quoted, Promise!Quoted, Told!Whole!Escaped, Promise!Escaped,
    Told!Whole!At, Promise!At
<1>6. \A o : Told(input)!Whole!Header(o) = Promise!Header(o)
  BY DEF Told!Whole!Header, Promise!Header,
     Told!Whole!TooLarge, Promise!TooLarge,
     Told!Whole!Digits, Promise!Digits,
     Told!Whole!RunEnd, Promise!RunEnd, Told!Whole!At, Promise!At,
     Told!Whole!Value, Promise!Value, Told!Whole!DigitValue, Promise!DigitValue
<1> QED
  BY <1>1, <1>2, <1>3, <1>4, <1>5, <1>6

\* Whatever the lexer reads at a place is read there of the complete input.
LEMMA SameReading ==
    ASSUME NEW o, NEW m, ~Promise!ReadAt(o, m).bad
    PROVE  Told(input)!Whole!ReadAt(o, m) = Promise!ReadAt(o, m)
<1>1. \A k : ~Promise!Bracket(k, o).bad =>
                Told(input)!Whole!Bracket(k, o) = Promise!Bracket(k, o)
  BY LimitsAre DEF Told!Whole!Bracket, Promise!Bracket, Told!Whole!Good, Promise!Good,
                   Promise!Bad
<1>2. /\ Told(input)!Whole!AtomChars = Promise!AtomChars
      /\ Told(input)!Whole!Controls = Promise!Controls
  BY DEF Told!Whole!AtomChars, Promise!AtomChars, Told!Whole!Digits, Promise!Digits,
         Told!Whole!Others, Promise!Others, Told!Whole!Controls, Promise!Controls
<1>3. \A k : Told(input)!Whole!Bad(k, o) = Promise!Bad(k, o)
  BY DEF Told!Whole!Bad, Promise!Bad
<1>4. ASSUME ~Promise!General(o, m).bad
      PROVE  Told(input)!Whole!General(o, m) = Promise!General(o, m)
  <2>1. /\ Told(input)!Whole!At(o) = Promise!At(o)
        /\ Told(input)!Whole!At(o + 1) = Promise!At(o + 1)
        /\ Told(input)!Whole!Length = Promise!Length
        /\ Told(input)!Whole!Quoted(o) = Promise!Quoted(o)
        /\ Told(input)!Whole!Header(o) = Promise!Header(o)
        /\ Told(input)!Whole!Word(o) = Promise!Word(o)
        /\ \A S : Told(input)!Whole!Run("atom", o, S) = Promise!Run("atom", o, S)
    BY SameRuns, SameTokens
  <2> USE DEF Told!Whole!General, Promise!General, Told!Whole!Controls, Promise!Controls
  <2>2. CASE Promise!At(o) \notin {"(", ")", "[", "]"}
    BY <1>2, <1>3, <2>1, <2>2
  <2>3. CASE Promise!At(o) \in {"(", ")"}
    BY <1>1, <1>4, <2>1, <2>3
  <2>4. CASE Promise!At(o) \in {"[", "]"}
    BY <1>1, <1>2, <1>4, <2>1, <2>4
  <2> QED
    BY <2>2, <2>3, <2>4
<1> QED
  BY <1>1, <1>2, <1>4, SameRuns, SameTokens DEF Told!Whole!ReadAt, Promise!ReadAt

\* What is read moves on: a token is not empty, a literal's size is a number, and
\* a line end ends in "lf".
Grows(r, o) ==
    /\ r.len \in Nat /\ r.len >= 1
    /\ r.kind = "literal_begin" => r.number \in Nat
    /\ r.kind = "eol" => r.len = 2 /\ o + 1 < Len(input) /\ At(o + 1) = "lf"

\* The run that starts at a place of the complete input.
LEMMA RunOfWhole ==
    ASSUME input \in Inputs, NEW S, NEW o \in Nat, o <= Len(input)
    PROVE  /\ Promise!RunEnd(o, S) \in o..Len(input)
           /\ \A i \in o..(Promise!RunEnd(o, S) - 1) : At(i) \in S
           /\ Promise!RunEnd(o, S) < Len(input) => At(Promise!RunEnd(o, S)) \notin S
           /\ o < Len(input) /\ At(o) \in S => Promise!RunEnd(o, S) >= o + 1
<1> DEFINE n == Len(input)
           ends == {i \in o..(n - 1) : At(i) \notin S} \cup {n}
           e == Min(ends)
<1>0. n \in Nat
  BY InputIsSeq
<1>1. Promise!RunEnd(o, S) = e
  BY PromisedExtremes DEF Promise!RunEnd, Promise!At, Promise!Length, At
<1> HIDE DEF n
<1>2. ends \in SUBSET Nat /\ ends # {}
  BY <1>0
<1>3. e \in ends /\ \A y \in ends : e <= y
  <2> HIDE DEF ends
  <2> QED
    BY <1>2, MinOfNats
<1> HIDE DEF e
<1>4. e \in o..n /\ (e < n => At(e) \notin S)
  BY <1>0, <1>3 DEF n
<1>5. ASSUME NEW i \in o..(e - 1) PROVE At(i) \in S
  <2>1. i < e /\ i \in o..(n - 1)
    BY <1>0, <1>4
  <2>2. i \notin ends
    <3> HIDE DEF ends
    <3>1. i \in ends => e <= i
      BY <1>3
    <3> QED
      BY <1>0, <1>4, <2>1, <3>1
  <2> QED
    BY <2>1, <2>2
<1>6. o < n /\ At(o) \in S => e >= o + 1
  BY <1>0, <1>3, <1>4
<1> QED
  BY <1>1, <1>4, <1>5, <1>6 DEF n

LEMMA WordGrows ==
    ASSUME input \in Inputs, NEW o \in Nat, o < Len(input), NEW S, At(o) \in S, NEW k,
           k \notin {"literal_begin", "eol"}
    PROVE  /\ Promise!Run(k, o, S).bad \/ Grows(Promise!Run(k, o, S), o)
           /\ S = Promise!AtomChars =>
                  Promise!Word(o).bad \/ Grows(Promise!Word(o), o)
<1>1. Promise!RunEnd(o, S) \in o..Len(input) /\ Promise!RunEnd(o, S) >= o + 1
  BY RunOfWhole
<1>2. Len(input) \in Nat
  BY InputIsSeq
<1>3. ASSUME NEW j, j \notin {"literal_begin", "eol"}
      PROVE  Promise!Run(j, o, S).bad \/ Grows(Promise!Run(j, o, S), o)
  BY <1>1, <1>2, <1>3 DEF Promise!Run, Promise!Good, Promise!Bad, Grows
<1>4. ASSUME S = Promise!AtomChars
      PROVE  Promise!Word(o).bad \/ Grows(Promise!Word(o), o)
  <2> DEFINE e == Promise!RunEnd(o, S)
             v == Promise!Value(o, e)
             isNumber == \A i \in o..(e - 1) : Promise!At(i) \in Promise!Digits
             isNil == e = o + 1 /\ Promise!At(o) = "N"
  <2>1. e \in Nat /\ e >= o + 1
    BY <1>1, <1>2
  <2>2. Promise!Word(o) =
          IF e - o > MaxToken \/ ~isNumber
            THEN IF isNil THEN Promise!Good("nil", 1, 0) ELSE Promise!Run("atom", o, S)
          ELSE IF Promise!TooLarge(o, e) # {}
            THEN Promise!Bad("number_too_large", Promise!Min(Promise!TooLarge(o, e)))
          ELSE Promise!Good("number", e - o, v)
    BY <1>4 DEF Promise!Word
  <2> HIDE DEF e, v, isNumber, isNil
  <2>3. Promise!Run("atom", o, S).bad \/ Grows(Promise!Run("atom", o, S), o)
    BY <1>3
  <2>4. Grows(Promise!Good("nil", 1, 0), o) /\ Grows(Promise!Good("number", e - o, v), o)
    BY <2>1 DEF Grows, Promise!Good
  <2>5. \A x : Promise!Bad("number_too_large", x).bad
    BY DEF Promise!Bad
  <2> QED
    BY <2>2, <2>3, <2>4, <2>5
<1> QED
  BY <1>3, <1>4

LEMMA TextGrows ==
    ASSUME input \in Inputs, NEW o \in Nat, o < Len(input), NEW S, At(o) \notin S
    PROVE  Promise!Text(o, S).bad \/ Grows(Promise!Text(o, S), o)
<1> DEFINE C == Promise!Characters \ (S \cup {"nul"})
           e == Promise!RunEnd(o, C)
<1>1. Len(input) \in Nat /\ At(o) \in Promise!Characters
  BY InputIsSeq
<1>2. e \in o..Len(input) /\ (At(o) \in C => e >= o + 1)
  <2> HIDE DEF C
  <2> QED
    BY <1>1, RunOfWhole
<1>3. Promise!Text(o, S) =
        IF e - o > MaxToken \/ (e - o = MaxToken /\ e < Promise!Length /\ Promise!At(e) = "nul")
          THEN Promise!Bad("token_too_long", o)
        ELSE IF e < Promise!Length /\ Promise!At(e) = "nul"
          THEN Promise!Bad("invalid_character", e)
        ELSE Promise!Good("text", e - o, 0)
  BY DEF Promise!Text
<1>4. CASE At(o) = "nul"
  <2>1. o \in o..o /\ At(o) \notin C
    BY <1>4
  <2>2. e = o
    <3>1. \A i \in o..(o - 1) : At(i) \in C
      OBVIOUS
    <3> HIDE DEF C
    <3> QED
      BY <1>1, <2>1, <3>1, WholeRun
  <2>3. e < Promise!Length /\ Promise!At(e) = "nul"
    BY <1>4, <2>2 DEF Promise!Length, Promise!At, At
  <2> HIDE DEF e
  <2> QED
    BY <1>3, <2>3 DEF Promise!Bad
<1>5. CASE At(o) # "nul"
  <2>1. At(o) \in C
    BY <1>1, <1>5
  <2> HIDE DEF e, C
  <2>2. Grows(Promise!Good("text", e - o, 0), o)
    BY <1>1, <1>2, <2>1 DEF Grows, Promise!Good
  <2>3. \A k, x : Promise!Bad(k, x).bad
    BY DEF Promise!Bad
  <2> QED
    BY <1>3, <2>2, <2>3
<1> QED
  BY <1>4, <1>5

LEMMA QuotedGrows ==
    ASSUME input \in Inputs, NEW o \in Nat, o < Len(input)
    PROVE  Promise!Quoted(o).bad \/ Grows(Promise!Quoted(o), o)
<1> DEFINE Ends(i) == IF Promise!Escaped(o, i) THEN Promise!At(i) \notin {"quote", "slash"}
                      ELSE Promise!At(i) \in {"quote", "cr", "lf", "nul"}
           ends == {i \in (o + 1)..(Promise!Length - 1) : Ends(i)}
           e == IF ends = {} THEN Promise!Length ELSE Promise!Min(ends)
<1>1. Promise!Quoted(o) =
        IF e - o >= MaxToken /\ o + MaxToken < Promise!Length
          THEN Promise!Bad("token_too_long", o)
        ELSE IF e = Promise!Length THEN Promise!Bad("unexpected_end", Promise!Length)
        ELSE IF Promise!Escaped(o, e) THEN Promise!Bad("bad_escape", e)
        ELSE CASE Promise!At(e) = "quote" -> Promise!Good("quoted", e - o + 1, 0)
               [] Promise!At(e) = "nul" -> Promise!Bad("invalid_character", e)
               [] OTHER -> Promise!Bad("unterminated_quoted", e)
  BY DEF Promise!Quoted
<1>2. e # Promise!Length => e \in Nat /\ e >= o + 1
  <2>1. ends \in SUBSET Nat /\ \A x \in ends : x >= o + 1
    OBVIOUS
  <2> HIDE DEF ends
  <2>2. ends # {} => Min(ends) \in ends
    BY <2>1, MinOfNats
  <2> QED
    BY <2>1, <2>2, PromisedExtremes
<1> HIDE DEF e
<1>3. e \in Nat /\ e >= o + 1 => Grows(Promise!Good("quoted", e - o + 1, 0), o)
  BY DEF Grows, Promise!Good
<1>4. \A k, x : Promise!Bad(k, x).bad
  BY DEF Promise!Bad
<1> QED
  BY <1>1, <1>2, <1>3, <1>4

LEMMA HeaderGrows ==
    ASSUME input \in Inputs, NEW o \in Nat, o < Len(input),
           At(o) = "~" => o + 1 < Len(input)
    PROVE  Promise!Header(o).bad \/ Grows(Promise!Header(o), o)
<1> DEFINE a == o + IF Promise!At(o) = "~" THEN 2 ELSE 1
           b == Promise!RunEnd(a, Promise!Digits)
           t == b + IF b < Promise!Length /\ Promise!At(b) = "+" THEN 1 ELSE 0
           v == Promise!Value(a, b)
<1>1. Len(input) \in Nat /\ At(o) = Promise!At(o)
  BY InputIsSeq DEF At, Promise!At
<1>2. a \in Nat /\ a >= o + 1 /\ a <= Len(input)
  BY <1>1
<1>3. /\ b \in a..Len(input)
      /\ \A i \in a..(b - 1) : At(i) \in Digits
  <2> HIDE DEF a
  <2> QED
    BY <1>2, RunOfWhole DEF Digits
<1>4. v \in Nat
  <2>1. b \in Nat /\ a <= b /\ b \in a..b
    BY <1>1, <1>2, <1>3
  <2> HIDE DEF a, b
  <2>2. Values(a, b) \in [a..b -> Nat]
    BY <1>2, <1>3, <2>1, ValuesProperties
  <2>3. Promise!Value(a, b) = Values(a, b)[b]
    BY <1>2, <1>3, <2>1, PromisedValue
  <2> QED
    BY <2>1, <2>2, <2>3
<1>5. t \in Nat /\ t >= o + 1
  <2> HIDE DEF a, b
  <2> QED
    BY <1>1, <1>2, <1>3
<1>6. ASSUME NEW large, NEW x, NEW none, NEW wrong, NEW y, NEW cut, NEW big
      PROVE  LET r == IF large THEN Promise!Bad("number_too_large", x)
                      ELSE IF none THEN Promise!Bad("bad_literal", b)
                      ELSE IF wrong THEN Promise!Bad("bad_literal", y)
                      ELSE IF cut THEN Promise!Bad("unexpected_end", Promise!Length)
                      ELSE IF big THEN Promise!Bad("literal_too_large", o)
                      ELSE Promise!Good("literal_begin", t + 3 - o, v)
             IN  r.bad \/ r = Promise!Good("literal_begin", t + 3 - o, v)
  <2> HIDE DEF a, b, t, v
  <2>1. \A k, z : Promise!Bad(k, z).bad
    BY DEF Promise!Bad
  <2> QED
    BY <2>1
<1>7. Promise!Header(o).bad \/ Promise!Header(o) = Promise!Good("literal_begin", t + 3 - o, v)
  BY <1>6 DEF Promise!Header
<1>8. Grows(Promise!Good("literal_begin", t + 3 - o, v), o)
  <2> HIDE DEF t, v
  <2> QED
    BY <1>4, <1>5 DEF Grows, Promise!Good
<1> QED
  BY <1>7, <1>8

\* Of what is read at a place of the complete input, in whatever mode.
LEMMA ReadingGrows ==
    ASSUME input \in Inputs, NEW o \in Nat, o < Len(input), At(o) # "sp", NEW m,
           ~Told(input)!Whole!ReadAt(o, m).bad
    PROVE  Grows(Told(input)!Whole!ReadAt(o, m), o)
<1> DEFINE c == Promise!At(o)
           Fine(r) == r.bad \/ Grows(r, o)
<1>1. /\ Len(input) \in Nat /\ At(o) = c /\ Promise!Length = Len(input)
      /\ c \in Promise!Characters
  BY InputIsSeq DEF At, Promise!At, Promise!Length
<1>2. \A k : k \notin {"literal_begin", "eol"} => Fine(Told(input)!Whole!Bracket(k, o))
  BY DEF Told!Whole!Bracket, Told!Whole!Good, Told!Whole!Bad, Grows
<1>3. \A k : Fine(Told(input)!Whole!Bad(k, o))
  BY DEF Told!Whole!Bad
<1>4. Fine(Promise!Eol(o))
  BY <1>1 DEF Promise!Eol, Promise!Good, Promise!Bad, Grows, Promise!At, Promise!Length, At
<1>5. Fine(Promise!Quoted(o))
  BY QuotedGrows
<1>6. (c = "~" => o + 1 < Len(input)) => Fine(Promise!Header(o))
  BY <1>1, HeaderGrows
<1>7. /\ c \in Promise!AtomChars => Fine(Promise!Word(o))
      /\ \A S : c \in S => Fine(Promise!Run("atom", o, S))
  <2>1. "atom" \notin {"literal_begin", "eol"}
    OBVIOUS
  <2> HIDE DEF c
  <2>2. ASSUME NEW S, c \in S
        PROVE  /\ Fine(Promise!Run("atom", o, S))
               /\ S = Promise!AtomChars => Fine(Promise!Word(o))
    BY <1>1, <2>1, <2>2, WordGrows
  <2> QED
    BY <2>2
<1>8. \A S : c \notin S => Fine(Promise!Text(o, S))
  BY <1>1, TextGrows
<1>9. /\ Told(input)!Whole!AtomChars = Promise!AtomChars
      /\ Told(input)!Whole!At(o) = c
      /\ Told(input)!Whole!At(o + 1) = Promise!At(o + 1)
      /\ Told(input)!Whole!Length = Promise!Length
  BY SameRuns
  DEF Told!Whole!AtomChars, Promise!AtomChars, Told!Whole!Digits, Promise!Digits,
      Told!Whole!Others, Promise!Others
<1>10. c \notin {"(", ")", "[", "]", "quote", "{", "sp"} \cup Promise!Controls =>
          c \in Promise!AtomChars
  BY <1>1 DEF Promise!Characters, Promise!AtomChars, Promise!Structural
<1>11. c \in Promise!AtomChars => c \notin {"[", "]", "cr", "lf"}
  BY SignsAreNotAtomChars
<1> HIDE DEF c, Fine
<1>12. Fine(Told(input)!Whole!General(o, m))
  <2> USE DEF Told!Whole!General, Told!Whole!Controls, Promise!Controls
  <2>1. /\ Told(input)!Whole!Quoted(o) = Promise!Quoted(o)
        /\ Told(input)!Whole!Header(o) = Promise!Header(o)
        /\ Told(input)!Whole!Word(o) = Promise!Word(o)
        /\ \A S : Told(input)!Whole!Run("atom", o, S) = Promise!Run("atom", o, S)
    BY SameTokens
  <2>2. CASE c \in {"(", ")"}
    BY <1>2, <1>9, <2>2
  <2>3. CASE c \in {"[", "]"}
    BY <1>2, <1>7, <1>9, <2>1, <2>3
  <2>4. CASE c \notin {"(", ")", "[", "]"}
    BY <1>1, <1>3, <1>5, <1>6, <1>7, <1>9, <1>10, <2>1, <2>4
  <2> QED
    BY <2>2, <2>3, <2>4
<1>13. Fine(Told(input)!Whole!ReadAt(o, m))
  BY <1>2, <1>4, <1>7, <1>8, <1>9, <1>11, <1>12, SameTokens DEF Told!Whole!ReadAt
<1> QED
  BY <1>13 DEF Fine

-----------------------------------------------------------------------------
(* The places of a complete input.                                         *)

\* f[i] is the place behind i tokens.
Leads(f, n) ==
    /\ DOMAIN f = 0..n
    /\ \A i \in 0..n : f[i] = IF i = 0 THEN Told(input)!FirstPlace
                                       ELSE Told(input)!NextPlace(f[i - 1])

LEMMA LeadsExist ==
    ASSUME NEW n \in Nat
    PROVE  \E f : f = [i \in 0..n |-> f[i]] /\ Leads(f, n)
<1> DEFINE P == {k \in Nat : \E f : f = [i \in 0..k |-> f[i]] /\ Leads(f, k)}
<1>1. 0 \in P
  <2> DEFINE f == [i \in 0..0 |-> Told(input)!FirstPlace]
  <2>1. f = [i \in 0..0 |-> f[i]] /\ DOMAIN f = 0..0
    OBVIOUS
  <2>2. \A i \in 0..0 : i = 0 /\ f[i] = Told(input)!FirstPlace
    OBVIOUS
  <2> HIDE DEF f
  <2> QED
    BY <2>1, <2>2 DEF Leads
<1>2. ASSUME NEW k \in P PROVE k + 1 \in P
  <2>1. k \in Nat
    OBVIOUS
  <2>2. PICK f : f = [i \in 0..k |-> f[i]] /\ Leads(f, k)
    OBVIOUS
  <2> DEFINE g == [i \in 0..(k + 1) |-> IF i = k + 1 THEN Told(input)!NextPlace(f[k]) ELSE f[i]]
  <2>3. g = [i \in 0..(k + 1) |-> g[i]] /\ DOMAIN g = 0..(k + 1)
    OBVIOUS
  <2>4. ASSUME NEW i \in 0..(k + 1)
        PROVE  g[i] = IF i = 0 THEN Told(input)!FirstPlace ELSE Told(input)!NextPlace(g[i - 1])
    <3>1. CASE i = k + 1
      <4>1. i # 0 /\ i - 1 = k /\ k \in 0..(k + 1) /\ k # k + 1
        BY <2>1, <3>1
      <4>2. g[i] = Told(input)!NextPlace(f[k]) /\ g[k] = f[k]
        BY <3>1, <4>1
      <4> HIDE DEF g
      <4> QED
        BY <4>1, <4>2
    <3>2. CASE i # k + 1
      <4>1. i \in 0..k /\ g[i] = f[i]
        BY <2>1, <3>2
      <4>2. i # 0 => i - 1 \in 0..(k + 1) /\ i - 1 # k + 1
        BY <2>1, <4>1
      <4>3. i # 0 => g[i - 1] = f[i - 1]
        BY <4>2
      <4> HIDE DEF g
      <4> QED
        BY <2>2, <4>1, <4>3 DEF Leads
    <3> QED
      BY <3>1, <3>2
  <2> HIDE DEF g
  <2>5. Leads(g, k + 1)
    BY <2>3, <2>4 DEF Leads
  <2> QED
    BY <2>1, <2>3, <2>5
<1>3. P = Nat
  <2>1. P \in SUBSET Nat
    OBVIOUS
  <2> HIDE DEF P
  <2> QED
    BY <1>1, <1>2, <2>1, SetInduction
<1> QED
  BY <1>3

LEMMA PlacesLead ==
    ASSUME input \in Inputs
    PROVE  Leads(Told(input)!Place, Len(input))
<1> DEFINE n == Len(input)
           Is(f) == f = [i \in 0..n |-> IF i = 0 THEN Told(input)!FirstPlace
                                        ELSE Told(input)!NextPlace(f[i - 1])]
           place == CHOOSE f : Is(f)
<1>1. n \in Nat
  BY InputIsSeq
<1>2. Told(input)!Place = place
  BY DEF Told!Place
<1> HIDE DEF n
<1>3. PICK f : f = [i \in 0..n |-> f[i]] /\ Leads(f, n)
  BY <1>1, LeadsExist
<1>4. Is(f)
  BY <1>3 DEF Leads
<1>5. Is(place)
  <2> HIDE DEF Is
  <2> QED
    BY <1>4
<1> HIDE DEF place
<1>6. Leads(place, n)
  <2> DEFINE body == [i \in 0..n |-> IF i = 0 THEN Told(input)!FirstPlace
                                     ELSE Told(input)!NextPlace(place[i - 1])]
  <2>1. place = body
    BY <1>5
  <2>2. DOMAIN body = 0..n
    OBVIOUS
  <2>3. \A i \in 0..n : body[i] = IF i = 0 THEN Told(input)!FirstPlace
                                  ELSE Told(input)!NextPlace(place[i - 1])
    OBVIOUS
  <2> HIDE DEF body
  <2> QED
    BY <2>1, <2>2, <2>3 DEF Leads
<1> QED
  BY <1>2, <1>6 DEF n

\* A line ends there.
EndsLine(e) == e \in Nat /\ e >= 1 /\ e <= Len(input) /\ At(e - 1) = "lf"

Placed(p) ==
    /\ p.at \in Nat
    /\ p.ends \in Seq(Nat)
    /\ \A i \in 1..Len(p.ends) : EndsLine(p.ends[i])

\* What is read behind a place moves on.
LEMMA ReadableMoves ==
    ASSUME input \in Inputs, NEW p, p.at \in Nat,
           Told(input)!Start(p) < Len(input), ~Told(input)!Read(p).bad
    PROVE  /\ Told(input)!Start(p) \in Nat /\ p.at <= Told(input)!Start(p)
           /\ Grows(Told(input)!Read(p), Told(input)!Start(p))
           /\ Told(input)!EndAfter(p) \in Nat /\ p.at < Told(input)!EndAfter(p)
           /\ Told(input)!Read(p).kind = "eol" => EndsLine(Told(input)!EndAfter(p))
<1> DEFINE o == Told(input)!Start(p)
           r == Told(input)!Read(p)
<1>1. Len(input) \in Nat
  BY InputIsSeq
<1>2. o = Promise!RunEnd(p.at, {"sp"})
  BY SameRuns DEF Told!Start
<1>3. p.at <= Len(input)
  <2> SUFFICES ASSUME p.at > Len(input) PROVE FALSE
    BY <1>1
  <2> DEFINE ends == {i \in p.at..(Len(input) - 1) : At(i) \notin {"sp"}} \cup {Len(input)}
  <2>1. ends \in SUBSET Nat /\ ends # {} /\ \A e \in ends : e = Len(input)
    BY <1>1
  <2>2. o = Min(ends)
    BY <1>2, PromisedExtremes DEF Promise!RunEnd, Promise!At, Promise!Length, At
  <2> HIDE DEF ends
  <2>3. Min(ends) \in ends
    BY <2>1, MinOfNats
  <2>4. o = Len(input)
    BY <2>1, <2>2, <2>3
  <2> QED
    BY <1>1, <2>4
<1>4. o \in p.at..Len(input) /\ At(o) \notin {"sp"}
  BY <1>2, <1>3, RunOfWhole
<1>5. r = Told(input)!Whole!ReadAt(o, Told(input)!Mode(p.part))
  BY DEF Told!Read
<1> HIDE DEF o, r
<1>6. o \in Nat /\ p.at <= o /\ o < Len(input)
  BY <1>1, <1>4 DEF o
<1>7. Grows(r, o)
  BY <1>4, <1>5, <1>6, ReadingGrows DEF r
<1>8. Told(input)!EndAfter(p) = o + r.len + IF r.kind = "literal_begin" THEN r.number ELSE 0
  BY DEF Told!EndAfter, o, r
<1>9. Told(input)!EndAfter(p) \in Nat /\ p.at < Told(input)!EndAfter(p)
  <2>1. r.kind # "literal_begin" => Told(input)!EndAfter(p) = o + r.len
    BY <1>6, <1>7, <1>8 DEF Grows
  <2>2. r.kind = "literal_begin" => Told(input)!EndAfter(p) = o + r.len + r.number
    BY <1>8
  <2> QED
    BY <1>6, <1>7, <2>1, <2>2 DEF Grows
<1>10. r.kind = "eol" => EndsLine(Told(input)!EndAfter(p))
  <2> SUFFICES ASSUME r.kind = "eol" PROVE EndsLine(Told(input)!EndAfter(p))
    OBVIOUS
  <2>1. r.len = 2 /\ o + 1 < Len(input) /\ At(o + 1) = "lf"
    BY <1>7 DEF Grows
  <2>2. Told(input)!EndAfter(p) = o + 2 /\ (o + 2) - 1 = o + 1
    BY <1>6, <1>8, <2>1
  <2> QED
    BY <1>1, <1>6, <2>1, <2>2 DEF EndsLine
<1> QED
  BY <1>6, <1>7, <1>9, <1>10 DEF o, r

LEMMA NextIsPlaced ==
    ASSUME input \in Inputs, NEW p, Placed(p), NEW q, q = Told(input)!NextPlace(p)
    PROVE  /\ Placed(q)
           /\ Told(input)!Readable(p) => q = Told(input)!Behind(p) /\ p.at < q.at
           /\ ~Told(input)!Readable(p) => q = p
           /\ q.ends = p.ends \/ (q.ends = Append(p.ends, q.at) /\ p.at < q.at)
<1>1. CASE ~Told(input)!Readable(p)
  <2>1. q = p
    BY <1>1 DEF Told!NextPlace
  <2> QED
    BY <1>1, <2>1
<1>2. CASE Told(input)!Readable(p)
  <2> DEFINE e == Told(input)!EndAfter(p)
  <2>1. q = Told(input)!Behind(p)
    BY <1>2 DEF Told!NextPlace
  <2>2. /\ q.at = e
        /\ q.ends = IF Told(input)!Answers(p) THEN Append(p.ends, e) ELSE p.ends
    BY <2>1 DEF Told!Behind
  <2>3. /\ e \in Nat /\ p.at < e
        /\ Told(input)!Read(p).kind = "eol" => EndsLine(e)
    BY <1>2, ReadableMoves DEF Told!Readable, Placed
  <2> HIDE DEF e
  <2>4. CASE ~Told(input)!Answers(p)
    BY <1>2, <2>1, <2>2, <2>3, <2>4 DEF Placed
  <2>5. CASE Told(input)!Answers(p)
    <3>1. EndsLine(e) /\ q.ends = Append(p.ends, e)
      BY <2>2, <2>3, <2>5 DEF Told!Answers
    <3>2. p.ends \in Seq(Nat) /\ Len(p.ends) \in Nat
      BY DEF Placed
    <3>3. /\ q.ends \in Seq(Nat) /\ Len(q.ends) = Len(p.ends) + 1
          /\ \A i \in 1..Len(p.ends) : q.ends[i] = p.ends[i]
          /\ q.ends[Len(p.ends) + 1] = e
      BY <2>3, <3>1, <3>2
    <3>4. ASSUME NEW i \in 1..Len(q.ends) PROVE EndsLine(q.ends[i])
      <4>1. i \in 1..Len(p.ends) \/ i = Len(p.ends) + 1
        BY <3>2, <3>3
      <4> QED
        BY <3>1, <3>3, <4>1 DEF Placed
    <3> QED
      BY <1>2, <2>1, <2>2, <2>3, <3>1, <3>3, <3>4 DEF Placed
  <2> QED
    BY <2>4, <2>5
<1> QED
  BY <1>1, <1>2

\* No token is empty, so that no place is behind more of them than bytes.
LEMMA PlacesArePlaced ==
    ASSUME input \in Inputs
    PROVE  \A n \in 0..Len(input) :
               /\ Placed(Told(input)!Place[n])
               /\ n <= Told(input)!Place[n].at \/ ~Told(input)!Readable(Told(input)!Place[n])
<1> DEFINE L == Len(input)
           place == Told(input)!Place
           Q(n) == Placed(place[n]) /\ (n <= place[n].at \/ ~Told(input)!Readable(place[n]))
           P == {n \in Nat : n <= L => Q(n)}
<1>1. L \in Nat
  BY InputIsSeq
<1>2. /\ 0 \in 0..L => place[0] = Told(input)!FirstPlace
      /\ \A n \in 0..L : n # 0 => place[n] = Told(input)!NextPlace(place[n - 1])
  BY PlacesLead DEF Leads
<1> HIDE DEF L, place
<1>3. 0 \in P
  <2>1. place[0] = Told(input)!FirstPlace
    BY <1>1, <1>2
  <2>2. place[0].at = 0 /\ place[0].ends = <<>>
    BY <2>1 DEF Told!FirstPlace
  <2>3. Placed(place[0])
    BY <2>2 DEF Placed
  <2> QED
    BY <2>2, <2>3
<1>4. ASSUME NEW n \in P PROVE n + 1 \in P
  <2> SUFFICES ASSUME n + 1 <= L PROVE Q(n + 1)
    OBVIOUS
  <2>1. n \in Nat /\ n + 1 \in 0..L /\ n + 1 # 0 /\ (n + 1) - 1 = n /\ n <= L
    BY <1>1
  <2>2. Q(n)
    BY <2>1
  <2>3. place[n + 1] = Told(input)!NextPlace(place[n])
    BY <1>2, <2>1
  <2> DEFINE p == place[n]
             q == place[n + 1]
  <2>4. Placed(p) /\ q = Told(input)!NextPlace(p) /\ (n <= p.at \/ ~Told(input)!Readable(p))
    BY <2>2, <2>3
  <2> HIDE DEF p, q
  <2>5. /\ Placed(q)
        /\ Told(input)!Readable(p) => p.at < q.at
        /\ ~Told(input)!Readable(p) => q = p
    BY <2>4, NextIsPlaced
  <2>6. n + 1 <= q.at \/ ~Told(input)!Readable(q)
    BY <2>1, <2>4, <2>5 DEF Placed
  <2> QED
    BY <2>5, <2>6 DEF q
<1>5. P = Nat
  <2>1. P \in SUBSET Nat
    OBVIOUS
  <2> HIDE DEF P
  <2> QED
    BY <1>3, <1>4, <2>1, SetInduction
<1>6. \A n \in 0..L : Q(n)
  BY <1>1, <1>5
<1> QED
  BY <1>6 DEF L, place

\* From p to q no end was lost, and those that were added are behind p.
Ahead(p, q) ==
    /\ p.at <= q.at /\ Len(p.ends) <= Len(q.ends)
    /\ \A i \in 1..Len(p.ends) : q.ends[i] = p.ends[i]
    /\ \A i \in 1..Len(q.ends) : i > Len(p.ends) => p.at < q.ends[i]

LEMMA PlacesGrow ==
    ASSUME input \in Inputs, NEW n \in 0..Len(input)
    PROVE  Ahead(Told(input)!Place[n], Told(input)!Place[Len(input)])
<1> DEFINE L == Len(input)
           place == Told(input)!Place
           p == place[n]
           P == {k \in Nat : n + k <= L => Ahead(p, place[n + k])}
<1>1. L \in Nat /\ n \in Nat /\ n <= L
  BY InputIsSeq
<1>2. \A m \in 0..L : m # 0 => place[m] = Told(input)!NextPlace(place[m - 1])
  BY PlacesLead DEF Leads
<1>3. \A m \in 0..L : Placed(place[m])
  BY PlacesArePlaced
<1> HIDE DEF L, place
<1>4. Placed(p)
  BY <1>1, <1>3
<1>5. 0 \in P
  <2>1. n + 0 = n
    BY <1>1
  <2>2. Ahead(p, p)
    <3> HIDE DEF p
    <3> QED
      BY <1>4 DEF Ahead, Placed
  <2> QED
    BY <2>1, <2>2
<1> HIDE DEF p
<1>6. ASSUME NEW k \in P PROVE k + 1 \in P
  <2> DEFINE q == place[n + k]
             r == place[n + (k + 1)]
  <2> SUFFICES ASSUME n + (k + 1) <= L PROVE Ahead(p, r)
    OBVIOUS
  <2>1. /\ k \in Nat /\ n + k \in 0..L /\ n + (k + 1) \in 0..L
        /\ n + (k + 1) # 0 /\ n + (k + 1) - 1 = n + k
    BY <1>1
  <2>2. r = Told(input)!NextPlace(q)
    <3> DEFINE m == n + (k + 1)
    <3>1. m \in 0..L /\ m # 0 /\ m - 1 = n + k
      BY <2>1
    <3> HIDE DEF m
    <3>2. place[m] = Told(input)!NextPlace(place[n + k])
      BY <1>2, <3>1
    <3> QED
      BY <3>2 DEF m
  <2>3. Ahead(p, q) /\ Placed(q)
    BY <1>1, <1>3, <2>1
  <2> HIDE DEF q, r
  <2>4. /\ Placed(r) /\ (r = q \/ q.at < r.at)
        /\ r.ends = q.ends \/ (r.ends = Append(q.ends, r.at) /\ q.at < r.at)
    BY <2>2, <2>3, NextIsPlaced
  <2>5. /\ p.at \in Nat /\ q.at \in Nat /\ r.at \in Nat
        /\ p.ends \in Seq(Nat) /\ q.ends \in Seq(Nat)
        /\ Len(p.ends) \in Nat /\ Len(q.ends) \in Nat
    BY <1>4, <2>3, <2>4 DEF Placed
  <2>6. CASE r.ends = q.ends
    BY <2>3, <2>4, <2>5, <2>6 DEF Ahead
  <2>7. CASE r.ends = Append(q.ends, r.at) /\ q.at < r.at
    <3>1. /\ Len(r.ends) = Len(q.ends) + 1
          /\ \A i \in 1..Len(q.ends) : r.ends[i] = q.ends[i]
          /\ r.ends[Len(q.ends) + 1] = r.at
      BY <2>5, <2>7
    <3>2. p.at <= r.at /\ Len(p.ends) <= Len(r.ends) /\ p.at < r.at
      BY <2>3, <2>5, <2>7, <3>1 DEF Ahead
    <3>3. \A i \in 1..Len(p.ends) : r.ends[i] = p.ends[i]
      BY <2>3, <2>5, <3>1 DEF Ahead
    <3>4. ASSUME NEW i \in 1..Len(r.ends), i > Len(p.ends) PROVE p.at < r.ends[i]
      <4>1. i \in 1..Len(q.ends) \/ i = Len(q.ends) + 1
        BY <2>5, <3>1
      <4> QED
        BY <2>3, <3>1, <3>2, <3>4, <4>1 DEF Ahead
    <3> QED
      BY <3>2, <3>3, <3>4 DEF Ahead
  <2> QED
    BY <2>4, <2>6, <2>7
<1>7. P = Nat
  <2>1. P \in SUBSET Nat
    OBVIOUS
  <2> HIDE DEF P
  <2> QED
    BY <1>5, <1>6, <2>1, SetInduction
<1>8. L - n \in P /\ n + (L - n) = L
  <2> HIDE DEF P
  <2> QED
    BY <1>1, <1>7
<1> QED
  BY <1>8 DEF L, place, p

\* The places of everything the server sends.
Places == {Told(input)!Place[n] : n \in 0..Len(input)}

LEMMA PlaceProperties ==
    ASSUME input \in Inputs, NEW p \in Places
    PROVE  /\ Placed(p)
           /\ Told(input)!Readable(p) => Told(input)!Behind(p) \in Places
           /\ Len(p.ends) <= Len(Told(input)!AnswerEnds)
           /\ \A i \in 1..Len(p.ends) : Told(input)!AnswerEnds[i] = p.ends[i]
           /\ \A i \in 1..Len(Told(input)!AnswerEnds) :
                 /\ EndsLine(Told(input)!AnswerEnds[i])
                 /\ i > Len(p.ends) => p.at < Told(input)!AnswerEnds[i]
<1> DEFINE L == Len(input)
           place == Told(input)!Place
           last == place[L]
<1>1. L \in Nat /\ L \in 0..L
  BY InputIsSeq
<1>2. PICK n \in 0..L : p = place[n]
  BY DEF Places
<1>3. Told(input)!AnswerEnds = last.ends
  BY DEF Told!AnswerEnds
<1>4. Ahead(p, last)
  BY <1>2, PlacesGrow
<1>5. /\ Placed(p) /\ Placed(last)
      /\ n <= p.at \/ ~Told(input)!Readable(p)
  BY <1>1, <1>2, PlacesArePlaced
<1>6. \A m \in 0..L : m # 0 => place[m] = Told(input)!NextPlace(place[m - 1])
  BY PlacesLead DEF Leads
<1> HIDE DEF place
<1>7. ASSUME Told(input)!Readable(p) PROVE Told(input)!Behind(p) \in Places
  <2>1. /\ p.at <= Told(input)!Start(p) /\ Told(input)!Start(p) < L
        /\ Told(input)!Start(p) \in Nat /\ p.at \in Nat
    BY <1>5, <1>7, ReadableMoves DEF Told!Readable, Placed
  <2>2. n + 1 \in 0..L /\ n + 1 # 0 /\ (n + 1) - 1 = n
    BY <1>1, <1>5, <1>7, <2>1
  <2>3. place[n + 1] = Told(input)!NextPlace(p)
    BY <1>2, <1>6, <2>2
  <2>4. Told(input)!NextPlace(p) = Told(input)!Behind(p)
    BY <1>7 DEF Told!NextPlace
  <2> QED
    BY <2>2, <2>3, <2>4 DEF Places, place
<1> HIDE DEF last
<1> QED
  BY <1>3, <1>4, <1>5, <1>7 DEF Ahead, Placed

LEMMA FirstIsPlace ==
    ASSUME input \in Inputs
    PROVE  Told(input)!FirstPlace \in Places
<1>1. 0 \in 0..Len(input)
  BY InputIsSeq
<1>2. Told(input)!Place[0] = Told(input)!FirstPlace
  BY <1>1, PlacesLead DEF Leads
<1> QED
  BY <1>1, <1>2 DEF Places

-----------------------------------------------------------------------------
(* The probe stands at a place of the complete input.                      *)

\* The bytes of a literal that are still to come, or its end.
Rest == IF literal = NoLiteral THEN 0 ELSE literal

PartOf(s) == IF s = "code_close" THEN "code_text" ELSE s

\* What the lexer has dealt with: all it consumed but pending spaces, and the whole
\* of a literal it is in.
Reached == pos - spaces + Rest

LexerStands(p) == p.at = Reached

ReaderStands(p) ==
    /\ p.part = PartOf(state)
    /\ state = "code_args" => p.open = codeDepth

Content == token.kind \in {"literal_data", "literal_end"}

\* A token came that the probe has not noted yet, other than a literal's content.
Pending == pc = "reading" /\ call # "again" /\ status = "token" /\ ~Content

\* The token is the one at the place, taken off what has arrived of it.
TokenStands(p) ==
    /\ Told(input)!Start(p) < Len(input) /\ ~Told(input)!Read(p).bad
    /\ token.first = Told(input)!Start(p)
    /\ token.len = Told(input)!Read(p).len
    /\ token.kind = Told(input)!Read(p).kind
    /\ spaces = 0

Stands(p) ==
    \/ ~Pending /\ LexerStands(p) /\ ReaderStands(p)
    \/ /\ Pending /\ TokenStands(p) /\ LexerStands(Told(input)!Behind(p))
       /\ \/ call = "asked" /\ ReaderStands(p)
          \/ /\ call = "idle"
             /\ Told(input)!Readable(p) /\ ReaderStands(Told(input)!Behind(p))
             /\ p.part = "start" /\ token.len # 1 => kind = "tagged"

\* What read_response has noted of the response so far is what the place has.
Summarized(p) ==
    /\ index = 0 <=> p.part = "start"
    /\ index # 0 => /\ summary.tag = p.tag
                    /\ Len(p.tag) # 1 => summary.kind = "tagged"

ProbeStands(p) ==
    /\ pc = "setup" => p = Told(input)!FirstPlace /\ sent = 0
    /\ pc \in {"next", "reading"} => Len(p.ends) = sent /\ Summarized(p)
    /\ pc = "send" =>
          /\ Len(p.ends) = sent + 1 /\ p.ends[sent + 1] = pos
          /\ p.part = "start" /\ outcome = "token"

\* Nothing is read any more.
Lost ==
    /\ pc = "reading"
    /\ \/ call = "idle" /\ outcome \in Errors
       \/ call = "asked" /\ status = "error"

PlaceInv ==
    /\ call # "idle" => pc = "reading"
    /\ pc \in {"setup", "next", "reading", "send"} =>
          Lost \/ \E p \in Places : Stands(p) /\ ProbeStands(p)

-----------------------------------------------------------------------------
(* Every step goes from a place to a place.                                *)

LEMMA AskStands ==
    ASSUME ReaderInv, Ask
    PROVE  /\ call' = "asked" /\ UNCHANGED <<input, state, kind, codeDepth, outcome>>
           /\ status' = "error" \/ (Reached' = Reached /\ (status' = "token" => Content'))
<1>1. /\ call' = "asked" /\ UNCHANGED <<state, kind, codeDepth, outcome>>
      /\ NextFailed \/ NextLiteral \/ Enter(ModeFor(state))
  BY DEF Ask, rdVars
<1>2. /\ Inv /\ ModeFor(state) \in Modes
      /\ pos \in Nat /\ fed \in Nat /\ (literal = NoLiteral \/ literal \in Nat)
  BY ModesAre, ClosingsAre DEF ReaderInv, ReaderTypes
<1>3. spaces \in Nat
  BY <1>2, LimitsAre DEF Inv, TypeOK
<1>4. CASE NextFailed
  BY <1>1, <1>4 DEF NextFailed, inputVars
<1>5. CASE NextLiteral
  <2> DEFINE chunk == Min({literal, fed - pos})
  <2>1. literal # NoLiteral /\ literal \in Nat /\ spaces = 0 /\ UNCHANGED input
    BY <1>2, <1>5 DEF NextLiteral, Inv, InLiteral, inputVars
  <2>2. Reached = pos + literal
    BY <1>2, <2>1 DEF Reached, Rest
  <2>3. CASE literal = 0
    <3>1. /\ token'.kind = "literal_end" /\ literal' = NoLiteral
          /\ pos' = pos + 0 /\ spaces' = 0
      BY <1>5, <2>3 DEF NextLiteral, Emit
    <3> QED
      BY <1>1, <1>2, <2>1, <2>2, <2>3, <3>1 DEF Reached, Rest, Content
  <2>4. CASE literal # 0 /\ pos < fed
    <3>1. /\ token'.kind = "literal_data" /\ literal' = literal - chunk
          /\ pos' = pos + chunk /\ spaces' = 0
      BY <1>5, <2>4 DEF NextLiteral, Emit
    <3>2. chunk \in Nat /\ chunk <= literal
      <4>1. chunk \in 1..literal
        BY <1>2, <2>1, <2>4, ChunkIs
      <4> HIDE DEF chunk
      <4> QED
        BY <2>1, <4>1
    <3> HIDE DEF chunk
    <3>3. literal' # NoLiteral /\ literal' \in Nat
      BY <2>1, <3>1, <3>2 DEF NoLiteral, Promise!NoLiteral
    <3>4. Reached' = pos' + literal'
      BY <1>2, <3>1, <3>2, <3>3 DEF Reached, Rest
    <3> QED
      BY <1>1, <1>2, <2>1, <2>2, <3>1, <3>2, <3>4 DEF Content
  <2>5. CASE literal # 0 /\ ~(pos < fed)
    <3>1. /\ UNCHANGED <<pos, spaces, literal>>
          /\ status' \in {"error", "need_more"}
      BY <1>5, <2>5 DEF NextLiteral, Fail
    <3> QED
      BY <1>1, <2>1, <3>1 DEF Reached, Rest
  <2> QED
    BY <2>3, <2>4, <2>5
<1>6. CASE Enter(ModeFor(state))
  <2>1. PICK k \in Nat : Skips(ModeFor(state), k)
    BY <1>2, <1>6, EnterSkips
  <2>2. /\ pos' = pos + k /\ spaces' = spaces + k
        /\ UNCHANGED <<input, literal>>
        /\ status' # "token"
    BY <2>1 DEF Skips, Starved, Fail
  <2>3. pos' - spaces' = pos - spaces
    BY <1>2, <1>3, <2>2
  <2> QED
    BY <1>1, <2>2, <2>3 DEF Reached, Rest
<1> QED
  BY <1>1, <1>4, <1>5, <1>6

\* What the lexer gives is read at the place where it stands.
LEMMA LexStands ==
    ASSUME ReaderInv, Lex, NEW p, LexerStands(p), ReaderStands(p)
    PROVE  /\ UNCHANGED <<input, state, kind, codeDepth, call, outcome>>
           /\ \/ status' = "error"
              \/ status' = "need_more" /\ Reached' = Reached
              \/ /\ status' = "token" /\ ~Content'
                 /\ TokenStands(p)' /\ (p.at \in Nat => LexerStands(Told(input)!Behind(p))')
<1>1. /\ Inv /\ Dispatch /\ status = "lexing" /\ mode = ModeFor(state) /\ state \in States
      /\ UNCHANGED <<state, kind, codeDepth, call, outcome>>
  BY DispatchTells DEF ReaderInv, ReaderTypes, Lex, rdVars, Asked
<1>2. /\ Lexes /\ literal = NoLiteral /\ Outcome
  BY <1>1, EnteredLexes, DispatchOutcome
<1>3. /\ input \in Inputs /\ Len(input) \in Nat
      /\ fed \in Nat /\ pos \in Nat /\ pos < fed /\ fed <= Len(input)
      /\ At(pos) # "sp" /\ spaces \in Nat
  BY <1>1, <1>2, ClosingsAre, LimitsAre DEF Lexes, Inv, TypeOK
<1>4. Reached = pos - spaces
  BY <1>2, <1>3 DEF Reached, Rest
<1>5. Told(input)!Start(p) = pos
  <2>1. /\ pos + 0 = pos /\ pos + 0 <= fed /\ spaces + 0 = spaces
        /\ \A i \in pos..(pos + 0 - 1) : At(i) = "sp"
    BY <1>3
  <2>2. Promise!SpacesAt = spaces /\ pos - spaces \in Nat
    BY <1>1, <1>3, <2>1, SpacesAre
  <2> DEFINE e == Promise!RunEnd(pos - spaces, {"sp"})
  <2>3. e - (pos - spaces) = spaces
    BY <2>2 DEF Promise!SpacesAt
  <2>4. e \in Nat
    <3>1. pos - spaces <= Len(input)
      BY <1>3
    <3>2. e \in (pos - spaces)..Len(input)
      BY <1>3, <2>2, <3>1, RunOfWhole
    <3> HIDE DEF e
    <3> QED
      BY <1>3, <2>2, <3>2
  <2>5. Told(input)!Start(p) = e
    BY <1>4, SameRuns DEF Told!Start, LexerStands
  <2> HIDE DEF e
  <2> QED
    BY <1>3, <2>2, <2>3, <2>4, <2>5
<1>6. Told(input)!Mode(p.part) = mode
  BY <1>1 DEF ReaderStands, PartOf, Told!Mode, ModeFor, RestMode, States
<1>7. Told(input)!Read(p) = Told(input)!Whole!ReadAt(pos, mode)
  BY <1>5, <1>6 DEF Told!Read
<1>8. CASE Refuses(Reading)
  <2>1. status' = "error" /\ UNCHANGED input
    BY <1>8 DEF Refuses, Fail, inputVars
  <2> QED
    BY <1>1, <2>1
<1>9. CASE Waits
  <2>1. status' = "need_more" /\ UNCHANGED <<input, pos, spaces, literal>>
    BY <1>9 DEF Waits, Forget, inputVars
  <2> QED
    BY <1>1, <2>1 DEF Reached, Rest
<1>10. CASE Gives(Reading)
  <2> DEFINE r == Reading
  <2>1. /\ ~r.bad /\ r.len \in Nat
        /\ r.kind = "literal_begin" => r.number \in 0..MaxLiteral
        /\ token' = [kind |-> r.kind, spaces |-> spaces, first |-> pos, len |-> r.len,
                     number |-> r.number]
        /\ spaces' = 0 /\ pos' = pos + r.len /\ status' = "token"
        /\ literal' = IF r.kind = "literal_begin" THEN r.number ELSE NoLiteral
        /\ UNCHANGED input
    BY <1>10 DEF Gives, Emit, inputVars
  <2>2. Told(input)!Read(p) = r
    BY <1>7, <2>1, SameReading DEF Reading
  <2> HIDE DEF r
  <2>3. token'.first = pos /\ token'.len = r.len /\ token'.kind = r.kind
    BY <2>1
  <2>4. TokenStands(p)'
    BY <1>3, <1>5, <2>1, <2>2, <2>3 DEF TokenStands
  <2>5. ~Content'
    <3>1. status' = "token"
      BY <2>1
    <3>2. LexGives
      BY <1>1, <3>1, DispatchTells DEF Nothing
    <3> QED
      BY <3>2 DEF LexGives, GivesEol, GivesOpen, GivesClose, GivesWord, GivesHeader, OpenKind,
                  CloseKind, Content
  <2>6. LexerStands(Told(input)!Behind(p))'
    <3>1. Told(input)!Behind(p).at =
             pos + r.len + IF r.kind = "literal_begin" THEN r.number ELSE 0
      BY <1>5, <2>2 DEF Told!Behind, Told!EndAfter
    <3>2. Reached' = pos + r.len + IF r.kind = "literal_begin" THEN r.number ELSE 0
      <4>1. CASE r.kind = "literal_begin"
        <5>1. literal' \in Nat /\ literal' # NoLiteral /\ literal' = r.number
          BY <2>1, <4>1, LimitsAre DEF NoLiteral, Promise!NoLiteral
        <5> QED
          BY <1>3, <2>1, <4>1, <5>1 DEF Reached, Rest
      <4>2. CASE r.kind # "literal_begin"
        BY <1>3, <2>1, <4>2 DEF Reached, Rest
      <4> QED
        BY <4>1, <4>2
    <3> QED
      BY <2>1, <3>1, <3>2 DEF LexerStands
  <2> QED
    BY <1>1, <2>1, <2>4, <2>5, <2>6
<1> QED
  BY <1>2, <1>8, <1>9, <1>10 DEF Outcome

\* The text of a token that is not a literal's, as the probe sees it and as it is
\* in the complete input.
LEMMA TokenTextIs ==
    ASSUME ReaderInv, status = "token", NEW p, Placed(p), TokenStands(p),
           LexerStands(Told(input)!Behind(p)), token.kind # "literal_begin", ~Content
    PROVE  /\ literal = NoLiteral /\ pos = Told(input)!EndAfter(p)
           /\ token.len \in Nat /\ token.len >= 1
           /\ Told(input)!Text(p) = SubSeq(input, token.first + 1, token.first + token.len)
           /\ Len(Told(input)!Text(p)) = token.len
           /\ \A c : IsWord(c) <=> Told(input)!IsWord(p, c)
<1>1. /\ input \in Inputs /\ pos \in Nat /\ fed \in Nat /\ pos <= fed /\ fed <= Len(input)
      /\ Len(input) \in Nat /\ input \in Seq(Promise!Characters)
  <2>1. Inv
    BY DEF ReaderInv
  <2>2. input \in Inputs /\ Len(input) \in Nat /\ input \in Seq(Promise!Characters)
    BY <2>1, InputIsSeq, LexerAssumption DEF Inv, TypeOK
  <2>3. fed \in 0..Len(input) /\ base \in 0..fed /\ pos \in base..fed
    BY <2>1 DEF Inv, TypeOK
  <2> QED
    BY <2>2, <2>3
<1>2. literal = NoLiteral
  BY DEF ReaderInv, Given, Content
<1>3. Grows(Told(input)!Read(p), Told(input)!Start(p)) /\ Told(input)!Start(p) \in Nat
  BY <1>1, ReadableMoves DEF TokenStands, Placed
<1>4. token.len \in Nat /\ token.len >= 1 /\ token.first \in Nat
  BY <1>3 DEF Grows, TokenStands
<1>5. /\ Told(input)!EndAfter(p) = token.first + token.len
      /\ Told(input)!Text(p) = SubSeq(input, token.first + 1, token.first + token.len)
  BY <1>4 DEF TokenStands, Told!EndAfter, Told!Text
<1>6. pos = Told(input)!EndAfter(p)
  BY <1>1, <1>2, <1>4, <1>5 DEF LexerStands, Reached, Rest, TokenStands, Told!Behind
<1> DEFINE text == SubSeq(input, token.first + 1, token.first + token.len)
<1>7. /\ text \in Seq(Promise!Characters)
      /\ Len(text) = token.len
      /\ \A i \in 1..token.len : text[i] = input[token.first + i]
  <2> DEFINE n == token.first + token.len
  <2>1. n \in Nat /\ token.first <= n /\ n <= Len(input) /\ n - token.first = token.len
    BY <1>1, <1>4, <1>5, <1>6
  <2> HIDE DEF n
  <2>2. /\ SubSeq(input, token.first + 1, n) \in Seq(Promise!Characters)
        /\ Len(SubSeq(input, token.first + 1, n)) = n - token.first
        /\ \A i \in 1..(n - token.first) :
              SubSeq(input, token.first + 1, n)[i] = input[token.first + i]
    BY <1>1, <1>4, <2>1, PartProperties
  <2> QED
    BY <2>1, <2>2 DEF n
<1> HIDE DEF text
<1>8. ASSUME NEW c PROVE IsWord(c) <=> Told(input)!IsWord(p, c)
  <2>1. At(token.first) = text[1]
    BY <1>4, <1>7 DEF At
  <2>2. text = <<c>> <=> token.len = 1 /\ text[1] = c
    <3>1. text = <<c>> => Len(text) = 1 /\ text[1] = c
      OBVIOUS
    <3>2. ASSUME token.len = 1, text[1] = c PROVE text = <<c>>
      <4>1. <<c>> \in Seq(Promise!Characters \cup {c}) /\ text \in Seq(Promise!Characters \cup {c})
        BY <1>7
      <4>2. Len(<<c>>) = 1 /\ <<c>>[1] = c
        OBVIOUS
      <4>3. \A i \in 1..Len(text) : text[i] = <<c>>[i]
        BY <1>7, <3>2, <4>2
      <4> QED
        BY <1>7, <3>2, <4>1, <4>2, <4>3, SeqEqual
    <3> QED
      BY <1>7, <3>1, <3>2
  <2>3. Told(input)!IsWord(p, c) <=> token.kind = "atom" /\ text = <<c>>
    BY <1>5 DEF Told!IsWord, TokenStands, text
  <2> QED
    BY <2>1, <2>2, <2>3 DEF IsWord
<1> QED
  BY <1>2, <1>4, <1>5, <1>6, <1>7, <1>8 DEF text

\* What the reader makes of a token is what follows it in the complete input.
LEMMA ReaderMoves ==
    ASSUME ReaderInv, ~Content, PassLiteral \/ EndLine \/ Start \/ Advance,
           NEW p, Placed(p), TokenStands(p), ReaderStands(p),
           LexerStands(Told(input)!Behind(p))
    PROVE  /\ UNCHANGED lexVars /\ call' = "idle" /\ outcome' = "token"
           /\ Told(input)!Readable(p)
           /\ ReaderStands(Told(input)!Behind(p))'
           /\ p.part = "start" /\ token.len # 1 => kind' = "tagged"
<1> DEFINE q == Told(input)!Behind(p)
<1>1. /\ Got /\ status = "token" /\ Returns("token")
      /\ UNCHANGED lexVars /\ UNCHANGED <<input, token>> /\ call' = "idle" /\ outcome' = "token"
  BY DEF PassLiteral, EndLine, Start, Advance, Returns, Got, lexVars
<1>2. /\ Told(input)!Read(p).kind = token.kind
      /\ q.part = Told(input)!PartAfter(p) /\ q.open = Told(input)!OpenAfter(p)
      /\ p.part = PartOf(state) /\ (state = "code_args" => p.open = codeDepth)
      /\ state \in States /\ (state = "start" <=> p.part = "start")
  BY DEF TokenStands, ReaderStands, Told!Behind, ReaderInv, ReaderTypes, PartOf
<1>3. token.kind # "literal_begin" => \A c : IsWord(c) <=> Told(input)!IsWord(p, c)
  BY <1>1, TokenTextIs
<1>4. ReaderStands(q)' <=> q.part = PartOf(state)' /\ (state' = "code_args" => q.open = codeDepth')
  BY <1>1 DEF ReaderStands
<1>5. ASSUME state = "start" => token.kind \in {"atom", "number"}
      PROVE  Told(input)!Readable(p)
  BY <1>2, <1>5 DEF Told!Readable, TokenStands
<1> HIDE DEF q
<1>6. CASE PassLiteral
  <2>1. token.kind = "literal_begin" /\ state # "start" /\ UNCHANGED <<state, codeDepth>>
    BY <1>6 DEF PassLiteral, IsLiteral, Content, rdVars
  <2>2. q.part = p.part /\ (p.part = "code_args" => q.open = p.open)
    <3>1. p.part = "code_args" => p.open = codeDepth /\ codeDepth \in Nat
      BY <1>2, <2>1 DEF PartOf, ReaderInv, ReaderTypes, States
    <3> QED
      BY <1>2, <2>1, <3>1 DEF Told!PartAfter, Told!OpenAfter
  <2> QED
    BY <1>1, <1>2, <1>4, <1>5, <2>1, <2>2 DEF PartOf, q
<1>7. CASE EndLine
  BY <1>1, <1>2, <1>4, <1>5, <1>7 DEF EndLine, PartOf, Told!PartAfter, q
<1>8. CASE Start
  <2>1. /\ state = "start" /\ token.kind \in {"atom", "number"}
        /\ state' = IF IsWord("+") THEN "text_rest" ELSE "second"
        /\ token.len # 1 => kind' = "tagged"
    BY <1>8 DEF Start, IsWord
  <2>2. q.part = IF IsWord("+") THEN "text_rest" ELSE "second"
    BY <1>2, <1>3, <2>1 DEF Told!PartAfter, Told!PartBehind, PartOf
  <2> QED
    BY <1>1, <1>2, <1>4, <1>5, <2>1, <2>2 DEF PartOf, q
<1>9. CASE Advance
  <2>1. /\ state # "start" /\ token.kind # "eol" /\ token.kind # "literal_begin"
        /\ codeDepth' = DepthNow
    BY <1>9 DEF Advance, IsLiteral
  <2>2. \A c : IsWord(c) <=> Told(input)!IsWord(p, c)
    BY <1>3, <2>1
  <2>3. q.part = Told(input)!PartBehind(p)
    BY <1>2, <2>1 DEF Told!PartAfter
  <2> USE DEF PartOf, Told!PartBehind
  <2>4. CASE state = "second"
    <3>1. state' = IF IsStatus THEN "resp_text" ELSE "data"
      BY <1>9, <2>4 DEF Advance
    <3> QED
      BY <1>1, <1>2, <1>4, <1>5, <2>1, <2>2, <2>3, <2>4, <3>1 DEF IsStatus, q
  <2>5. CASE state = "resp_text"
    <3>1. state' = IF token.kind = "lbracket" THEN "code_name" ELSE "text_rest"
      BY <1>9, <2>5 DEF Advance
    <3> QED
      BY <1>1, <1>2, <1>4, <1>5, <2>1, <2>3, <2>5, <3>1 DEF q
  <2>6. CASE state = "code_name"
    <3>1. state' = AfterCodeName
      BY <1>9, <2>6 DEF Advance
    <3>2. IsStructuredCode => codeDepth' = 1
      BY <2>1, <2>6 DEF DepthNow, OuterBracket
    <3>3. q.open = 1
      BY <1>2, <2>6 DEF Told!OpenAfter
    <3>4. IsStructuredCode <=> Told(input)!IsWord(p, "C")
      BY <2>2 DEF IsStructuredCode
    <3>5. IsStructuredCode => token.kind # "rbracket"
      BY DEF IsStructuredCode, IsWord
    <3>6. q.part = IF token.kind = "rbracket" THEN "text_rest"
                   ELSE IF IsStructuredCode THEN "code_args" ELSE "code_text"
      BY <1>2, <2>3, <2>6, <3>4
    <3>7. state' \in {"text_rest", "code_args", "code_text", "code_close"}
             /\ PartOf(state)' = q.part /\ (state' = "code_args" => IsStructuredCode)
      BY <3>1, <3>5, <3>6 DEF AfterCodeName
    <3> QED
      BY <1>1, <1>2, <1>4, <1>5, <2>1, <3>2, <3>3, <3>7 DEF q
  <2>7. CASE state = "code_args"
    <3>1. state' = IF codeDepth' = 0 THEN "text_rest" ELSE "code_args"
      BY <1>9, <2>7 DEF Advance
    <3>2. q.open = codeDepth'
      <4>1. codeDepth \in Nat /\ p.open = codeDepth /\ p.part = "code_args"
        BY <1>2, <2>7 DEF ReaderInv, ReaderTypes
      <4> QED
        BY <1>2, <2>1, <2>7, <4>1 DEF DepthNow, Told!OpenAfter
    <3>3. q.part = IF q.open = 0 THEN "text_rest" ELSE "code_args"
      BY <1>2, <2>3, <2>7
    <3> QED
      BY <1>1, <1>2, <1>4, <1>5, <2>1, <3>1, <3>2, <3>3 DEF q
  <2>8. CASE state \in {"code_text", "code_close"}
    <3>1. state' = IF token.kind = "rbracket" THEN "text_rest" ELSE "code_close"
      BY <1>9, <2>8 DEF Advance
    <3> QED
      BY <1>1, <1>2, <1>4, <1>5, <2>1, <2>3, <2>8, <3>1 DEF q
  <2>9. CASE state \in {"text_rest", "data"}
    <3>1. state' = state
      BY <1>9, <2>9 DEF Advance
    <3> QED
      BY <1>1, <1>2, <1>4, <1>5, <2>1, <2>3, <2>9, <3>1 DEF q
  <2> QED
    BY <1>2, <2>1, <2>4, <2>5, <2>6, <2>7, <2>8, <2>9 DEF States
<1> QED
  BY <1>6, <1>7, <1>8, <1>9

\* Where the reader stands only its own steps change.
LEMMA StandsStays ==
    ASSUME UNCHANGED <<lexVars, rdVars>>
    PROVE  /\ input' = input /\ Places' = Places
           /\ \A p : /\ LexerStands(p)' = LexerStands(p)
                    /\ ReaderStands(p)' = ReaderStands(p)
                    /\ TokenStands(p)' = TokenStands(p)
           /\ Content' = Content
<1>1. UNCHANGED <<input, pos, spaces, literal, token, state, kind, codeDepth, status>>
  BY DEF lexVars, rdVars
<1> QED
  BY <1>1 DEF Places, LexerStands, ReaderStands, TokenStands, Reached, Rest, Content, NoLiteral,
              Promise!NoLiteral, PartOf

\* Reading goes from a place to a place.
LEMMA ReadingStands ==
    ASSUME ProbeInv, PlaceInv, NextToken \/ InsideNext
    PROVE  PlaceInv'
<1>1. ReaderInv /\ input \in Inputs
  BY DEF ProbeInv, ReaderInv, Inv, TypeOK
<1>2. /\ pc \in {"next", "reading"} /\ pc' = "reading"
      /\ UNCHANGED <<sent, index, summary>>
  BY DEF NextToken, InsideNext, mainVars
<1>3. ASSUME NEW p, ProbeStands(p) PROVE ProbeStands(p)'
  BY <1>2, <1>3 DEF ProbeStands, Summarized
<1>4. SUFFICES Lost' \/ \E p \in Places' : Stands(p)' /\ ProbeStands(p)'
  BY <1>2 DEF PlaceInv
<1>5. LexerRefuses \/ StreamFails \/ StreamStalls \/ Refuse => Lost'
  BY <1>2 DEF LexerRefuses, StreamFails, StreamStalls, Refuse, Returns, Lost, Errors
<1>6. CASE Lost
  <2>1. LexerRefuses
    BY <1>6, DispatchTells
    DEF Lost, NextToken, InsideNext, ServerSends, StreamReads, Lex, StreamFails, StreamStalls,
        LexerRefuses, InputEnds, Refuse, PassLiteral, EndLine, Start, Advance, Got
  <2> QED
    BY <1>5, <2>1
<1>7. CASE ~Lost
  <2>1. PICK p \in Places : Stands(p) /\ ProbeStands(p)
    BY <1>2, <1>7 DEF PlaceInv
  <2>2. Placed(p) /\ p.at \in Nat
    BY <1>1, <2>1, PlaceProperties DEF Placed
  <2>3. SUFFICES ASSUME Places' = Places => ~Stands(p)' PROVE Lost'
    BY <1>3, <2>1
  <2>4. ~Pending => LexerStands(p) /\ ReaderStands(p)
    BY <2>1 DEF Stands
  <2>5. ASSUME Ask, call = "idle" => pc = "next" PROVE Lost'
    <3>1. ~Pending
      BY <2>5 DEF Pending, Ask
    <3>2. /\ call' = "asked" /\ UNCHANGED <<input, state, kind, codeDepth, outcome>>
          /\ status' = "error" \/ (Reached' = Reached /\ (status' = "token" => Content'))
      BY <1>1, <2>5, AskStands
    <3>3. CASE status' = "error"
      BY <1>2, <3>2, <3>3 DEF Lost
    <3>4. CASE Reached' = Reached /\ (status' = "token" => Content')
      <4>1. LexerStands(p)' /\ ReaderStands(p)' /\ ~Pending' /\ Places' = Places
        BY <2>4, <3>1, <3>2, <3>4 DEF LexerStands, ReaderStands, PartOf, Pending, Places
      <4> QED
        BY <2>3, <4>1 DEF Stands
    <3> QED
      BY <3>2, <3>3, <3>4
  <2>6. ASSUME Lex PROVE Lost'
    <3>1. ~Pending /\ call = "asked"
      BY <2>6, DispatchTells DEF Pending, Lex
    <3>2. /\ UNCHANGED <<input, state, kind, codeDepth, call, outcome>>
          /\ \/ status' = "error"
             \/ status' = "need_more" /\ Reached' = Reached
             \/ /\ status' = "token" /\ ~Content'
                /\ TokenStands(p)' /\ LexerStands(Told(input)!Behind(p))'
      BY <1>1, <2>2, <2>4, <2>6, <3>1, LexStands
    <3>3. ReaderStands(p)' /\ Places' = Places
      BY <2>4, <3>1, <3>2 DEF ReaderStands, PartOf, Places
    <3>4. CASE status' = "error"
      BY <1>2, <3>1, <3>2, <3>4 DEF Lost
    <3>5. CASE status' = "need_more" /\ Reached' = Reached
      <4>1. ~Pending' /\ LexerStands(p)'
        BY <2>4, <3>1, <3>5 DEF Pending, LexerStands
      <4> QED
        BY <2>3, <3>3, <4>1 DEF Stands
    <3>6. CASE /\ status' = "token" /\ ~Content'
               /\ TokenStands(p)' /\ LexerStands(Told(input)!Behind(p))'
      <4>1. Pending' /\ call' = "asked"
        BY <1>2, <3>1, <3>2, <3>6 DEF Pending
      <4> QED
        BY <2>3, <3>3, <3>6, <4>1 DEF Stands
    <3> QED
      BY <3>2, <3>4, <3>5, <3>6
  <2>7. ASSUME ServerSends PROVE Lost'
    <3>1. /\ status = "need_more" /\ status' = "idle"
          /\ UNCHANGED <<input, pos, spaces, literal, state, codeDepth>>
      BY <2>7 DEF ServerSends, StreamReads, Accept, rdVars
    <3>2. ~Pending /\ ~Pending'
      BY <3>1 DEF Pending
    <3>3. LexerStands(p)' /\ ReaderStands(p)' /\ Places' = Places
      BY <2>4, <3>1, <3>2 DEF LexerStands, ReaderStands, PartOf, Reached, Rest, Places, NoLiteral,
                              Promise!NoLiteral
    <3> QED
      BY <2>3, <3>2, <3>3 DEF Stands
  <2>8. ASSUME UNCHANGED <<lexVars, rdVars>>, ~Pending, ~Pending' PROVE Lost'
    <3>1. LexerStands(p)' /\ ReaderStands(p)' /\ Places' = Places
      BY <2>4, <2>8, StandsStays
    <3> QED
      BY <2>3, <2>8, <3>1 DEF Stands
  <2>9. ASSUME InputEnds PROVE Lost'
    <3>1. /\ UNCHANGED <<lexVars, rdVars>> /\ status = "end" /\ status' = status
      BY <2>9 DEF InputEnds, Returns, lexVars
    <3> QED
      BY <2>8, <3>1 DEF Pending
  <2>10. ASSUME pc = "reading", PassLiteral \/ EndLine \/ Start \/ Advance PROVE Lost'
    <3>1. CASE Content
      <4>1. PassLiteral
        BY <2>10, <3>1 DEF Content, EndLine, Start, Advance, IsLiteral
      <4>2. UNCHANGED <<lexVars, rdVars>>
        BY <4>1 DEF PassLiteral, Returns
      <4> QED
        BY <2>8, <3>1, <4>2, StandsStays DEF Pending
    <3>2. CASE ~Content
      <4>1. call = "asked" /\ status = "token" /\ Pending
        BY <2>10, <3>2 DEF PassLiteral, EndLine, Start, Advance, Got, Pending
      <4>2. TokenStands(p) /\ ReaderStands(p) /\ LexerStands(Told(input)!Behind(p))
        BY <2>1, <4>1 DEF Stands
      <4>3. /\ UNCHANGED lexVars /\ call' = "idle" /\ outcome' = "token"
            /\ Told(input)!Readable(p)
            /\ ReaderStands(Told(input)!Behind(p))'
            /\ p.part = "start" /\ token.len # 1 => kind' = "tagged"
        BY <1>1, <2>2, <2>10, <3>2, <4>2, ReaderMoves
      <4>4. UNCHANGED <<input, pos, spaces, literal, token, status>>
        BY <4>3 DEF lexVars
      <4>5. Pending' /\ Places' = Places
        BY <1>2, <3>2, <4>1, <4>3, <4>4 DEF Pending, Content, Places
      <4>6. TokenStands(p)' /\ Told(input)!Readable(p)'
        BY <4>2, <4>3, <4>4 DEF TokenStands
      <4>7. LexerStands(Told(input)!Behind(p))'
        BY <4>2, <4>4 DEF LexerStands, Reached, Rest, NoLiteral, Promise!NoLiteral
      <4> QED
        BY <2>3, <4>3, <4>4, <4>5, <4>6, <4>7 DEF Stands
    <3> QED
      BY <3>1, <3>2
  <2> QED
    BY <1>5, <2>5, <2>6, <2>7, <2>9, <2>10 DEF NextToken, InsideNext
<1> QED
  BY <1>6, <1>7

\* Where the probe is when next() has returned a token.
LEMMA AnsweredStands ==
    ASSUME ProbeInv, PlaceInv, Answered({"token"})
    PROVE  \E p \in Places :
              /\ Placed(p) /\ Len(p.ends) = sent /\ Summarized(p)
              /\ \/ Content /\ LexerStands(p) /\ ReaderStands(p)
                 \/ /\ ~Content /\ TokenStands(p) /\ Told(input)!Readable(p)
                    /\ Told(input)!Behind(p) \in Places
                    /\ LexerStands(Told(input)!Behind(p)) /\ ReaderStands(Told(input)!Behind(p))
                    /\ p.part = "start" /\ token.len # 1 => kind = "tagged"
<1>1. pc = "reading" /\ call = "idle" /\ outcome = "token" /\ status = "token"
  BY AnswerTells DEF Answered
<1>2. input \in Inputs /\ ~Lost
  BY <1>1 DEF ProbeInv, ReaderInv, Inv, TypeOK, Lost, Errors
<1>3. PICK p \in Places : Stands(p) /\ ProbeStands(p)
  BY <1>1, <1>2 DEF PlaceInv
<1>4. Placed(p) /\ (Told(input)!Readable(p) => Told(input)!Behind(p) \in Places)
  BY <1>2, <1>3, PlaceProperties
<1>5. Len(p.ends) = sent /\ Summarized(p)
  BY <1>1, <1>3 DEF ProbeStands
<1>6. Pending <=> ~Content
  BY <1>1 DEF Pending
<1> QED
  BY <1>1, <1>3, <1>4, <1>5, <1>6 DEF Stands

\* A token of a response goes into its summary.
LEMMA TokenStandsBehind ==
    ASSUME ProbeInv, PlaceInv, TokenWithin
    PROVE  PlaceInv'
<1>1. /\ Answered({"token"}) /\ ~ResponseEnds
      /\ pc' = "next" /\ summary' = Noted /\ index' = Min({index + 1, 2})
      /\ UNCHANGED <<lexVars, rdVars, call, status, token, input, kind, sent>>
  BY DEF TokenWithin, readerVars, lexVars, rdVars
<1>2. /\ call = "idle" /\ outcome = "token" /\ status = "token"
      /\ state = "start" => token.kind = "eol"
  BY <1>1, AnswerTells DEF Answered
<1>3. state # "start"
  BY <1>1, <1>2 DEF ResponseEnds
<1>4. index' # 0 /\ index \in 0..2
  <2>1. index \in 0..2 /\ index + 1 \in Int /\ 2 \in Int
    BY DEF ProbeInv, ProbeTypes
  <2>2. Min({index + 1, 2}) = IF index + 1 <= 2 THEN index + 1 ELSE 2
    BY <2>1, MinOfTwo
  <2> QED
    BY <1>1, <2>1, <2>2
<1>5. /\ DOMAIN summary = Fields
      /\ summary'.tag = IF index = 0
                         THEN SubSeq(input, token.first + 1, token.first + token.len)
                         ELSE summary.tag
      /\ summary'.kind = IF index = 0 THEN kind ELSE summary.kind
  <2>1. DOMAIN summary = Fields
    BY DEF ProbeInv, ProbeTypes
  <2> DEFINE text == SubSeq(input, token.first + 1, token.first + token.len)
             bye == IF index = 1 THEN IsWord("B") ELSE summary.bye
             lit == summary.literal \/ token.kind = "literal_begin"
  <2>2. summary' = [summary EXCEPT !.tag = IF index = 0 THEN text ELSE summary.tag,
                                   !.kind = IF index = 0 THEN kind ELSE summary.kind,
                                   !.bye = bye, !.literal = lit]
    BY <1>1, Zenon DEF Noted
  <2> HIDE DEF text, bye, lit
  <2>3. /\ summary'.tag = IF index = 0 THEN text ELSE summary.tag
        /\ summary'.kind = IF index = 0 THEN kind ELSE summary.kind
    BY <2>1, <2>2 DEF Fields
  <2> QED
    BY <2>1, <2>3 DEF text
<1>6. PICK p \in Places :
        /\ Placed(p) /\ Len(p.ends) = sent /\ Summarized(p)
        /\ \/ Content /\ LexerStands(p) /\ ReaderStands(p)
           \/ /\ ~Content /\ TokenStands(p) /\ Told(input)!Readable(p)
              /\ Told(input)!Behind(p) \in Places
              /\ LexerStands(Told(input)!Behind(p)) /\ ReaderStands(Told(input)!Behind(p))
              /\ p.part = "start" /\ token.len # 1 => kind = "tagged"
  BY <1>1, AnsweredStands
<1>7. SUFFICES \E q \in Places : LexerStands(q)' /\ ReaderStands(q)' /\ ProbeStands(q)'
  <2>1. ~Pending' /\ call' = "idle" /\ Places' = Places
    BY <1>1, <1>2, StandsStays DEF Pending
  <2> QED
    BY <2>1 DEF PlaceInv, Stands
<1>8. ASSUME NEW q, LexerStands(q), ReaderStands(q), Len(q.ends) = sent, q.part # "start",
             index = 0 => /\ q.tag = SubSeq(input, token.first + 1, token.first + token.len)
                          /\ Len(q.tag) # 1 => kind = "tagged",
             index # 0 => q.tag = summary.tag /\ (Len(q.tag) # 1 => summary.kind = "tagged")
      PROVE  LexerStands(q)' /\ ReaderStands(q)' /\ ProbeStands(q)'
  <2>1. LexerStands(q)' /\ ReaderStands(q)'
    BY <1>1, <1>8, StandsStays
  <2>2. Summarized(q)'
    BY <1>4, <1>5, <1>8 DEF Summarized
  <2> QED
    BY <1>1, <1>8, <2>1, <2>2 DEF ProbeStands
<1>9. CASE Content /\ LexerStands(p) /\ ReaderStands(p)
  <2>1. p.part # "start"
    BY <1>3, <1>9 DEF ReaderStands, PartOf
  <2> QED
    BY <1>6, <1>8, <1>9, <2>1 DEF Summarized
<1>10. CASE /\ ~Content /\ TokenStands(p) /\ Told(input)!Readable(p)
            /\ Told(input)!Behind(p) \in Places
            /\ LexerStands(Told(input)!Behind(p)) /\ ReaderStands(Told(input)!Behind(p))
            /\ p.part = "start" /\ token.len # 1 => kind = "tagged"
  <2> DEFINE q == Told(input)!Behind(p)
  <2>1. /\ q.part = Told(input)!PartAfter(p)
        /\ q.tag = IF p.part = "start" THEN Told(input)!Text(p) ELSE p.tag
        /\ q.ends = IF Told(input)!Answers(p) THEN Append(p.ends, Told(input)!EndAfter(p))
                    ELSE p.ends
    BY DEF Told!Behind
  <2>2. Told(input)!Read(p).kind = token.kind
    BY <1>10 DEF TokenStands
  <2>3. q.part = PartOf(state) /\ q.part # "start"
    BY <1>3, <1>10 DEF ReaderStands, PartOf
  <2>4. token.kind # "eol"
    BY <2>1, <2>2, <2>3 DEF Told!PartAfter
  <2>5. q.ends = p.ends
    BY <2>1, <2>2, <2>4 DEF Told!Answers
  <2>6. p.part = "start" =>
          /\ Told(input)!Text(p) = SubSeq(input, token.first + 1, token.first + token.len)
          /\ Len(Told(input)!Text(p)) = token.len
    <3> SUFFICES ASSUME p.part = "start"
                 PROVE  token.kind # "literal_begin"
      BY <1>2, <1>6, <1>10, TokenTextIs DEF ProbeInv
    <3> QED
      BY <1>10, <2>2 DEF Told!Readable
  <2> HIDE DEF q
  <2>7. LexerStands(q) /\ ReaderStands(q) /\ q \in Places
    BY <1>10 DEF q
  <2> QED
    BY <1>6, <1>8, <1>10, <2>1, <2>3, <2>5, <2>6, <2>7 DEF Summarized
<1> QED
  BY <1>6, <1>9, <1>10

\* Where the probe is when a response has ended, and whether it was an answer.
LEMMA EndStands ==
    ASSUME ProbeInv, PlaceInv, Answered({"token"}), ResponseEnds
    PROVE  \E q \in Places :
              /\ LexerStands(q) /\ ReaderStands(q) /\ q.part = "start"
              /\ IF sent = 0 \/ (summary.kind = "tagged" /\ summary.tag = Tag(sent))
                   THEN Len(q.ends) = sent + 1 /\ q.ends[sent + 1] = pos
                   ELSE Len(q.ends) = sent
<1>1. token.kind = "eol" /\ state = "start" /\ ~Content /\ sent \in 0..2
  BY DEF ResponseEnds, Content, ProbeInv, ProbeTypes
<1>2. PICK p \in Places :
        /\ Placed(p) /\ Len(p.ends) = sent /\ Summarized(p)
        /\ TokenStands(p) /\ Told(input)!Readable(p)
        /\ Told(input)!Behind(p) \in Places
        /\ LexerStands(Told(input)!Behind(p)) /\ ReaderStands(Told(input)!Behind(p))
  BY <1>1, AnsweredStands
<1> DEFINE q == Told(input)!Behind(p)
<1>3. /\ q.part = Told(input)!PartAfter(p)
      /\ q.ends = IF Told(input)!Answers(p) THEN Append(p.ends, Told(input)!EndAfter(p))
                  ELSE p.ends
  BY DEF Told!Behind
<1>4. Told(input)!Read(p).kind = "eol"
  BY <1>1, <1>2 DEF TokenStands
<1>5. q.part = "start"
  BY <1>3, <1>4 DEF Told!PartAfter
<1>6. pos = Told(input)!EndAfter(p) /\ pos \in Nat
  <2>1. status = "token"
    BY AnswerTells DEF Answered
  <2>2. pos \in Nat
    BY ClosingsAre DEF ProbeInv, ReaderInv
  <2> QED
    BY <1>1, <1>2, <2>1, <2>2, TokenTextIs DEF ProbeInv
<1>7. index # 0 /\ summary.tag = p.tag /\ (Len(p.tag) # 1 => summary.kind = "tagged")
  <2>1. p.part # "start"
    BY <1>2, <1>4 DEF Told!Readable
  <2> QED
    BY <1>2, <2>1 DEF Summarized
<1>8. p.ends \in Seq(Nat) /\ Len(p.ends) = sent
  BY <1>2 DEF Placed
<1>9. Told(input)!Answers(p) <=>
        sent = 0 \/ (summary.kind = "tagged" /\ summary.tag = Tag(sent))
  <2>1. p.ends = <<>> <=> sent = 0
    BY <1>8, EmptySeq
  <2>2. Told(input)!Answers(p) <=>
          p.ends = <<>> \/ (Len(p.ends) <= 2 /\ p.tag = <<Tag(1), Tag(2)>>[Len(p.ends)])
    BY <1>4 DEF Told!Answers
  <2>3. sent # 0 => sent <= 2 /\ <<Tag(1), Tag(2)>>[sent] = Tag(sent)
    <3>1. <<Tag(1), Tag(2)>>[1] = Tag(1) /\ <<Tag(1), Tag(2)>>[2] = Tag(2)
      OBVIOUS
    <3>2. sent # 0 => sent = 1 \/ sent = 2
      BY <1>1
    <3> QED
      BY <3>1, <3>2
  <2>4. \A k : Len(Tag(k)) = 2
    BY DEF Tag
  <2>5. p.tag = Tag(sent) => summary.kind = "tagged"
    BY <1>7, <2>4
  <2>6. sent # 0 => (Told(input)!Answers(p) <=> p.tag = Tag(sent))
    BY <1>8, <2>1, <2>2, <2>3
  <2>7. sent = 0 => Told(input)!Answers(p)
    BY <2>1, <2>2
  <2> QED
    BY <1>7, <2>5, <2>6, <2>7
<1>10. /\ Len(Append(p.ends, pos)) = sent + 1
       /\ Append(p.ends, pos)[sent + 1] = pos
  BY <1>1, <1>6, <1>8
<1> HIDE DEF q
<1>11. LexerStands(q) /\ ReaderStands(q) /\ q \in Places
  BY <1>2 DEF q
<1> QED
  BY <1>3, <1>5, <1>6, <1>8, <1>9, <1>10, <1>11

\* What main() does between two calls of next() goes from a place to a place.
LEMMA QuietStands ==
    ASSUME ProbeInv, PlaceInv, Quiet
    PROVE  PlaceInv'
<1>1. /\ UNCHANGED <<lexVars, rdVars, call, outcome, status, pos>>
      /\ sent \in 0..2
  BY DEF Quiet, readerVars, lexVars, ProbeInv, ProbeTypes
<1>2. call' = "idle" /\ call = "idle"
  <2>1. pc # "reading" \/ call = "idle"
    BY DEF Quiet, Connected, SetupFails, ReadFailed, ServerClosed, TokenWithin, Greeting,
           Response, Command, CommandFails, Finishes, Answered
  <2> QED
    BY <1>1, <2>1 DEF PlaceInv
<1>3. ASSUME pc' \notin {"setup", "next", "reading", "send"} PROVE PlaceInv'
  BY <1>2, <1>3 DEF PlaceInv
<1>4. ASSUME NEW q \in Places, LexerStands(q), ReaderStands(q), pc' # "reading",
             ProbeStands(q)'
      PROVE  PlaceInv'
  <2>1. LexerStands(q)' /\ ReaderStands(q)' /\ Places' = Places
    BY <1>1, <1>4, StandsStays
  <2>2. Stands(q)'
    BY <1>4, <2>1 DEF Stands, Pending
  <2> QED
    BY <1>2, <1>4, <2>1, <2>2 DEF PlaceInv
<1>5. ASSUME NEW q \in Places, LexerStands(q), ReaderStands(q), q.part = "start",
             Responds, Len(q.ends) = sent'
      PROVE  PlaceInv'
  <2>1. pc' = "next" /\ index' = 0
    BY <1>5 DEF Responds
  <2>2. ProbeStands(q)'
    BY <1>5, <2>1 DEF ProbeStands, Summarized
  <2> QED
    BY <1>4, <1>5, <2>1, <2>2
<1>6. ASSUME SetupFails \/ ReadFailed \/ ServerClosed \/ CommandFails \/ Finishes
      PROVE  PlaceInv'
  <2>1. pc' \in {"close", "exited"}
    BY <1>6 DEF SetupFails, ReadFailed, ServerClosed, CommandFails, Finishes, WriteRecording,
                Exits, GoesTo, AfterEnd
  <2> QED
    BY <1>3, <2>1
<1>7. ASSUME Connected PROVE PlaceInv'
  <2>1. pc = "setup" /\ Responds /\ sent' = sent
    BY <1>7 DEF Connected
  <2>2. PICK p \in Places : Stands(p) /\ ProbeStands(p)
    BY <2>1 DEF PlaceInv, Lost
  <2>3. p = Told(input)!FirstPlace /\ sent = 0 /\ LexerStands(p) /\ ReaderStands(p)
    BY <2>1, <2>2 DEF Stands, Pending, ProbeStands
  <2>4. p.part = "start" /\ Len(p.ends) = 0
    BY <2>3 DEF Told!FirstPlace
  <2> QED
    BY <1>5, <2>1, <2>3, <2>4
<1>8. ASSUME Command PROVE PlaceInv'
  <2>1. pc = "send" /\ Responds /\ sent' = sent + 1
    BY <1>8 DEF Command
  <2>2. PICK p \in Places : Stands(p) /\ ProbeStands(p)
    BY <2>1 DEF PlaceInv, Lost
  <2>3. LexerStands(p) /\ ReaderStands(p) /\ p.part = "start" /\ Len(p.ends) = sent + 1
    BY <2>1, <2>2 DEF Stands, Pending, ProbeStands
  <2> QED
    BY <1>5, <2>1, <2>3
<1>9. ASSUME Greeting \/ Response PROVE PlaceInv'
  <2>1. Answered({"token"}) /\ ResponseEnds /\ outcome = "token"
    BY <1>9 DEF Greeting, Response, Answered
  <2>2. PICK q \in Places :
          /\ LexerStands(q) /\ ReaderStands(q) /\ q.part = "start"
          /\ IF sent = 0 \/ (summary.kind = "tagged" /\ summary.tag = Tag(sent))
               THEN Len(q.ends) = sent + 1 /\ q.ends[sent + 1] = pos
               ELSE Len(q.ends) = sent
    BY <2>1, EndStands
  <2>3. ASSUME pc' = "send", sent' = sent, Len(q.ends) = sent + 1, q.ends[sent + 1] = pos
        PROVE  PlaceInv'
    <3>1. ProbeStands(q)'
      BY <1>1, <2>1, <2>2, <2>3 DEF ProbeStands
    <3> QED
      BY <1>4, <2>2, <2>3, <3>1
  <2>4. CASE Greeting
    <3>1. sent = 0 /\ sent' = sent /\ pc' \in {"exited", "send"}
      BY <2>4 DEF Greeting, Exits, GoesTo
    <3> QED
      BY <1>3, <2>2, <2>3, <3>1
  <2>5. CASE Response
    <3>1. sent > 0 /\ sent' = sent
      BY <2>5 DEF Response
    <3>2. CASE summary.kind = "tagged" /\ summary.tag = Tag(sent)
      <4>1. pc' \in {"send", "close"}
        BY <2>5, <3>2 DEF Response
      <4> QED
        BY <1>3, <2>2, <2>3, <3>1, <3>2, <4>1
    <3>3. CASE ~(summary.kind = "tagged" /\ summary.tag = Tag(sent))
      <4>1. Responds
        BY <2>5, <3>3 DEF Response
      <4>2. Len(q.ends) = sent'
        BY <1>1, <2>2, <3>1, <3>3
      <4> QED
        BY <1>5, <2>2, <4>1, <4>2
    <3> QED
      BY <3>2, <3>3
  <2> QED
    BY <1>9, <2>4, <2>5
<1>10. TokenWithin => PlaceInv'
  BY TokenStandsBehind
<1> QED
  BY <1>6, <1>7, <1>8, <1>9, <1>10 DEF Quiet

LEMMA PlaceInit ==
    ASSUME ProbeInit
    PROVE  PlaceInv
<1> DEFINE p == Told(input)!FirstPlace
<1>1. /\ pc = "setup" /\ sent = 0 /\ call = "idle" /\ state = "start"
      /\ pos = 0 /\ spaces = 0 /\ literal = NoLiteral /\ input \in Inputs
  BY DEF ProbeInit, ReaderInit, Init
<1>2. p \in Places
  BY <1>1, FirstIsPlace
<1>3. p.at = 0 /\ p.part = "start"
  BY DEF Told!FirstPlace
<1>4. Stands(p)
  BY <1>1, <1>3 DEF Stands, Pending, LexerStands, ReaderStands, Reached, Rest, PartOf
<1>5. ProbeStands(p)
  BY <1>1 DEF ProbeStands
<1> HIDE DEF p
<1> QED
  BY <1>1, <1>2, <1>4, <1>5 DEF PlaceInv

LEMMA PlaceStutter ==
    ASSUME PlaceInv, UNCHANGED probeVars
    PROVE  PlaceInv'
<1>1. UNCHANGED <<lexVars, rdVars, call, outcome, status, pos, input, token, kind, pc, sent,
                  index, summary>>
  BY DEF probeVars, readerVars, lexVars, rdVars, mainVars
<1>2. /\ Places' = Places
      /\ \A p : /\ LexerStands(p)' = LexerStands(p)
               /\ ReaderStands(p)' = ReaderStands(p)
               /\ TokenStands(p)' = TokenStands(p)
      /\ Content' = Content
  BY <1>1, StandsStays
<1>3. Lost' = Lost /\ Pending' = Pending
  BY <1>1, <1>2 DEF Lost, Pending, Errors
<1>4. ASSUME NEW p, Stands(p), ProbeStands(p) PROVE Stands(p)' /\ ProbeStands(p)'
  <2>1. ProbeStands(p)'
    BY <1>1, <1>4 DEF ProbeStands, Summarized
  <2>2. /\ LexerStands(Told(input)!Behind(p))' = LexerStands(Told(input)!Behind(p))
        /\ ReaderStands(Told(input)!Behind(p))' = ReaderStands(Told(input)!Behind(p))
    BY <1>1 DEF LexerStands, ReaderStands, Reached, Rest, PartOf, lexVars, rdVars, NoLiteral,
                Promise!NoLiteral
  <2>3. Stands(p)'
    BY <1>1, <1>2, <1>3, <1>4, <2>2 DEF Stands
  <2> QED
    BY <2>1, <2>3
<1> QED
  BY <1>1, <1>2, <1>3, <1>4 DEF PlaceInv

\* Wherever the network splits the session, the probe stands at a place of the
\* responses as they are in the complete input, with as many answers behind it as
\* it has sent commands (response_reader.cpp:112-182, main.cpp:87-133, 343-398).
THEOREM PlaceInvariance == ProbeSpec => []PlaceInv
<1>1. ProbeInit => PlaceInv
  BY PlaceInit
<1>2. ProbeInv /\ PlaceInv /\ [Main]_probeVars => PlaceInv'
  BY MainIs, QuietStands, ReadingStands, PlaceStutter
<1> QED
  BY <1>1, <1>2, ProbeInvariance, PTL DEF ProbeSpec

-----------------------------------------------------------------------------
(* The theorems about the turns.                                           *)

\* What the server has sent of a session that goes on, when it answers.
LEMMA DueIsAnswered ==
    ASSUME session \in Sessions, sent \in 0..2, ServerAnswers, ~LastBlock
    PROVE  /\ sent + 1 \in 1..Len(Told(input)!AnswerEnds)
           /\ Told(input)!AnswerEnds[sent + 1] = Due
<1>1. Len(session) \in Nat
  BY ProbeAssumption
<1>2. sent + 1 \in 1..(Len(session) - 1)
  BY <1>1 DEF LastBlock
<1>3. /\ sent + 1 <= Len(Told(input)!AnswerEnds)
      /\ Told(input)!AnswerEnds[sent + 1] = BlockEnd(sent + 1)
  BY <1>2 DEF ServerAnswers
<1>4. Min({sent + 1, Len(session)}) = sent + 1
  <2>1. sent + 1 \in Int /\ Len(session) \in Int /\ sent + 1 <= Len(session)
    BY <1>1, <1>2
  <2> QED
    BY <2>1, MinOfTwo
<1>5. Due = BlockEnd(sent + 1)
  BY <1>4 DEF Due
<1> QED
  BY <1>2, <1>3, <1>5

\* The client and the server never wait for each other: what a server that answers
\* has sent while it waits for a command is enough for the probe to go on
\* (lexer.cpp:185, response_reader.cpp:86, main.cpp:377-391).
THEOREM NeitherWaits == ProbeSpec => []NeverBothWait
<1>1. ProbeInv /\ PlaceInv => NeverBothWait
  <2> SUFFICES ASSUME ProbeInv, PlaceInv, call = "asked", status = "need_more", fed = Due,
                      ~LastBlock, ServerAnswers
               PROVE  FALSE
    BY DEF NeverBothWait
  <2>1. Inv /\ session \in Sessions /\ sent \in 0..2 /\ input \in Inputs
    BY DEF ProbeInv, ProbeTypes, ReaderInv, Inv, TypeOK
  <2>2. /\ pos \in Nat /\ fed \in Nat /\ pos <= fed /\ spaces \in Nat
        /\ literal = NoLiteral \/ literal \in Nat
    BY <2>1, ClosingsAre, LimitsAre DEF Inv, TypeOK
  <2>3. pc = "reading" /\ ~Lost /\ ~Pending
    BY DEF PlaceInv, Lost, Pending
  <2>4. PICK p \in Places : Stands(p) /\ ProbeStands(p)
    BY <2>3 DEF PlaceInv
  <2>5. p.at = pos - spaces + Rest /\ Len(p.ends) = sent
    BY <2>3, <2>4 DEF Stands, LexerStands, Reached, ProbeStands
  <2>6. /\ sent + 1 \in 1..Len(Told(input)!AnswerEnds)
        /\ Told(input)!AnswerEnds[sent + 1] = fed
    BY <2>1, DueIsAnswered
  <2>7. EndsLine(fed) /\ p.at < fed
    <3>1. sent + 1 > Len(p.ends)
      BY <2>1, <2>5
    <3> QED
      BY <2>1, <2>4, <2>6, <3>1, PlaceProperties
  <2>8. pos = fed
    <3>1. \A o \in pos..(fed - 1) : At(o) # "lf"
      BY <2>1 DEF Inv, NoLineWithheld
    <3>2. At(fed - 1) = "lf" /\ fed >= 1
      BY <2>7 DEF EndsLine
    <3> QED
      BY <2>2, <3>1, <3>2
  <2>9. spaces > 0
    <3>1. Rest \in Nat
      BY <2>2 DEF Rest
    <3> QED
      BY <2>2, <2>5, <2>7, <2>8, <3>1
  <2>10. At(pos - 1) = "sp"
    <3>1. spaces <= pos /\ \A i \in (pos - spaces)..(pos - 1) : At(i) = "sp"
      BY <2>1 DEF Inv, Gap
    <3> QED
      BY <2>2, <2>9, <3>1
  <2> QED
    BY <2>7, <2>8, <2>10 DEF EndsLine
<1> QED
  BY <1>1, ProbeInvariance, PlaceInvariance, PTL

\* A command is sent when the answer to the one before was read, and no byte
\* behind it, whatever stands in literals and free text and under other tags; and
\* never to a server that has closed (main.cpp:377-398).
THEOREM CommandsAreInTurn == ProbeSpec => CommandsInTurn
<1>1. ASSUME ProbeInv, PlaceInv, [Main]_probeVars
      PROVE  [sent' # sent => /\ outcome # "end"
                              /\ LastBlock \/ pos = Due \/ ~ServerAnswers]_probeVars
  <2> SUFFICES ASSUME Main, sent' # sent
               PROVE  outcome # "end" /\ (LastBlock \/ pos = Due \/ ~ServerAnswers)
    BY <1>1
  <2>1. Command
    BY DEF Main, Connected, SetupFails, NextToken, InsideNext, mainVars, ReadFailed,
           ServerClosed, TokenWithin, Greeting, Response, CommandFails, Finishes,
           WriteRecording, Exits, GoesTo
  <2>2. pc = "send" /\ ~Lost
    BY <2>1 DEF Command, Lost
  <2>3. PICK p \in Places : ProbeStands(p)
    BY <1>1, <2>2 DEF PlaceInv
  <2>4. Len(p.ends) = sent + 1 /\ p.ends[sent + 1] = pos /\ outcome = "token"
    BY <2>2, <2>3 DEF ProbeStands
  <2>5. ASSUME ~LastBlock, ServerAnswers PROVE pos = Due
    <3>1. session \in Sessions /\ sent \in 0..2 /\ input \in Inputs
      BY <1>1 DEF ProbeInv, ProbeTypes, ReaderInv, Inv, TypeOK
    <3>2. /\ sent + 1 \in 1..Len(Told(input)!AnswerEnds)
          /\ Told(input)!AnswerEnds[sent + 1] = Due
      BY <2>5, <3>1, DueIsAnswered
    <3>3. sent + 1 \in 1..Len(p.ends)
      BY <2>4, <3>1
    <3>4. \A i \in 1..Len(p.ends) : Told(input)!AnswerEnds[i] = p.ends[i]
      BY <2>3, <3>1, PlaceProperties
    <3> QED
      BY <2>4, <3>2, <3>3, <3>4
  <2> QED
    BY <2>4, <2>5
<1> QED
  BY <1>1, ProbeInvariance, PlaceInvariance, PTL DEF ProbeSpec, CommandsInTurn
=============================================================================
