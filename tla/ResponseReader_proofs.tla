----------------------- MODULE ResponseReader_proofs -----------------------
(***************************************************************************)
(* Theorems about ResponseReader, for every input, every stream, every     *)
(* caller and all limits.                                                  *)
(***************************************************************************)
EXTENDS ResponseReader, Lexer_proofs

-----------------------------------------------------------------------------
(* What a step of the lexer tells its reader.                              *)

\* A step that gives no token leaves what the reader relies on.
Nothing ==
    /\ status' \in {"need_more", "error"}
    /\ UNCHANGED <<pos, lineStart, depth, literal, token>>

\* What each of the functions that next() dispatches to may give.
GivesEol ==
    /\ token'.kind = "eol"
    /\ pos' = pos + 2 /\ At(pos + 1) = "lf"
    /\ lineStart' /\ UNCHANGED literal

GivesOpen ==
    /\ token'.kind = OpenKind /\ OpenKind # "none"
    /\ pos' = pos + 1
    /\ depth' = depth + 1
    /\ ~lineStart' /\ UNCHANGED literal

GivesClose ==
    /\ token'.kind = CloseKind /\ CloseKind # "none"
    /\ pos' = pos + 1
    /\ depth' = DepthOutside
    /\ ~lineStart' /\ UNCHANGED literal

GivesWord ==
    /\ token'.kind \in {"atom", "nil", "number", "quoted", "text"}
    /\ UNCHANGED depth
    /\ ~lineStart' /\ UNCHANGED literal

GivesHeader ==
    /\ token'.kind = "literal_begin" /\ General
    /\ UNCHANGED depth
    /\ ~lineStart'

LexGives ==
    /\ status' = "token"
    /\ GivesEol \/ GivesOpen \/ GivesClose \/ GivesWord \/ GivesHeader

LEMMA HeaderTells ==
    ASSUME LexLiteralHeader
    PROVE  /\ Lexing /\ General
           /\ \/ \E reason, o : Fails(reason, o)
              \/ Suspend(1, FALSE)
              \/ \E len, n : Completes("literal_begin", len, n)
<1>1. Lexing /\ General
  BY DEF LexLiteralHeader, IsHeader
<1>2. ASSUME NEW refused, NEW cut, NEW none, NEW wrong, NEW big, NEW a, NEW b, NEW c, NEW d,
             NEW len, NEW n, NEW more,
             IF refused THEN Fails("number_too_large", a)
             ELSE IF cut /\ finished THEN Fails("unexpected_end", b)
             ELSE IF cut THEN Suspend(1, FALSE)
             ELSE IF none THEN Fails("bad_literal", c)
             ELSE IF wrong THEN Fails("bad_literal", d)
             ELSE IF big THEN Fails("literal_too_large", pos)
             ELSE Completes("literal_begin", len, n) /\ more
      PROVE  \/ \E reason, o : Fails(reason, o)
             \/ Suspend(1, FALSE)
             \/ \E l, m : Completes("literal_begin", l, m)
  BY <1>2
<1> QED
  BY <1>1, <1>2 DEF LexLiteralHeader

LEMMA DispatchTells ==
    ASSUME Dispatch
    PROVE  /\ status = "lexing" /\ UNCHANGED input
           /\ Nothing \/ LexGives
<1> USE DEF Lexing, Nothing, LexGives, Fails, Fail, Forget, Emit, Completes, Suspend, inputVars
<1>1. ASSUME LexEol
      PROVE  status = "lexing" /\ UNCHANGED input /\ (Nothing \/ LexGives)
  BY <1>1 DEF LexEol, GivesEol
<1>2. ASSUME LexOpen
      PROVE  status = "lexing" /\ UNCHANGED input /\ (Nothing \/ LexGives)
  BY <1>2 DEF LexOpen, GivesOpen
<1>3. ASSUME LexClose
      PROVE  status = "lexing" /\ UNCHANGED input /\ (Nothing \/ LexGives)
  BY <1>3 DEF LexClose, GivesClose
<1>4. ASSUME LexTilde \/ LexControl
      PROVE  status = "lexing" /\ UNCHANGED input /\ (Nothing \/ LexGives)
  BY <1>4 DEF LexTilde, LexControl
<1>5. ASSUME LexAtom
      PROVE  status = "lexing" /\ UNCHANGED input /\ (Nothing \/ LexGives)
  BY <1>5 DEF LexAtom, GivesWord
<1>6. ASSUME LexQuoted
      PROVE  status = "lexing" /\ UNCHANGED input /\ (Nothing \/ LexGives)
  BY <1>6 DEF LexQuoted, GivesWord
<1>7. ASSUME LexLiteralHeader
      PROVE  status = "lexing" /\ UNCHANGED input /\ (Nothing \/ LexGives)
  <2>1. Lexing /\ General
    BY <1>7, HeaderTells
  <2>2. ASSUME NEW reason, NEW o, Fails(reason, o) PROVE Nothing /\ UNCHANGED input
    BY <2>2
  <2>3. ASSUME Suspend(1, FALSE) PROVE Nothing /\ UNCHANGED input
    BY <2>3
  <2>4. ASSUME NEW len, NEW n, Completes("literal_begin", len, n)
        PROVE  GivesHeader /\ status' = "token" /\ UNCHANGED input
    BY <2>1, <2>4 DEF GivesHeader
  <2>5. \/ \E reason, o : Fails(reason, o)
        \/ Suspend(1, FALSE)
        \/ \E len, n : Completes("literal_begin", len, n)
    BY <1>7, HeaderTells
  <2> HIDE DEF Fails, Suspend, Completes, Nothing
  <2> QED
    BY <2>1, <2>2, <2>3, <2>4, <2>5
<1>8. ASSUME LexText
      PROVE  status = "lexing" /\ UNCHANGED input /\ (Nothing \/ LexGives)
  BY <1>8 DEF LexText, GivesWord
<1> QED
  BY <1>1, <1>2, <1>3, <1>4, <1>5, <1>6, <1>7, <1>8 DEF Dispatch

LEMMA AskTells ==
    ASSUME Inv, NEW m \in Modes, NextFailed \/ NextLiteral \/ Enter(m)
    PROVE  /\ UNCHANGED <<input, depth>>
           /\ pos' \in Nat /\ pos <= pos'
           /\ lineStart' => lineStart /\ pos' = pos
           /\ status' = "lexing" => mode' = m
           /\ literal' # NoLiteral => literal # NoLiteral
           /\ status' = "token" => /\ ~lineStart'
                                   /\ token'.kind \in {"literal_data", "literal_end"}
                                   /\ literal' # NoLiteral => token'.kind = "literal_data"
           /\ status = "end" => status' = "end"
<1>1. /\ pos \in Nat /\ fed \in Nat
      /\ status = "end" => /\ error = NoError /\ literal = NoLiteral
                           /\ finished /\ lineStart /\ spaces = 0 /\ pos = fed
      /\ literal # NoLiteral => ~lineStart
  BY InputIsSeq DEF Inv, TypeOK, Over, InLiteral
<1>2. CASE NextFailed
  <2>1. /\ error # NoError /\ status' = "error"
        /\ UNCHANGED <<input, depth, pos, lineStart, literal>>
    BY <1>2 DEF NextFailed, inputVars
  <2> QED
    BY <1>1, <2>1
<1>3. CASE NextLiteral
  <2> DEFINE chunk == Min({literal, fed - pos})
  <2>1. literal # NoLiteral /\ error = NoError /\ UNCHANGED <<input, depth>>
        /\ status # "end" /\ ~lineStart
    BY <1>1, <1>3 DEF NextLiteral, inputVars
  <2>2. CASE literal = 0
    <3>1. /\ token'.kind = "literal_end" /\ literal' = NoLiteral
          /\ pos' = pos + 0 /\ lineStart' = lineStart /\ status' = "token"
      BY <1>3, <2>2 DEF NextLiteral, Emit
    <3> QED
      BY <1>1, <2>1, <3>1
  <2>3. CASE literal # 0 /\ pos < fed
    <3>1. /\ token'.kind = "literal_data"
          /\ pos' = pos + chunk /\ lineStart' = FALSE /\ status' = "token"
      BY <1>3, <2>3 DEF NextLiteral, Emit
    <3>2. chunk \in Nat
      <4>1. literal \in Nat /\ chunk \in 1..literal
        BY <2>1, <2>3, ChunkIs, LimitsAre DEF Inv, TypeOK
      <4> HIDE DEF chunk
      <4> QED
        BY <4>1
    <3> HIDE DEF chunk
    <3> QED
      BY <1>1, <2>1, <3>1, <3>2
  <2>4. CASE literal # 0 /\ ~(pos < fed)
    <3>1. /\ UNCHANGED <<pos, lineStart, literal>>
          /\ status' \in {"error", "need_more"}
      BY <1>3, <2>4 DEF NextLiteral, Fail
    <3> QED
      BY <1>1, <2>1, <3>1
  <2> QED
    BY <2>2, <2>3, <2>4
<1>4. CASE Enter(m)
  <2>1. PICK k \in Nat : pos + k <= fed /\ Skips(m, k)
    BY <1>4, EnterSkips
  <2>2. /\ pos' = pos + k /\ lineStart' = (lineStart /\ k = 0)
        /\ UNCHANGED <<input, depth, literal>>
    BY <2>1 DEF Skips
  <2>3. status' \in {"error", "end", "need_more", "lexing"} /\ (status' = "lexing" => mode' = m)
    BY <2>1 DEF Skips, Starved, Fail
  <2>4. status = "end" => status' = "end"
    <3> SUFFICES ASSUME status = "end" PROVE status' = "end"
      OBVIOUS
    <3>1. k = 0 /\ ~(pos + k < fed)
      BY <1>1, <2>1
    <3>2. Starved(lineStart /\ k = 0, spaces + k, pos + k)
      BY <2>1, <3>1 DEF Skips
    <3>3. finished /\ lineStart /\ k = 0 /\ spaces + k = 0
      BY <1>1, <3>1
    <3> QED
      BY <3>2, <3>3 DEF Starved
  <2>5. pos' \in Nat /\ pos <= pos' /\ (k = 0 => pos' = pos)
    BY <1>1, <2>2
  <2>6. lineStart' => lineStart /\ k = 0
    BY <2>2
  <2> QED
    BY <2>2, <2>3, <2>4, <2>5, <2>6
<1> QED
  BY <1>2, <1>3, <1>4

-----------------------------------------------------------------------------
(* The inductive invariant.                                                *)

\* A line starts behind a line end.
LineEnds == lineStart => pos = 0 \/ At(pos - 1) = "lf"

\* What the last token says of the lexer.
Given ==
    status = "token" =>
        /\ lineStart <=> token.kind = "eol"
        /\ literal # NoLiteral => token.kind \in {"literal_begin", "literal_data"}

\* The states whose tokens are read in normal mode.
ParsedStates == {"start", "second", "data", "code_args"}

\* A token is being read in the mode of the state, and on call only.
Asked == status = "lexing" => call = "asked" /\ mode = ModeFor(state)

\* A response has begun when something of its line was consumed, and not only
\* the line end that closes it.
Framed ==
    /\ state # "start" /\ lineStart => Got /\ token.kind = "eol"
    /\ state = "start" /\ call = "idle" /\ outcome \notin Errors =>
          lineStart /\ literal = NoLiteral

Opaque == literal # NoLiteral => state \in ParsedStates

\* n brackets are open in the lexer, unless a parenthesis closed some.
Closed == \E i \in 0..(pos - 1) : At(i) = ")"
Deep(n) == n <= depth \/ Closed

\* The brackets that are open before the reader has taken note of a token.
Brackets ==
    /\ state = "resp_text" /\ Got /\ token.kind = "lbracket" => depth > 0
    /\ state = "code_name" => depth > 0 \/ (Got /\ token.kind \in {"rbracket", "eol"})
    /\ state = "code_args" =>
          /\ codeDepth > 0
          /\ Got /\ token.kind = "lbracket" => Deep(codeDepth + 1)
          /\ Got /\ token.kind = "rbracket" => Deep(codeDepth - 1)
          /\ Deep(codeDepth) \/ (Got /\ token.kind \in {"lbracket", "rbracket", "eol"})

Ended == outcome = "end" => status = "end" /\ state = "start"

ReaderTypes ==
    /\ state \in States
    /\ kind \in {"none", "tagged", "untagged", "continuation"}
    /\ codeDepth \in Nat
    /\ call \in {"idle", "again", "asked"}
    /\ outcome \in {"none", "token", "end"} \cup Errors

ReaderInv ==
    /\ Inv /\ ReaderTypes
    /\ LineEnds /\ Given
    /\ Asked /\ Framed /\ Opaque /\ Brackets /\ Ended

LEMMA ModesAre ==
    ASSUME state \in States
    PROVE  /\ ModeFor(state) \in Modes
           /\ ModeFor(state) = "normal" <=> state \in ParsedStates
           /\ ModeFor(state) # "astring"
           /\ state = "code_name" => ModeFor(state) = "code_name"
<1> QED
  BY DEF ModeFor, RestMode, States, ParsedStates, Modes, Promise!Modes

\* What was consumed stays consumed.
LEMMA ClosedStays ==
    ASSUME pos \in Nat, pos' \in Nat, pos <= pos', UNCHANGED input, Closed
    PROVE  Closed'
<1>1. PICK i \in 0..(pos - 1) : At(i) = ")"
  BY DEF Closed
<1>2. i \in 0..(pos' - 1)
  <2>1. \A p \in Nat, q \in Nat : p <= q => 0..(p - 1) \subseteq 0..(q - 1)
    OBVIOUS
  <2>2. 0..(pos - 1) \subseteq 0..(pos' - 1)
    BY <2>1
  <2> QED
    BY <1>1, <2>2
<1>3. At(i)' = ")"
  BY <1>1 DEF At
<1> QED
  BY <1>2, <1>3 DEF Closed

LEMMA ClosingsAre ==
    ASSUME Inv
    PROVE  /\ pos \in Nat /\ fed \in Nat /\ depth \in Nat
           /\ Len(input) \in Nat /\ fed <= Len(input)
           /\ literal = NoLiteral \/ literal \in Nat
           /\ lineStart \in BOOLEAN
<1> QED
  BY InputIsSeq, LimitsAre DEF Inv, TypeOK

-----------------------------------------------------------------------------
(* Every step keeps it.                                                    *)

LEMMA ReaderInitKeeps ==
    ASSUME ReaderInit
    PROVE  ReaderInv
<1>1. Inv
  BY InitKeeps DEF ReaderInit
<1>2. /\ pos = 0 /\ status = "idle" /\ literal = NoLiteral /\ lineStart
      /\ state = "start" /\ kind = "none" /\ codeDepth = 0 /\ call = "idle" /\ outcome = "none"
  BY DEF ReaderInit, Init
<1>3. ReaderTypes
  BY <1>2 DEF ReaderTypes, States
<1> QED
  BY <1>1, <1>2, <1>3
  DEF ReaderInv, LineEnds, Given, Asked, Framed, Opaque, Brackets, Ended, Errors

LEMMA AskKeeps ==
    ASSUME ReaderInv, Ask
    PROVE  ReaderInv'
<1> DEFINE m == ModeFor(state)
<1>1. /\ call' = "asked" /\ UNCHANGED <<state, kind, codeDepth, outcome>>
      /\ call # "asked"
      /\ NextFailed \/ NextLiteral \/ Enter(m)
  BY DEF Ask, rdVars
<1>2. Inv /\ state \in States /\ m \in Modes
  BY ModesAre DEF ReaderInv, ReaderTypes
<1> HIDE DEF m
<1>3. /\ UNCHANGED <<input, depth>>
      /\ pos' \in Nat /\ pos <= pos'
      /\ lineStart' => lineStart /\ pos' = pos
      /\ status' = "lexing" => mode' = m
      /\ literal' # NoLiteral => literal # NoLiteral
      /\ status' = "token" => /\ ~lineStart'
                              /\ token'.kind \in {"literal_data", "literal_end"}
                              /\ literal' # NoLiteral => token'.kind = "literal_data"
      /\ status = "end" => status' = "end"
  BY <1>1, <1>2, AskTells
<1>4. Inv'
  BY <1>1, <1>2, FailedKeeps, LiteralKeeps, EnterKeeps
<1>5. ~Got /\ (Got' => status' = "token")
  BY <1>1 DEF Got
<1>6. ReaderTypes'
  BY <1>1 DEF ReaderInv, ReaderTypes
<1>7. LineEnds'
  <2>1. At(pos - 1)' = At(pos' - 1)
    BY <1>3 DEF At
  <2> QED
    BY <1>3, <2>1 DEF ReaderInv, LineEnds
<1>8. Given'
  BY <1>3 DEF Given, NoLiteral, Promise!NoLiteral
<1>9. Asked'
  <2>1. ModeFor(state)' = m
    BY <1>1 DEF m, ModeFor, RestMode
  <2> QED
    BY <1>1, <1>3, <2>1 DEF Asked
<1>10. Framed'
  BY <1>1, <1>3, <1>5 DEF ReaderInv, Framed
<1>11. Opaque'
  BY <1>1, <1>3 DEF ReaderInv, Opaque, ParsedStates, NoLiteral, Promise!NoLiteral
<1>12. Brackets'
  <2>1. pos \in Nat
    BY <1>2, ClosingsAre
  <2>2. Deep(codeDepth) => Deep(codeDepth)'
    BY <1>1, <1>3, <2>1, ClosedStays DEF Deep
  <2>3. Got' => token'.kind \notin {"lbracket", "rbracket", "eol"}
    BY <1>3, <1>5
  <2>4. /\ state = "code_name" => depth > 0
        /\ state = "code_args" => codeDepth > 0 /\ Deep(codeDepth)
    BY <1>5 DEF ReaderInv, Brackets
  <2> QED
    BY <1>1, <1>3, <2>2, <2>3, <2>4 DEF Brackets
<1>13. Ended'
  BY <1>1, <1>3 DEF ReaderInv, Ended
<1> QED
  BY <1>4, <1>6, <1>7, <1>8, <1>9, <1>10, <1>11, <1>12, <1>13 DEF ReaderInv

LEMMA ReadsKeep ==
    ASSUME ReaderInv, NEW n \in 0..ReadChunk, NEW eof \in BOOLEAN, StreamReads(n, eof)
    PROVE  ReaderInv'
<1>1. /\ call = "asked" /\ status = "need_more" /\ call' = "again"
      /\ UNCHANGED <<state, kind, codeDepth, outcome>>
      /\ Accept(n, eof)
  BY DEF StreamReads, rdVars
<1>2. /\ UNCHANGED <<input, pos, lineStart, depth, literal, token, mode>>
      /\ status' = "idle"
  BY <1>1 DEF Accept
<1>3. Inv'
  <2>1. n \in Nat
    BY ReaderAssumption
  <2> QED
    BY <1>1, <2>1, AcceptKeeps DEF ReaderInv
<1>4. ~Got /\ ~Got'
  BY <1>1 DEF Got
<1>5. ReaderTypes'
  BY <1>1 DEF ReaderInv, ReaderTypes
<1>6. LineEnds' /\ Given' /\ Asked'
  BY <1>2 DEF ReaderInv, LineEnds, Given, Asked, At
<1>7. Framed'
  BY <1>1, <1>2, <1>4 DEF ReaderInv, Framed
<1>8. Opaque' /\ Ended'
  BY <1>1, <1>2 DEF ReaderInv, Opaque, Ended, ParsedStates, NoLiteral, Promise!NoLiteral
<1>9. Brackets'
  <2>1. pos \in Nat /\ pos' \in Nat /\ pos <= pos'
    BY <1>2, ClosingsAre DEF ReaderInv
  <2>2. Deep(codeDepth) => Deep(codeDepth)'
    BY <1>1, <1>2, <2>1, ClosedStays DEF Deep
  <2> QED
    BY <1>1, <1>2, <1>4, <2>2 DEF ReaderInv, Brackets
<1> QED
  BY <1>3, <1>5, <1>6, <1>7, <1>8, <1>9 DEF ReaderInv

LEMMA LexKeeps ==
    ASSUME ReaderInv, Lex
    PROVE  ReaderInv'
<1>1. /\ call = "asked" /\ Dispatch
      /\ UNCHANGED <<state, kind, codeDepth, call, outcome>>
  BY DEF Lex, rdVars
<1>2. /\ status = "lexing" /\ UNCHANGED input
      /\ Nothing \/ LexGives
  BY <1>1, DispatchTells
<1>3. Inv /\ Inv'
  BY <1>1, DispatchOutcome, OutcomeKeeps DEF ReaderInv
<1>4. /\ pos \in Nat /\ depth \in Nat /\ pos' \in Nat /\ depth' \in Nat
  <2>1. pos \in Nat /\ depth \in Nat
    BY <1>3, ClosingsAre
  <2>2. input' \in Inputs /\ fed' \in 0..Len(input') /\ base' \in 0..fed' /\ pos' \in base'..fed'
        /\ depth' \in 0..MaxDepth
    BY <1>3 DEF Inv, TypeOK
  <2>3. Len(input') \in Nat
    BY <1>2, <1>3, ClosingsAre
  <2> QED
    BY <2>1, <2>2, <2>3, LimitsAre
<1>5. literal = NoLiteral /\ mode = ModeFor(state) /\ state \in States
      /\ codeDepth \in Nat
  BY <1>2, <1>3 DEF Inv, Entered, ReaderInv, Asked, ReaderTypes
<1>6. ~Got /\ (Got' <=> status' = "token")
  BY <1>1, <1>2 DEF Got
<1>7. ReaderTypes' /\ Ended'
  BY <1>1, <1>2 DEF ReaderInv, ReaderTypes, Ended
<1>8. ~(state # "start" /\ lineStart)
  BY <1>6 DEF ReaderInv, Framed
<1>9. /\ state = "code_name" => depth > 0
      /\ state = "code_args" => codeDepth > 0 /\ Deep(codeDepth)
  BY <1>6 DEF ReaderInv, Brackets
<1>10. CASE Nothing
  <2>1. /\ UNCHANGED <<pos, lineStart, depth, literal, token>>
        /\ status' \notin {"token", "lexing"}
    BY <1>10 DEF Nothing
  <2>2. LineEnds'
    BY <1>2, <2>1 DEF ReaderInv, LineEnds, At
  <2>3. Given' /\ Asked' /\ Opaque'
    BY <1>5, <2>1 DEF Given, Asked, Opaque, NoLiteral, Promise!NoLiteral
  <2>4. Framed'
    BY <1>1, <1>8, <2>1 DEF Framed
  <2>5. Brackets'
    <3>1. Deep(codeDepth) => Deep(codeDepth)'
      BY <1>1, <1>2, <1>4, <2>1, ClosedStays DEF Deep
    <3> QED
      BY <1>1, <1>6, <1>9, <2>1, <3>1 DEF Brackets
  <2> QED
    BY <1>3, <1>7, <2>2, <2>3, <2>4, <2>5 DEF ReaderInv
<1>11. ASSUME status' = "token", literal' = NoLiteral \/ token'.kind = "literal_begin",
              lineStart' <=> token'.kind = "eol",
              LineEnds', Opaque', Brackets'
       PROVE  ReaderInv'
  <2>1. Given' /\ Asked'
    BY <1>11 DEF Given, Asked, NoLiteral, Promise!NoLiteral
  <2>2. Framed'
    BY <1>1, <1>6, <1>11 DEF Framed
  <2> QED
    BY <1>3, <1>7, <1>11, <2>1, <2>2 DEF ReaderInv
<1>12. literal' = literal => Opaque'
  BY <1>5 DEF Opaque, NoLiteral, Promise!NoLiteral
<1>13. ~lineStart' => LineEnds'
  BY DEF LineEnds
<1>14. pos' = pos + 1 \/ pos' = pos + 2 => (Closed => Closed')
  BY <1>2, <1>4, ClosedStays
<1>15. CASE status' = "token" /\ GivesEol
  <2>1. /\ token'.kind = "eol" /\ pos' = pos + 2 /\ At(pos + 1) = "lf"
        /\ lineStart' /\ literal' = literal
    BY <1>15 DEF GivesEol
  <2>2. LineEnds'
    <3>1. pos' - 1 = pos + 1
      BY <1>4, <2>1
    <3>2. At(pos - 1)' = At(pos + 1)
      BY <1>2, <3>1 DEF At
    <3> QED
      BY <2>1, <3>2 DEF LineEnds
  <2>3. Brackets'
    BY <1>1, <1>6, <1>9, <1>15, <2>1 DEF Brackets
  <2> QED
    BY <1>5, <1>11, <1>12, <1>15, <2>1, <2>2, <2>3
<1>16. CASE status' = "token" /\ GivesOpen
  <2>1. /\ token'.kind \in {"lparen", "lbracket"} /\ pos' = pos + 1 /\ depth' = depth + 1
        /\ ~lineStart' /\ literal' = literal
    BY <1>16 DEF GivesOpen, OpenKind
  <2>2. depth' > 0
    BY <1>4, <2>1
  <2>3. Deep(codeDepth) => Deep(codeDepth + 1)' /\ Deep(codeDepth)'
    <3>1. codeDepth <= depth => codeDepth + 1 <= depth' /\ codeDepth <= depth'
      BY <1>4, <1>5, <2>1
    <3> QED
      BY <1>1, <1>14, <2>1, <3>1 DEF Deep
  <2>4. Brackets'
    BY <1>1, <1>9, <2>1, <2>2, <2>3 DEF Brackets
  <2> QED
    BY <1>5, <1>11, <1>12, <1>13, <1>16, <2>1, <2>4
<1>17. CASE status' = "token" /\ GivesClose
  <2>1. /\ token'.kind = CloseKind /\ pos' = pos + 1 /\ depth' = DepthOutside
        /\ ~lineStart' /\ literal' = literal
        /\ token'.kind \in {"rparen", "rbracket"}
    BY <1>17 DEF GivesClose, CloseKind
  <2>2. token'.kind = "rparen" => At(pos) = ")" /\ General
    BY <2>1 DEF CloseKind
  <2>3. token'.kind = "rparen" => Closed'
    <3>1. pos \in 0..(pos' - 1)
      BY <1>4, <2>1
    <3>2. At(pos) = ")" => \E i \in 0..(pos' - 1) : input'[i + 1] = ")"
      BY <1>2, <3>1 DEF At
    <3> QED
      BY <2>2, <3>2 DEF Closed, At
  <2>4. depth' = IF depth - 1 >= 0 THEN depth - 1 ELSE 0
    BY <1>4, <2>1, MaxOfTwo DEF DepthOutside
  <2>5. Deep(codeDepth) /\ codeDepth > 0 => Deep(codeDepth - 1)'
    <3>1. codeDepth <= depth /\ codeDepth > 0 => codeDepth - 1 <= depth'
      BY <1>4, <1>5, <2>4
    <3> QED
      BY <1>1, <1>14, <2>1, <3>1 DEF Deep
  <2>6. state = "code_name" => token'.kind = "rbracket"
    BY <1>5, <2>1, <2>2, ModesAre DEF General
  <2>7. Brackets'
    <3>1. token'.kind = "rparen" => Deep(codeDepth)'
      BY <2>3 DEF Deep
    <3> QED
      BY <1>1, <1>6, <1>9, <1>17, <2>1, <2>5, <2>6, <3>1 DEF Brackets
  <2> QED
    BY <1>5, <1>11, <1>12, <1>13, <1>17, <2>1, <2>7
<1>18. CASE status' = "token" /\ (GivesWord \/ GivesHeader)
  <2>1. /\ token'.kind \in {"atom", "nil", "number", "quoted", "text", "literal_begin"}
        /\ depth' = depth /\ ~lineStart'
    BY <1>18 DEF GivesWord, GivesHeader
  <2>2. Opaque' /\ (literal' = NoLiteral \/ token'.kind = "literal_begin")
    <3>1. CASE GivesWord
      BY <1>5, <1>12, <3>1 DEF GivesWord
    <3>2. CASE GivesHeader
      <4>1. state' \in ParsedStates /\ token'.kind = "literal_begin"
        BY <1>1, <1>5, <3>2, ModesAre DEF GivesHeader, General
      <4> QED
        BY <4>1 DEF Opaque, ParsedStates
    <3> QED
      BY <1>18, <3>1, <3>2
  <2>3. pos <= pos'
    <3>1. Outcome
      BY <1>1, <1>3, DispatchOutcome
    <3>2. Gives(Reading)
      BY <1>18, <3>1 DEF Outcome, Refuses, Waits, Fail
    <3>3. pos' = pos + Reading.len /\ Reading.len \in Nat
      BY <3>2 DEF Gives, Emit
    <3> HIDE DEF Reading
    <3> QED
      BY <1>4, <3>3
  <2>4. Deep(codeDepth) => Deep(codeDepth)'
    BY <1>1, <1>2, <1>4, <2>1, <2>3, ClosedStays DEF Deep
  <2>5. Brackets'
    BY <1>1, <1>9, <2>1, <2>4 DEF Brackets
  <2> QED
    BY <1>11, <1>13, <1>18, <2>1, <2>2, <2>5
<1> QED
  BY <1>2, <1>10, <1>15, <1>16, <1>17, <1>18 DEF LexGives

\* The call returns. The lexer is where it was.
LEMMA ReturnKeeps ==
    ASSUME ReaderInv, call = "asked", status # "lexing", NEW r, Returns(r),
           ReaderTypes', Framed', Opaque', Brackets', Ended'
    PROVE  ReaderInv'
<1>1. /\ UNCHANGED lexVars /\ call' = "idle"
      /\ UNCHANGED <<input, pos, lineStart, literal, token, status>>
  BY DEF Returns, lexVars
<1>2. Inv'
  BY <1>1, StutterKeeps DEF ReaderInv
<1>3. LineEnds' /\ Given' /\ Asked'
  BY <1>1 DEF ReaderInv, LineEnds, Given, Asked, At, NoLiteral, Promise!NoLiteral
<1> QED
  BY <1>2, <1>3 DEF ReaderInv

LEMMA DeepStays ==
    ASSUME ReaderInv, NEW n, UNCHANGED lexVars, Deep(n)
    PROVE  n <= depth' \/ Closed'
<1>1. UNCHANGED <<input, pos, depth>>
  BY DEF lexVars
<1>2. pos \in Nat /\ pos' \in Nat /\ pos <= pos'
  BY <1>1, ClosingsAre DEF ReaderInv
<1> QED
  BY <1>1, <1>2, ClosedStays DEF Deep

\* An error leaves the reader's state alone.
LEMMA ErrorKeeps ==
    ASSUME ReaderInv, call = "asked", status # "lexing", NEW r \in Errors, Returns(r),
           UNCHANGED rdVars, state = "start" \/ status # "token"
    PROVE  ReaderInv'
<1>1. /\ UNCHANGED <<state, kind, codeDepth, lineStart, literal, depth>>
      /\ UNCHANGED lexVars
      /\ call' = "idle" /\ outcome' = r
  BY DEF Returns, rdVars, lexVars
<1>2. ReaderTypes'
  BY <1>1 DEF ReaderInv, ReaderTypes
<1>3. ~Got' /\ (state # "start" => ~Got)
  BY <1>1 DEF Got
<1>4. Framed'
  BY <1>1, <1>3 DEF ReaderInv, Framed, Errors
<1>5. Opaque' /\ Ended'
  BY <1>1 DEF ReaderInv, Opaque, Ended, ParsedStates, Errors, NoLiteral, Promise!NoLiteral
<1>6. Brackets'
  <2>1. Deep(codeDepth) => Deep(codeDepth)'
    BY <1>1, DeepStays DEF Deep
  <2> QED
    BY <1>1, <1>3, <2>1 DEF ReaderInv, Brackets
<1> QED
  BY <1>2, <1>4, <1>5, <1>6, ReturnKeeps

LEMMA EndKeeps ==
    ASSUME ReaderInv, InputEnds
    PROVE  ReaderInv'
<1>1. /\ call = "asked" /\ status = "end" /\ Returns("end")
      /\ UNCHANGED <<state, kind, codeDepth, lineStart, literal, depth, status>>
      /\ UNCHANGED lexVars
      /\ call' = "idle" /\ outcome' = "end"
  BY DEF InputEnds, Returns, rdVars, lexVars
<1>2. lineStart /\ literal = NoLiteral
  BY <1>1 DEF ReaderInv, Inv, Over
<1>3. state = "start"
  BY <1>1, <1>2 DEF ReaderInv, Framed, Got
<1>4. ReaderTypes'
  BY <1>1 DEF ReaderInv, ReaderTypes
<1>5. Framed' /\ Opaque' /\ Ended' /\ Brackets'
  BY <1>1, <1>2, <1>3
  DEF Framed, Opaque, Ended, Brackets, ParsedStates, NoLiteral, Promise!NoLiteral
<1> QED
  BY <1>1, <1>4, <1>5, ReturnKeeps

LEMMA TokenReturns ==
    ASSUME ReaderInv, Got, Returns("token")
    PROVE  /\ call = "asked" /\ status # "lexing"
           /\ UNCHANGED lexVars
           /\ UNCHANGED <<lineStart, literal, token, status, depth>>
           /\ call' = "idle" /\ outcome' = "token" /\ ~Got' /\ Ended'
           /\ lineStart <=> token.kind = "eol"
           /\ literal # NoLiteral => token.kind \in {"literal_begin", "literal_data"}
<1> QED
  BY DEF ReaderInv, Given, Got, Returns, Ended, lexVars

LEMMA PassKeeps ==
    ASSUME ReaderInv, PassLiteral
    PROVE  ReaderInv'
<1>1. /\ Got /\ Returns("token") /\ state # "start"
      /\ token.kind \in {"literal_begin", "literal_data", "literal_end"}
      /\ UNCHANGED <<state, kind, codeDepth>>
  BY DEF PassLiteral, IsLiteral, rdVars
<1>2. /\ call = "asked" /\ status # "lexing"
      /\ UNCHANGED lexVars
      /\ UNCHANGED <<lineStart, literal, token, status, depth>>
      /\ call' = "idle" /\ outcome' = "token" /\ ~Got' /\ Ended'
      /\ ~lineStart
  BY <1>1, TokenReturns
<1>3. ReaderTypes'
  BY <1>1, <1>2 DEF ReaderInv, ReaderTypes
<1>4. Framed'
  BY <1>1, <1>2 DEF Framed
<1>5. Opaque'
  BY <1>1, <1>2 DEF ReaderInv, Opaque, ParsedStates, NoLiteral, Promise!NoLiteral
<1>6. Brackets'
  <2>1. Deep(codeDepth) => Deep(codeDepth)'
    BY <1>1, <1>2, DeepStays DEF Deep
  <2> QED
    BY <1>1, <1>2, <2>1 DEF ReaderInv, Brackets
<1> QED
  BY <1>1, <1>2, <1>3, <1>4, <1>5, <1>6, ReturnKeeps

LEMMA EndLineKeeps ==
    ASSUME ReaderInv, EndLine
    PROVE  ReaderInv'
<1>1. /\ Got /\ Returns("token") /\ token.kind = "eol"
      /\ state' = "start" /\ UNCHANGED <<kind, codeDepth>>
  BY DEF EndLine
<1>2. /\ call = "asked" /\ status # "lexing"
      /\ UNCHANGED <<lineStart, literal, token, status, depth>>
      /\ call' = "idle" /\ outcome' = "token" /\ ~Got' /\ Ended'
      /\ lineStart /\ literal = NoLiteral
  BY <1>1, TokenReturns
<1>3. ReaderTypes'
  BY <1>1, <1>2 DEF ReaderInv, ReaderTypes, States
<1>4. Framed' /\ Opaque' /\ Brackets'
  BY <1>1, <1>2 DEF Framed, Opaque, Brackets, ParsedStates, NoLiteral, Promise!NoLiteral
<1> QED
  BY <1>1, <1>2, <1>3, <1>4, ReturnKeeps

LEMMA StartKeeps ==
    ASSUME ReaderInv, Start
    PROVE  ReaderInv'
<1>1. /\ Got /\ Returns("token") /\ token.kind \in {"atom", "number"}
      /\ state' \in {"text_rest", "second"} /\ codeDepth' = codeDepth
      /\ kind' \in {"untagged", "continuation", "tagged"}
  BY DEF Start
<1>2. /\ call = "asked" /\ status # "lexing"
      /\ UNCHANGED <<lineStart, literal, token, status, depth>>
      /\ call' = "idle" /\ outcome' = "token" /\ ~Got' /\ Ended'
      /\ ~lineStart /\ literal = NoLiteral
  BY <1>1, TokenReturns
<1>3. ReaderTypes'
  BY <1>1, <1>2 DEF ReaderInv, ReaderTypes, States
<1>4. Framed' /\ Opaque' /\ Brackets'
  BY <1>1, <1>2 DEF Framed, Opaque, Brackets, ParsedStates, NoLiteral, Promise!NoLiteral
<1> QED
  BY <1>1, <1>2, <1>3, <1>4, ReturnKeeps

LEMMA AdvanceKeeps ==
    ASSUME ReaderInv, Advance
    PROVE  ReaderInv'
<1>1. /\ Got /\ Returns("token") /\ state # "start"
      /\ token.kind # "eol"
      /\ token.kind \notin {"literal_begin", "literal_data", "literal_end"}
      /\ codeDepth' = DepthNow /\ kind' = kind
  BY DEF Advance, IsLiteral
<1>2. /\ call = "asked" /\ status # "lexing"
      /\ UNCHANGED lexVars
      /\ UNCHANGED <<lineStart, literal, token, status, depth>>
      /\ call' = "idle" /\ outcome' = "token" /\ ~Got' /\ Ended'
      /\ ~lineStart /\ literal = NoLiteral
  BY <1>1, TokenReturns
<1>3. state \in States /\ codeDepth \in Nat /\ depth \in Nat
  BY ClosingsAre DEF ReaderInv, ReaderTypes
<1>4. IsStructuredCode => token.kind = "atom"
  BY DEF IsStructuredCode, IsWord
<1>5. /\ state = "resp_text" /\ token.kind = "lbracket" => depth > 0
      /\ state = "code_name" => depth > 0 \/ token.kind = "rbracket"
      /\ state = "code_args" =>
            /\ codeDepth > 0
            /\ token.kind = "lbracket" => Deep(codeDepth + 1)
            /\ token.kind = "rbracket" => Deep(codeDepth - 1)
            /\ token.kind \notin {"lbracket", "rbracket"} => Deep(codeDepth)
  BY <1>1 DEF ReaderInv, Brackets
<1>6. \A n : Deep(n) => n <= depth' \/ Closed'
  BY <1>2, DeepStays
<1>7. CASE state = "second"
  <2>1. state' \in {"resp_text", "data"} /\ codeDepth' = codeDepth
    BY <1>1, <1>7 DEF Advance, DepthNow
  <2> QED
    BY <1>1, <1>2, <1>3, <2>1, ReturnKeeps
    DEF ReaderInv, ReaderTypes, States, Framed, Opaque, Brackets, NoLiteral, Promise!NoLiteral
<1>8. CASE state = "resp_text"
  <2>1. /\ state' \in {"code_name", "text_rest"} /\ codeDepth' = codeDepth
        /\ state' = "code_name" => token.kind = "lbracket"
    BY <1>1, <1>8 DEF Advance, DepthNow
  <2> QED
    BY <1>1, <1>2, <1>3, <1>5, <1>8, <2>1, ReturnKeeps
    DEF ReaderInv, ReaderTypes, States, Framed, Opaque, Brackets, NoLiteral, Promise!NoLiteral
<1>9. CASE state = "code_name"
  <2>1. state' = AfterCodeName
    BY <1>1, <1>9 DEF Advance
  <2>2. /\ state' \in {"text_rest", "code_args", "code_text", "code_close"}
        /\ state' = "code_args" => IsStructuredCode
    BY <1>4, <2>1 DEF AfterCodeName
  <2>3. codeDepth' = IF IsStructuredCode THEN 1 ELSE codeDepth
    BY <1>1, <1>9 DEF DepthNow, OuterBracket
  <2>4. state' = "code_args" => codeDepth' > 0 /\ (codeDepth' <= depth' \/ Closed')
    BY <1>2, <1>3, <1>4, <1>5, <1>9, <2>2, <2>3
  <2>5. codeDepth' \in Nat
    BY <1>3, <2>3
  <2> QED
    BY <1>1, <1>2, <1>3, <2>2, <2>4, <2>5, ReturnKeeps
    DEF ReaderInv, ReaderTypes, States, Framed, Opaque, Brackets, Deep, NoLiteral,
        Promise!NoLiteral
<1>10. CASE state = "code_args"
  <2>1. state' = IF codeDepth' = 0 THEN "text_rest" ELSE "code_args"
    BY <1>1, <1>10 DEF Advance
  <2>2. codeDepth' = IF token.kind = "lbracket" THEN codeDepth + 1
                     ELSE IF token.kind = "rbracket" THEN codeDepth - 1 ELSE codeDepth
    BY <1>1, <1>10 DEF DepthNow
  <2>3. codeDepth' \in Nat /\ Deep(codeDepth')
    BY <1>3, <1>5, <1>10, <2>2
  <2>4. codeDepth' <= depth' \/ Closed'
    BY <1>6, <2>3
  <2>5. state' = "code_args" => codeDepth' > 0
    BY <2>1, <2>3
  <2>6. state' \in {"text_rest", "code_args"}
    BY <2>1
  <2> QED
    BY <1>1, <1>2, <1>3, <2>3, <2>4, <2>5, <2>6, ReturnKeeps
    DEF ReaderInv, ReaderTypes, States, Framed, Opaque, Brackets, Deep, NoLiteral,
        Promise!NoLiteral
<1>11. CASE state \in {"code_text", "code_close", "text_rest", "data"}
  <2>1. state' \in {"code_close", "text_rest", "data"} /\ codeDepth' = codeDepth
    BY <1>1, <1>11 DEF Advance, DepthNow
  <2> QED
    BY <1>1, <1>2, <1>3, <2>1, ReturnKeeps
    DEF ReaderInv, ReaderTypes, States, Framed, Opaque, Brackets, NoLiteral, Promise!NoLiteral
<1> QED
  BY <1>1, <1>3, <1>7, <1>8, <1>9, <1>10, <1>11 DEF States

LEMMA ReaderStutterKeeps ==
    ASSUME ReaderInv, UNCHANGED readerVars
    PROVE  ReaderInv'
<1>1. /\ UNCHANGED lexVars
      /\ UNCHANGED <<input, pos, lineStart, depth, literal, token, status, mode>>
      /\ UNCHANGED <<state, kind, codeDepth, call, outcome>>
  BY DEF readerVars, lexVars, rdVars
<1>2. Inv'
  BY <1>1, StutterKeeps DEF ReaderInv
<1>3. ReaderTypes' /\ LineEnds' /\ Given' /\ Ended'
  BY <1>1 DEF ReaderInv, ReaderTypes, LineEnds, Given, Ended, At, NoLiteral, Promise!NoLiteral
<1>4. Asked' /\ Framed' /\ Opaque'
  BY <1>1 DEF ReaderInv, Asked, Framed, Opaque, Got, ModeFor, RestMode, ParsedStates,
     NoLiteral, Promise!NoLiteral
<1>5. Brackets'
  <2>1. \A n : Deep(n) => n <= depth' \/ Closed'
    BY <1>1, DeepStays
  <2>2. /\ Deep(codeDepth) => Deep(codeDepth)'
        /\ Deep(codeDepth + 1) => Deep(codeDepth + 1)'
        /\ Deep(codeDepth - 1) => Deep(codeDepth - 1)'
    BY <1>1, <2>1 DEF Deep
  <2> QED
    BY <1>1, <2>2 DEF ReaderInv, Brackets, Got
<1> QED
  BY <1>2, <1>3, <1>4, <1>5 DEF ReaderInv

LEMMA ReaderInvKept ==
    ASSUME ReaderInv, [ReaderNext]_readerVars
    PROVE  ReaderInv'
<1>1. ASSUME StreamFails \/ StreamStalls PROVE ReaderInv'
  <2>1. /\ call = "asked" /\ status = "need_more" /\ Returns("net_error")
        /\ UNCHANGED rdVars /\ "net_error" \in Errors
    BY <1>1 DEF StreamFails, StreamStalls, Errors
  <2> QED
    BY <2>1, ErrorKeeps
<1>2. ASSUME LexerRefuses PROVE ReaderInv'
  <2>1. /\ call = "asked" /\ status = "error" /\ Returns("syntax_error")
        /\ UNCHANGED rdVars /\ "syntax_error" \in Errors
    BY <1>2 DEF LexerRefuses, Errors
  <2> QED
    BY <2>1, ErrorKeeps
<1>3. ASSUME Refuse PROVE ReaderInv'
  <2>1. /\ call = "asked" /\ status = "token" /\ state = "start" /\ Returns("syntax_error")
        /\ UNCHANGED rdVars /\ "syntax_error" \in Errors
    BY <1>3 DEF Refuse, Got, Errors
  <2> QED
    BY <2>1, ErrorKeeps
<1> QED
  BY <1>1, <1>2, <1>3, AskKeeps, LexKeeps, ReadsKeep, EndKeeps, PassKeeps, EndLineKeeps,
     StartKeeps, AdvanceKeeps, ReaderStutterKeeps
  DEF ReaderNext, Stream

LEMMA ReaderInvariance == ReaderSpec => []ReaderInv
<1>1. ReaderInit => ReaderInv
  BY ReaderInitKeeps
<1>2. ReaderInv /\ [ReaderNext]_readerVars => ReaderInv'
  BY ReaderInvKept
<1> QED
  BY <1>1, <1>2, PTL DEF ReaderSpec

-----------------------------------------------------------------------------
(* The theorems.                                                           *)

\* The reader and the lexer below it keep their types, over any stream and with
\* a caller that goes on after errors.
THEOREM ReaderTypeCorrect == ReaderSpec => []ReaderTypeOK
<1>1. ReaderInv => ReaderTypeOK
  BY DEF ReaderInv, Inv, ReaderTypes, ReaderTypeOK
<1> QED
  BY <1>1, ReaderInvariance, PTL

\* Between two calls that do not fail, the reader and the lexer agree on where a
\* response begins, and on the brackets of a structured code
\* (response_reader.cpp:98-176, lexer.cpp:195-225).
THEOREM ResponsesStayLines == ReaderSpec => []ResponsesAreLines
<1>1. ASSUME ReaderInv PROVE ResponsesAreLines
  <2> SUFFICES ASSUME call = "idle", outcome \notin Errors
               PROVE  /\ state = "start" <=> lineStart /\ literal = NoLiteral
                      /\ state = "code_args" => codeDepth > 0 /\ Deep(codeDepth)
    BY DEF ResponsesAreLines, Deep, Closed
  <2>1. ~Got
    BY DEF Got
  <2> QED
    BY <1>1, <2>1 DEF ReaderInv, Framed, Brackets
<1> QED
  BY <1>1, ReaderInvariance, PTL

\* What looks like a literal in the free text of a response takes nothing away
\* from the next one (lexer.h:18-23).
THEOREM TextStaysOpaque == ReaderSpec => []TextIsOpaque
<1>1. ReaderInv => TextIsOpaque
  BY DEF ReaderInv, Opaque, ParsedStates, TextIsOpaque
<1> QED
  BY <1>1, ReaderInvariance, PTL

\* The end is reported between two responses only, with every byte read
\* (response_reader.h:32).
THEOREM EndStaysClean == ReaderSpec => []EndIsClean
<1>1. ASSUME ReaderInv PROVE EndIsClean
  <2> SUFFICES ASSUME outcome = "end"
               PROVE  state = "start" /\ pos = Len(input) /\ (pos = 0 \/ At(pos - 1) = "lf")
    BY DEF EndIsClean
  <2>1. status = "end" /\ state = "start"
    BY <1>1 DEF ReaderInv, Ended
  <2>2. finished /\ pos = fed /\ fed = Len(input) /\ lineStart
    BY <1>1, <2>1 DEF ReaderInv, Inv, Over
  <2> QED
    BY <1>1, <2>1, <2>2 DEF ReaderInv, LineEnds
<1> QED
  BY <1>1, ReaderInvariance, PTL

\* The reader and the stream keep the lexer's promise: whatever a read returns, an
\* end together with bytes included, the tokens are those of the whole input, in
\* the modes that the reader asks for.
THEOREM ReaderKeepsTokens == ReaderSpec => TokensOfTheWhole
<1>1. ReaderInit => Promise!Init
  <2> SUFFICES ASSUME ReaderInit PROVE Promise!Init
    OBVIOUS
  <2>1. Init
    BY DEF ReaderInit
  <2>2. pos - spaces = 0 /\ (status = "end") = FALSE
    BY <2>1 DEF Init
  <2> QED
    BY <2>1, <2>2 DEF Init, Promise!Init, NoLiteral, NoToken, NoError
<1>2. ASSUME ReaderInv, [ReaderNext]_readerVars PROVE PromisedStep
  <2>1. Inv /\ ModeFor(state) \in Modes
    BY <1>2, ModesAre DEF ReaderInv, ReaderTypes
  <2>2. ASSUME Ask PROVE PromisedStep
    <3>1. NextFailed \/ NextLiteral \/ Enter(ModeFor(state))
      BY <2>2 DEF Ask
    <3> QED
      BY <2>1, <3>1, FailedIsUnseen, LiteralIsPromised, EnterIsPromised
  <2>3. ASSUME Lex PROVE PromisedStep
    BY <2>1, <2>3, DispatchOutcome, OutcomeIsPromised DEF Lex
  <2>4. ASSUME NEW n \in 0..ReadChunk, NEW eof \in BOOLEAN, StreamReads(n, eof)
        PROVE  PromisedStep
    <3>1. n \in Nat /\ Accept(n, eof)
      BY <2>4, ReaderAssumption DEF StreamReads
    <3> QED
      BY <2>1, <3>1, AcceptIsUnseen
  <2>5. ASSUME UNCHANGED lexVars PROVE PromisedStep
    BY <2>5, UnseenStep DEF lexVars
  <2>6. StreamFails \/ StreamStalls \/ LexerRefuses \/ InputEnds \/ Refuse \/ PassLiteral
           \/ EndLine \/ Start \/ Advance \/ UNCHANGED readerVars => UNCHANGED lexVars
    BY DEF StreamFails, StreamStalls, LexerRefuses, InputEnds, Refuse, PassLiteral, EndLine,
           Start, Advance, Returns, readerVars
  <2> QED
    BY <1>2, <2>2, <2>3, <2>4, <2>5, <2>6 DEF ReaderNext, Stream
<1>3. ReaderInv /\ [ReaderNext]_readerVars => [Promise!Next]_(Promise!vars)
  BY <1>2 DEF PromisedStep
<1> QED
  BY <1>1, <1>3, ReaderInvariance, PTL DEF ReaderSpec, TokensOfTheWhole, Promise!Spec

-----------------------------------------------------------------------------
(* The buffer. Only a literal's header may be longer than MaxToken while it *)
(* is still arriving, since nothing limits its leading zeros.               *)

\* No header is: a tilde, two braces, a plus, a carriage return and its digits.
HeadersAreShort ==
    /\ MaxToken > 5
    /\ \A s \in Inputs : \A a, b \in 1..Len(s) :
          a <= b /\ (\A i \in a..b : s[i] \in Digits) => b - a < MaxToken - 5

WaitsAreShort == status = "need_more" => fed - pos <= MaxToken

BufferInv == WaitsAreShort /\ BufferBounded

\* The run of digits that a header was found to have.
LEMMA DigitsAreFew ==
    ASSUME HeadersAreShort, input \in Inputs, NEW o \in Nat, fed \in Nat, o <= fed,
           fed <= Len(input)
    PROVE  RunEnd(o, Digits) - o <= MaxToken - 5 /\ RunEnd(o, Digits) \in o..fed
<1> DEFINE e == RunEnd(o, Digits)
<1>1. e \in o..fed /\ \A i \in o..(e - 1) : At(i) \in Digits
  BY RunEndProperties
<1> HIDE DEF e
<1>2. MaxToken \in Nat /\ MaxToken > 5 /\ Len(input) \in Nat
  BY LimitsAre, InputIsSeq DEF HeadersAreShort
<1>3. CASE e = o
  BY <1>1, <1>2, <1>3 DEF e
<1>4. CASE e > o
  <2> DEFINE a == o + 1
  <2>1. a \in 1..Len(input) /\ e \in 1..Len(input) /\ a <= e
    BY <1>1, <1>2, <1>4
  <2>2. ASSUME NEW i \in a..e PROVE input[i] \in Digits
    <3>1. i - 1 \in o..(e - 1) /\ (i - 1) + 1 = i
      BY <1>1, <1>4
    <3>2. At(i - 1) = input[i]
      BY <3>1 DEF At
    <3> QED
      BY <1>1, <3>1, <3>2
  <2>3. e - a < MaxToken - 5
    <3> HIDE DEF a
    <3> QED
      BY <2>1, <2>2 DEF HeadersAreShort
  <2> QED
    BY <1>1, <1>2, <1>4, <2>3 DEF e
<1> QED
  BY <1>1, <1>3, <1>4

LEMMA HeaderWaitsShort ==
    ASSUME HeadersAreShort, Inv, LexLiteralHeader, status' = "need_more"
    PROVE  fed - pos <= MaxToken
<1> DEFINE first == pos + IF At(pos) = "~" THEN 2 ELSE 1
           digits == RunEnd(first, Digits)
           tail == digits + IF digits < fed /\ At(digits) = "+" THEN 1 ELSE 0
<1>1. Lexing /\ IsHeader
  BY DEF LexLiteralHeader
<1>2. Lexes
  BY <1>1, EnteredLexes DEF Lexing
<1>3. first \in Nat /\ first <= fed /\ first <= pos + 2
  <2>1. pos \in Nat /\ fed \in Nat /\ pos < fed
    BY <1>2 DEF Lexes
  <2>2. At(pos) = "~" => pos + 1 < fed
    BY <1>1 DEF IsHeader
  <2>3. CASE At(pos) = "~"
    <3>1. first = pos + 2
      BY <2>3
    <3> QED
      BY <2>1, <2>2, <2>3, <3>1
  <2>4. CASE At(pos) # "~"
    <3>1. first = pos + 1
      BY <2>4
    <3> QED
      BY <2>1, <3>1
  <2> QED
    BY <2>3, <2>4
<1>4. digits = fed \/ tail + 2 >= fed
  <2>1. ASSUME NEW refused, NEW wrong, NEW none, NEW bad, NEW big, NEW a, NEW b, NEW c, NEW d,
               NEW len, NEW n, NEW more,
               LET cut == digits = fed \/ (none /\ wrong /\ tail + 2 >= fed) IN
               IF refused THEN Fails("number_too_large", a)
               ELSE IF cut /\ finished THEN Fails("unexpected_end", b)
               ELSE IF cut THEN Suspend(1, FALSE)
               ELSE IF bad THEN Fails("bad_literal", c)
               ELSE IF ~wrong THEN Fails("bad_literal", d)
               ELSE IF big THEN Fails("literal_too_large", pos)
               ELSE Completes("literal_begin", len, n) /\ more
        PROVE  digits = fed \/ tail + 2 >= fed
    <3> HIDE DEF digits, tail
    <3> QED
      BY <2>1 DEF Fails, Fail, Completes, Emit
  <2> QED
    BY <2>1 DEF LexLiteralHeader
<1>5. digits - first <= MaxToken - 5 /\ digits \in first..fed
  <2> HIDE DEF first
  <2> QED
    BY <1>2, <1>3, DigitsAreFew DEF Lexes
<1>6. tail <= digits + 1 /\ tail \in Nat
  <2> HIDE DEF digits, first
  <2> QED
    BY <1>3, <1>5
<1> HIDE DEF tail, digits, first
<1> QED
  BY <1>2, <1>3, <1>4, <1>5, <1>6, LimitsAre DEF Lexes

LEMMA DispatchWaitsShort ==
    ASSUME HeadersAreShort, Inv, Dispatch, status' = "need_more"
    PROVE  fed - pos <= MaxToken
<1>1. status = "lexing"
  BY DispatchTells
<1>2. Lexes /\ MaxToken \in Nat /\ MaxToken > 5
  BY <1>1, EnteredLexes, LimitsAre DEF HeadersAreShort
<1>3. pos \in Nat /\ fed \in Nat /\ pos < fed
  BY <1>2 DEF Lexes
<1>4. ASSUME LexEol PROVE fed - pos <= MaxToken
  <2>1. ~(pos + 1 < fed)
    BY <1>4 DEF LexEol, EolArrived, Fails, Fail, Emit
  <2> QED
    BY <1>2, <1>3, <2>1
<1>5. ASSUME LexOpen \/ LexClose \/ LexControl PROVE FALSE
  BY <1>5 DEF LexOpen, LexClose, LexControl, Fails, Fail, Emit
<1>6. ASSUME LexTilde PROVE fed - pos <= MaxToken
  <2>1. pos + 1 = fed
    BY <1>6 DEF LexTilde, TildeWaits
  <2> QED
    BY <1>2, <1>3, <2>1
<1>7. ASSUME LexAtom PROVE fed - pos <= MaxToken
  <2> DEFINE end == RunEnd(pos + scan.len, AtomChars(mode))
  <2>1. end = fed /\ ~AtomTooLong(end)
    BY <1>7 DEF LexAtom, Fails, Fail, Completes, Emit
  <2> HIDE DEF end
  <2> QED
    BY <1>2, <1>3, <2>1 DEF AtomTooLong
<1>8. ASSUME LexQuoted PROVE fed - pos <= MaxToken
  <2>1. At(pos) = "quote"
    BY <1>8 DEF LexQuoted
  <2>2. WaitsWithinLimit' /\ UNCHANGED <<pos, fed, input>>
    <3>1. Outcome /\ Inv'
      BY DispatchOutcome, OutcomeKeeps
    <3>2. Waits
      BY <3>1 DEF Outcome, Refuses, Gives, Fail, Emit
    <3> QED
      BY <3>1, <3>2 DEF Inv, Waits, Forget, inputVars
  <2>3. At(pos)' = At(pos)
    BY <2>2 DEF At
  <2> QED
    BY <2>1, <2>2, <2>3 DEF WaitsWithinLimit
<1>9. ASSUME LexText PROVE fed - pos <= MaxToken
  <2>1. ASSUME NEW end, NEW late, NEW atNul, NEW more,
               IF end - pos > MaxToken \/ late THEN Fails("token_too_long", pos)
               ELSE IF atNul THEN Fails("invalid_character", end)
               ELSE IF end = fed /\ ~finished THEN Suspend(end - pos, FALSE)
               ELSE Completes("text", end - pos, 0) /\ more
        PROVE  end = fed /\ ~(end - pos > MaxToken)
    BY <2>1 DEF Fails, Fail, Completes, Emit
  <2>2. \E end : end = fed /\ ~(end - pos > MaxToken)
    BY <1>9, <2>1 DEF LexText
  <2> QED
    BY <1>2, <1>3, <2>2
<1> QED
  BY <1>4, <1>5, <1>6, <1>7, <1>8, <1>9, HeaderWaitsShort DEF Dispatch

LEMMA AskWaitsShort ==
    ASSUME Inv, NEW m \in Modes, NextFailed \/ NextLiteral \/ Enter(m), status' = "need_more"
    PROVE  fed' - pos' <= MaxToken
<1>1. pos \in Nat /\ fed \in Nat /\ pos <= fed /\ MaxToken \in Nat
  BY InputIsSeq, LimitsAre DEF Inv, TypeOK
<1>2. CASE NextFailed
  BY <1>2 DEF NextFailed
<1>3. CASE NextLiteral
  <2>1. ~(pos < fed) /\ UNCHANGED <<pos, fed>>
    BY <1>3 DEF NextLiteral, Emit, inputVars
  <2> QED
    BY <1>1, <2>1
<1>4. CASE Enter(m)
  <2>1. PICK k \in Nat : Skips(m, k)
    BY <1>4, EnterSkips
  <2>2. pos + k = fed /\ pos' = pos + k /\ fed' = fed
    BY <2>1 DEF Skips, Fail
  <2> QED
    BY <1>1, <2>2
<1> QED
  BY <1>2, <1>3, <1>4

LEMMA BufferKept ==
    ASSUME HeadersAreShort, ReaderInv, BufferInv, [ReaderNext]_readerVars
    PROVE  BufferInv'
<1>1. /\ Inv /\ state \in States
      /\ pos \in Nat /\ fed \in Nat /\ base \in Nat /\ base <= pos /\ pos <= fed
      /\ MaxToken \in Nat /\ MaxToken > 5 /\ ReadChunk \in Nat
  BY InputIsSeq, LimitsAre, ReaderAssumption
  DEF ReaderInv, ReaderTypes, Inv, TypeOK, HeadersAreShort
<1>2. Ask => BufferInv'
  <2> SUFFICES ASSUME Ask PROVE BufferInv'
    OBVIOUS
  <2>1. NextFailed \/ NextLiteral \/ Enter(ModeFor(state))
    BY DEF Ask
  <2>2. UNCHANGED <<fed, base>>
    BY <2>1 DEF NextFailed, NextLiteral, Enter, inputVars
  <2>3. WaitsAreShort'
    BY <1>1, <2>1, ModesAre, AskWaitsShort DEF WaitsAreShort
  <2> QED
    BY <2>2, <2>3 DEF BufferInv, BufferBounded
<1>3. Lex => BufferInv'
  <2> SUFFICES ASSUME Lex PROVE BufferInv'
    OBVIOUS
  <2>1. Dispatch
    BY DEF Lex
  <2>2. Outcome
    BY <1>1, <2>1, DispatchOutcome
  <2>3. UNCHANGED <<fed, base>>
    BY <2>2 DEF Outcome, Refuses, Waits, Gives, Forget, inputVars
  <2>4. status' = "need_more" => pos' = pos
    BY <2>2 DEF Outcome, Refuses, Waits, Gives, Forget, Emit
  <2>5. WaitsAreShort'
    BY <1>1, <2>1, <2>3, <2>4, DispatchWaitsShort DEF WaitsAreShort
  <2> QED
    BY <2>3, <2>5 DEF BufferInv, BufferBounded
<1>4. ASSUME NEW n \in 0..ReadChunk, NEW eof \in BOOLEAN, StreamReads(n, eof)
      PROVE  BufferInv'
  <2>1. /\ status = "need_more" /\ status' = "idle" /\ fed' = fed + n
        /\ base' = IF n > 0 /\ Compacts THEN pos ELSE base
    BY <1>4 DEF StreamReads, Accept
  <2>0. status' # "need_more" /\ fed' = fed + n
    BY <2>1
  <2>2. fed - pos <= MaxToken
    BY <2>1 DEF BufferInv, WaitsAreShort
  <2>3. n \in Nat /\ n <= ReadChunk
    BY <1>1
  <2>4. CASE n = 0
    <3>1. fed' = fed /\ base' = base
      BY <1>1, <2>1, <2>4
    <3> QED
      BY <2>1, <3>1 DEF BufferInv, BufferBounded, WaitsAreShort
  <2>5. CASE n > 0 /\ Compacts
    <3>1. base' = pos
      BY <2>1, <2>5
    <3>2. (fed + n) - pos < ReadChunk + 2 * MaxToken
      BY <1>1, <2>2, <2>3
    <3> QED
      BY <2>0, <3>1, <3>2 DEF BufferInv, BufferBounded, WaitsAreShort
  <2>6. CASE n > 0 /\ ~Compacts
    <3>1. base' = base
      BY <2>1, <2>6
    <3>2. pos = base \/ 2 * (pos - base) < fed - base
      BY <1>1, <2>6 DEF Compacts
    <3>3. (fed + n) - base < ReadChunk + 2 * MaxToken
      BY <1>1, <2>2, <2>3, <3>2
    <3> QED
      BY <2>0, <3>1, <3>3 DEF BufferInv, BufferBounded, WaitsAreShort
  <2> QED
    BY <2>3, <2>4, <2>5, <2>6
<1>5. ASSUME UNCHANGED lexVars PROVE BufferInv'
  BY <1>5 DEF lexVars, BufferInv, BufferBounded, WaitsAreShort
<1>6. ReaderNext /\ ~Ask /\ ~Lex /\ ~(\E n \in 0..ReadChunk, eof \in BOOLEAN : StreamReads(n, eof))
        => UNCHANGED lexVars
  BY DEF ReaderNext, Stream, StreamFails, StreamStalls, LexerRefuses, InputEnds, Refuse,
         PassLiteral, EndLine, Start, Advance, Returns
<1>7. UNCHANGED readerVars => UNCHANGED lexVars
  BY DEF readerVars
<1> QED
  BY <1>2, <1>3, <1>4, <1>5, <1>6, <1>7

\* The buffer stays within one read and twice the longest wait, however long the
\* session (lexer.cpp:62-66), as long as no literal's header is itself longer
\* than max_token_bytes: the code does not refuse one that is.
THEOREM BufferStaysBounded ==
    ASSUME HeadersAreShort PROVE ReaderSpec => []BufferBounded
<1>1. ReaderInit => BufferInv
  <2> SUFFICES ASSUME ReaderInit PROVE BufferInv
    OBVIOUS
  <2>1. fed = 0 /\ base = 0 /\ status = "idle"
    BY DEF ReaderInit, Init
  <2>2. ReadChunk \in Nat /\ MaxToken \in Nat /\ MaxToken > 0
    BY LimitsAre, ReaderAssumption
  <2> QED
    BY <2>1, <2>2 DEF BufferInv, BufferBounded, WaitsAreShort
<1>2. ReaderInv /\ BufferInv /\ [ReaderNext]_readerVars => BufferInv'
  BY BufferKept
<1>3. BufferInv => BufferBounded
  BY DEF BufferInv
<1> QED
  BY <1>1, <1>2, <1>3, ReaderInvariance, PTL DEF ReaderSpec
=============================================================================
