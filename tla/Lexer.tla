------------------------------- MODULE Lexer -------------------------------
(***************************************************************************)
(* The streaming IMAP tokenizer, class Lexer (lexer.cpp): bytes come in    *)
(* through feed() in pieces of any size, tokens go out through next(), and *)
(* a token that is still arriving is suspended and resumed.                *)
(*                                                                         *)
(* Positions are stream offsets. The buffer holds the bytes from base up   *)
(* to fed, of which those below pos are consumed.                          *)
(*                                                                         *)
(* One call of next() is a step that enters it and, when there is a byte   *)
(* to dispatch on, a second one that runs the function it is dispatched    *)
(* to; nothing comes between the two.                                      *)
(***************************************************************************)
EXTENDS Integers, Sequences, FiniteSetsExt

CONSTANTS
    Inputs,        \* what a server may send in all
    MaxToken,      \* limits.max_token_bytes
    MaxLiteral,    \* limits.max_literal_bytes
    MaxDepth,      \* limits.max_depth
    MaxNumber,     \* kMaxNumber
    CompactAt      \* kCompactThreshold

VARIABLES
    input,      \* everything the server sends, in characters of TokenStream
    fed,        \* how much of it was passed to feed()
    finished,   \* finished_
    base,       \* base_offset_
    pos,        \* base_offset_ + pos_
    lineStart,  \* line_start_
    spaces,     \* pending_spaces_
    depth,      \* depth_
    scan,       \* scanning_, scan_mode_, scan_ and quoted_escape_
    literal,    \* literal_remaining_, NoLiteral unless literal_active_
    error,      \* error_, NoError unless failed_
    token,      \* the caller's Token
    status,     \* what next() has just returned, or where it is
    mode        \* the mode of the call in progress

lexVars == <<input, fed, finished, base, pos, lineStart, spaces, depth, scan,
             literal, error, token, status, mode>>

\* What next() leaves alone whatever it finds.
inputVars == <<input, fed, finished, base>>

\* The promise, with the spaces that were skipped already given back.
Promise == INSTANCE TokenStream WITH
    at <- pos - spaces,
    ended <- status = "end"

ASSUME LexerAssumption ==
    /\ {MaxToken, MaxDepth, CompactAt} \subseteq Nat \ {0}
    /\ MaxLiteral \in Nat
    /\ MaxNumber \in Nat /\ MaxNumber >= 9
    /\ Inputs \subseteq Seq(Promise!Characters)

Modes == Promise!Modes
NoLiteral == Promise!NoLiteral
NoError == Promise!NoError
NoToken == Promise!NoToken
Digits == Promise!Digits
DigitValue(c) == Promise!DigitValue(c)

NoScan == [on |-> FALSE, mode |-> "normal", len |-> 0, escape |-> FALSE]

ErrorKinds == {"invalid_character", "bad_line_ending", "unterminated_quoted",
               "bad_escape", "bad_literal", "literal_too_large",
               "number_too_large", "token_too_long", "nesting_too_deep",
               "unexpected_end"}

Init ==
    /\ input \in Inputs
    /\ fed = 0
    /\ finished = FALSE
    /\ base = 0
    /\ pos = 0
    /\ lineStart = TRUE
    /\ spaces = 0
    /\ depth = 0
    /\ scan = NoScan
    /\ literal = NoLiteral
    /\ error = NoError
    /\ token = NoToken
    /\ status = "idle"
    /\ mode = "normal"

Idle == status # "lexing"

\* at(index), for an offset in the buffer.
At(o) == input[o + 1]

\* Where in the buffer a run of characters of a set ends that starts at o.
RunEnd(o, S) == Min({i \in o..(fed - 1) : At(i) \notin S} \cup {fed})

-----------------------------------------------------------------------------
(* feed() and finish().                                                    *)

\* Mutant: the buffer is compacted past the threshold only.
Compacts_Threshold == pos - base >= CompactAt

\* Consumed bytes are reclaimed past the threshold or half of the buffer.
Compacts ==
    /\ pos > base
    /\ pos - base >= CompactAt \/ 2 * (pos - base) >= fed - base

\* n bytes are fed, and the input may be declared over.
Accept(n, over) ==
    /\ Idle
    /\ ~finished
    /\ fed + n <= Len(input)
    /\ over => fed + n = Len(input)
    /\ fed' = fed + n
    /\ base' = IF n > 0 /\ Compacts THEN pos ELSE base
    /\ finished' = over
    /\ status' = "idle"
    /\ UNCHANGED <<input, pos, lineStart, spaces, depth, scan, literal, error,
                   token, mode>>

Feed(n) == n > 0 /\ Accept(n, FALSE)
Finish == Accept(0, TRUE)

-----------------------------------------------------------------------------
(* next().                                                                 *)

Fail(kind, o) ==
    /\ error' = [kind |-> kind, at |-> o]
    /\ status' = "error"

\* The sticky failure.
NextFailed ==
    /\ Idle
    /\ error # NoError
    /\ status' = "error"
    /\ UNCHANGED <<inputVars, pos, lineStart, spaces, depth, scan, literal,
                   error, token, mode>>

\* begin() and consume().
Emit(kind, len, n) ==
    /\ token' = [kind |-> kind, spaces |-> spaces, first |-> pos, len |-> len,
                 number |-> n]
    /\ spaces' = 0
    /\ pos' = pos + len
    /\ status' = "token"

\* next_literal(): what is buffered of the literal, whatever the mode.
NextLiteral ==
    LET chunk == Min({literal, fed - pos}) IN
    /\ Idle
    /\ error = NoError
    /\ literal # NoLiteral
    /\ IF literal = 0
         THEN /\ Emit("literal_end", 0, 0)
              /\ literal' = NoLiteral
              /\ UNCHANGED <<lineStart, error>>
       ELSE IF pos < fed
         THEN /\ Emit("literal_data", chunk, 0)
              /\ literal' = literal - chunk
              /\ lineStart' = FALSE
              /\ UNCHANGED error
       ELSE /\ IF finished THEN Fail("unexpected_end", pos)
                           ELSE status' = "need_more" /\ UNCHANGED error
            /\ UNCHANGED <<pos, lineStart, spaces, literal, token>>
    /\ UNCHANGED <<inputVars, depth, scan, mode>>

\* Mutant: an input that is over is over, wherever it stops.
Starved_AlwaysEnd(atLineStart, pending, o) ==
    /\ status' = IF finished THEN "end" ELSE "need_more"
    /\ UNCHANGED error

\* starved(): the line start and the spaces are those after the skip.
Starved(atLineStart, pending, o) ==
    IF ~finished THEN status' = "need_more" /\ UNCHANGED error
    ELSE IF atLineStart /\ pending = 0 THEN status' = "end" /\ UNCHANGED error
    ELSE Fail("unexpected_end", o)

\* Mutant: a suspended token is resumed in whatever mode comes next.
Resumes_AnyMode(m) == scan.on

\* A token that was suspended is resumed, in the same mode only.
Resumes(m) == scan.on /\ m = scan.mode

\* Otherwise the separating spaces are skipped and counted as they come.
Enter(m) ==
    LET resumed == Resumes(m)
        skipped == IF resumed THEN 0 ELSE RunEnd(pos, {"sp"}) - pos
        room    == MaxToken - spaces
    IN  /\ Idle
        /\ error = NoError /\ literal = NoLiteral
        /\ scan' = IF resumed THEN scan ELSE NoScan
        /\ pos' = pos + Min({skipped, room})
        /\ spaces' = spaces + Min({skipped, room})
        /\ lineStart' = (lineStart /\ pos' = pos)
        /\ IF skipped > room
             THEN Fail("token_too_long", pos') /\ UNCHANGED mode
           ELSE IF pos' = fed
             THEN Starved(lineStart', spaces', pos') /\ UNCHANGED mode
           ELSE status' = "lexing" /\ mode' = m /\ UNCHANGED error
        /\ UNCHANGED <<inputVars, depth, literal, token>>

-----------------------------------------------------------------------------
(* The functions next() dispatches to. `mode` is a call's argument, and is  *)
(* forgotten when the call returns.                                         *)

Lexing == status = "lexing" /\ mode' = "normal"

Forget == UNCHANGED <<inputVars, lineStart, spaces, pos, depth, literal, token>>

Fails(kind, o) == Fail(kind, o) /\ UNCHANGED scan /\ Forget

\* suspend()
Suspend(len, escape) ==
    /\ scan' = [on |-> TRUE, mode |-> mode, len |-> len, escape |-> escape]
    /\ status' = "need_more"
    /\ UNCHANGED error
    /\ Forget

\* A whole token that complete() follows.
Completes(kind, len, n) ==
    /\ Emit(kind, len, n)
    /\ scan' = NoScan
    /\ lineStart' = FALSE
    /\ UNCHANGED <<inputVars, depth, error>>

IsEol == At(pos) \in {"cr", "lf"}

\* Mutant: a whole line end waits for one byte more.
EolArrived_OneMore == pos + 2 < fed

EolArrived == pos + 1 < fed

\* lex_eol(): CRLF, and what was left open on the line is forgotten.
LexEol ==
    /\ Lexing
    /\ IsEol
    /\ IF At(pos) = "lf" THEN Fails("bad_line_ending", pos)
       ELSE IF ~EolArrived
         THEN IF finished THEN Fails("unexpected_end", pos + 1)
              ELSE status' = "need_more" /\ UNCHANGED <<scan, error>> /\ Forget
       ELSE IF At(pos + 1) # "lf" THEN Fails("bad_line_ending", pos)
       ELSE /\ Emit("eol", 2, 0)
            /\ lineStart' = TRUE
            /\ depth' = 0
            /\ UNCHANGED <<inputVars, scan, literal, error>>

\* What next() and lex_general() take the byte at pos for.
General == mode \in {"normal", "astring"}

OpenKind ==
    CASE General /\ At(pos) = "(" -> "lparen"
      [] mode \in {"normal", "resp_text"} /\ At(pos) = "[" -> "lbracket"
      [] OTHER -> "none"

CloseKind ==
    CASE General /\ At(pos) = ")" -> "rparen"
      [] mode \in {"normal", "code_name", "code_text"} /\ At(pos) = "]" -> "rbracket"
      [] OTHER -> "none"

LexOpen ==
    /\ Lexing
    /\ OpenKind # "none"
    /\ IF depth >= MaxDepth
         THEN Fails("nesting_too_deep", pos)
         ELSE /\ depth' = depth + 1
              /\ Emit(OpenKind, 1, 0)
              /\ lineStart' = FALSE
              /\ UNCHANGED <<inputVars, scan, literal, error>>

\* Mutant: a stray closer takes the depth below zero.
DepthOutside_Negative == depth - 1

\* A stray closer does not take the depth below zero.
DepthOutside == Max({depth - 1, 0})

LexClose ==
    /\ Lexing
    /\ CloseKind # "none"
    /\ depth' = DepthOutside
    /\ Emit(CloseKind, 1, 0)
    /\ lineStart' = FALSE
    /\ UNCHANGED <<inputVars, scan, literal, error>>

\* is_atom_char
AtomChars(m) ==
    Promise!Characters \ ({"sp", "cr", "lf", "nul", "ctl", "(", ")", "{", "quote"}
                          \cup IF m = "astring" THEN {} ELSE {"[", "]"})

\* A tilde announces a literal8 or is an atom character: the next byte tells.
TildeWaits == General /\ At(pos) = "~" /\ pos + 1 = fed /\ ~finished

IsHeader ==
    /\ General
    /\ \/ At(pos) = "{"
       \/ At(pos) = "~" /\ pos + 1 < fed /\ At(pos + 1) = "{"

LexTilde ==
    /\ Lexing
    /\ TildeWaits
    /\ status' = "need_more"
    /\ UNCHANGED <<scan, error>>
    /\ Forget

LexControl ==
    /\ Lexing
    /\ General /\ ~IsEol
    /\ At(pos) \in {"nul", "ctl"}
    /\ Fails("invalid_character", pos)

\* The value of a number's digits as they are read, and those the overflow test
\* refuses.
Values(a, b) ==
    LET value[i \in a..b] ==
            IF i = a THEN 0 ELSE 10 * value[i - 1] + DigitValue(At(i - 1))
    IN  value
Refused(a, b) ==
    {i \in a..(b - 1) :
        Values(a, b)[i] > (MaxNumber - DigitValue(At(i))) \div 10}

IsAtom ==
    \/ /\ General /\ ~IsHeader /\ ~TildeWaits
       /\ At(pos) \in AtomChars(mode)
    \/ mode = "code_name" /\ At(pos) \in AtomChars("normal")

\* Mutant: the limit is looked at when the token is complete.
AtomTooLong_Late(end) == end - pos > MaxToken /\ (end < fed \/ finished)

AtomTooLong(end) == end - pos > MaxToken

\* lex_atom(). Only normal mode classifies: NIL, a number, or an atom. A number
\* that is refused has already been begun, which forgets its spaces.
LexAtom ==
    LET end == RunEnd(pos + scan.len, AtomChars(mode))
        len == end - pos
        isNil == len = 1 /\ At(pos) = "N"
        isNumber == \A i \in pos..(end - 1) : At(i) \in Digits
        refused == Refused(pos, end)
    IN  /\ Lexing
        /\ IsAtom
        /\ IF AtomTooLong(end) THEN Fails("token_too_long", pos)
           ELSE IF end = fed /\ ~finished THEN Suspend(len, FALSE)
           ELSE IF mode # "normal" \/ ~(isNil \/ isNumber)
             THEN Completes("atom", len, 0) /\ UNCHANGED literal
           ELSE IF isNil THEN Completes("nil", len, 0) /\ UNCHANGED literal
           ELSE IF refused # {}
             THEN /\ Fail("number_too_large", Min(refused))
                  /\ spaces' = 0
                  /\ UNCHANGED <<inputVars, pos, lineStart, depth, scan, literal,
                                 token>>
           ELSE Completes("number", len, Values(pos, end)[end]) /\ UNCHANGED literal

\* lex_quoted(): the bytes are examined from where the last call left off, and
\* whether the next one is escaped is carried over.
LexQuoted ==
    LET start == pos + Max({scan.len, 1})
        Escape[i \in start..fed] ==
            IF i = start THEN scan.len > 0 /\ scan.escape
                         ELSE ~Escape[i - 1] /\ At(i - 1) = "slash"
        Halts(i) ==
            \/ i - pos >= MaxToken
            \/ IF Escape[i] THEN At(i) \notin {"quote", "slash"}
                            ELSE At(i) \in {"quote", "cr", "lf", "nul"}
        halt == Min({i \in start..(fed - 1) : Halts(i)} \cup {fed})
    IN  /\ Lexing
        /\ General /\ At(pos) = "quote"
        /\ IF halt = fed
             THEN IF finished THEN Fails("unexpected_end", fed)
                              ELSE Suspend(fed - pos, Escape[fed])
           ELSE IF halt - pos >= MaxToken THEN Fails("token_too_long", pos)
           ELSE IF Escape[halt] THEN Fails("bad_escape", halt)
           ELSE IF At(halt) = "quote"
             THEN Completes("quoted", halt + 1 - pos, 0) /\ UNCHANGED literal
           ELSE Fails(IF At(halt) = "nul" THEN "invalid_character"
                                          ELSE "unterminated_quoted", halt)

\* lex_literal_header(), examined from its start every time: {n} or {n+}, with
\* a tilde for a literal8, and CRLF.
LexLiteralHeader ==
    LET first  == pos + IF At(pos) = "~" THEN 2 ELSE 1
        digits == RunEnd(first, Digits)
        refused == Refused(first, digits)
        size == Values(first, digits)[digits]
        tail == digits + IF digits < fed /\ At(digits) = "+" THEN 1 ELSE 0
        wrong == {i \in tail..Min({tail + 2, fed - 1}) :
                     At(i) # <<"}", "cr", "lf">>[i - tail + 1]}
        cut == digits = fed \/ (digits > first /\ wrong = {} /\ tail + 2 >= fed)
    IN  /\ Lexing
        /\ IsHeader
        /\ IF refused # {} THEN Fails("number_too_large", Min(refused))
           ELSE IF cut /\ finished THEN Fails("unexpected_end", fed)
           ELSE IF cut THEN Suspend(1, FALSE)
           ELSE IF digits = first THEN Fails("bad_literal", first)
           ELSE IF wrong # {} THEN Fails("bad_literal", Min(wrong))
           ELSE IF size > MaxLiteral THEN Fails("literal_too_large", pos)
           ELSE /\ Completes("literal_begin", tail + 3 - pos, size)
                /\ literal' = size

IsText ==
    /\ ~IsEol /\ ~General
    /\ OpenKind = "none" /\ CloseKind = "none" /\ ~IsAtom

\* lex_text(): up to the line end, and in a response code up to its bracket.
LexText ==
    LET stops == {"cr", "lf"} \cup
                 IF mode \in {"code_name", "code_text"} THEN {"]"} ELSE {}
        end == RunEnd(pos + scan.len, Promise!Characters \ (stops \cup {"nul"}))
        len == end - pos
        atNul == end < fed /\ At(end) = "nul"
    IN  /\ Lexing
        /\ IsText
        /\ IF len > MaxToken \/ (len = MaxToken /\ atNul)
             THEN Fails("token_too_long", pos)
           ELSE IF atNul THEN Fails("invalid_character", end)
           ELSE IF end = fed /\ ~finished THEN Suspend(len, FALSE)
           ELSE Completes("text", len, 0) /\ UNCHANGED literal

Dispatch ==
    \/ LexEol
    \/ LexOpen
    \/ LexClose
    \/ LexTilde
    \/ LexControl
    \/ LexAtom
    \/ LexQuoted
    \/ LexLiteralHeader
    \/ LexText

Call ==
    \/ NextFailed
    \/ NextLiteral
    \/ \E m \in Modes : Enter(m)

Next ==
    \/ \E n \in 1..(Len(input) - fed) : Feed(n)
    \/ Finish
    \/ Call
    \/ Dispatch

Spec == Init /\ [][Next]_lexVars

-----------------------------------------------------------------------------
(* What the lexer promises.                                                *)

\* Every variable has its type, and the depth stays within its limit.
TypeOK ==
    /\ input \in Inputs
    /\ fed \in 0..Len(input)
    /\ finished \in BOOLEAN
    /\ base \in 0..fed /\ pos \in base..fed
    /\ lineStart \in BOOLEAN
    /\ spaces \in 0..MaxToken
    /\ depth \in 0..MaxDepth
    /\ scan \in [on : BOOLEAN, mode : Modes, len : 0..MaxToken, escape : BOOLEAN]
    /\ literal \in {NoLiteral} \cup 0..MaxLiteral
    /\ error = NoError \/ error \in [kind : ErrorKinds, at : 0..Len(input)]
    /\ token.first \in 0..fed /\ token.first + token.len <= pos
    /\ status \in {"idle", "lexing", "token", "need_more", "end", "error"}
    /\ mode \in Modes

\* lexer.h:86-88 and imap.md:96-97: the tokens, and the error with its offset,
\* are those of the whole input, however it was split, whenever the caller
\* asked, and even if it changed its mind about the mode of a token half read.
TokensOfTheWhole == Promise!Spec

\* Nothing that could be decided is held back: a lexer that asks for more has
\* no line end among the bytes it keeps. A client that waits for the answer to
\* a command would otherwise wait on a server that has given it.
NoLineWithheld ==
    status = "need_more" => \A o \in pos..(fed - 1) : At(o) # "lf"

\* Limits hold while a token is still arriving: a lexer that asks for more
\* keeps no more than one token, unless it is a literal's header.
WaitsWithinLimit ==
    status = "need_more" => fed - pos <= MaxToken \/ At(pos) \in {"{", "~"}
=============================================================================
