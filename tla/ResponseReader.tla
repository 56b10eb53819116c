--------------------------- MODULE ResponseReader ---------------------------
(***************************************************************************)
(* Class ResponseReader (response_reader.cpp): the lexer of module Lexer   *)
(* fed from a ByteStream, and the little a reader must know of a response  *)
(* to choose the mode of its next token.                                   *)
(*                                                                         *)
(* next() is a loop: ask the lexer, read from the stream while it needs    *)
(* more, and let the token move the reader's state. The words that matter  *)
(* to it are one character each: "B" for BYE, "S" for the other status     *)
(* keywords, "C" for the name of a code with structured arguments, and *   *)
(* and + for themselves.                                                   *)
(***************************************************************************)
EXTENDS Lexer

CONSTANTS
    ReadChunk,   \* kReadChunk
    CallsAgain   \* TRUE when the caller goes on after an error

ASSUME ReaderAssumption == ReadChunk \in Nat \ {0} /\ CallsAgain \in BOOLEAN

VARIABLES
    state,      \* state_
    kind,       \* kind_
    codeDepth,  \* code_depth_
    call,       \* where the call of next() is
    outcome     \* what the last call returned

rdVars == <<state, kind, codeDepth>>
readerVars == <<lexVars, rdVars, call, outcome>>

States == {"start", "second", "resp_text", "code_name", "code_args",
           "code_text", "code_close", "text_rest", "data"}

Errors == {"syntax_error", "net_error"}

ReaderInit ==
    /\ Init
    /\ state = "start"
    /\ kind = "none"
    /\ codeDepth = 0
    /\ call = "idle"
    /\ outcome = "none"

\* Mutant: the rest of the line is tokenized like data.
RestMode_Data == "normal"
RestMode == "text"

\* mode_for()
ModeFor(s) ==
    CASE s \in {"resp_text", "code_name"} -> s
      [] s \in {"code_text", "code_close"} -> "code_text"
      [] s = "text_rest" -> RestMode
      [] OTHER -> "normal"

IsWord(c) == token.kind = "atom" /\ token.len = 1 /\ At(token.first) = c
IsStatus == IsWord("S") \/ IsWord("B")
IsStructuredCode == IsWord("C")

-----------------------------------------------------------------------------
(* read(): the lexer and the stream.                                       *)

\* next() is called, or its loop comes round: the lexer is asked.
Ask ==
    /\ call \in {"idle", "again"}
    /\ call = "idle" /\ outcome \in Errors => CallsAgain
    /\ NextFailed \/ NextLiteral \/ Enter(ModeFor(state))
    /\ call' = "asked"
    /\ UNCHANGED <<rdVars, outcome>>

Lex ==
    /\ call = "asked"
    /\ Dispatch
    /\ UNCHANGED <<rdVars, call, outcome>>

Returns(r) == call' = "idle" /\ outcome' = r /\ UNCHANGED lexVars

\* The stream delivers some bytes, with or without the end of the input.
StreamReads(n, eof) ==
    /\ call = "asked"
    /\ status = "need_more"
    /\ n > 0 \/ eof
    /\ Accept(n, eof)
    /\ call' = "again"
    /\ UNCHANGED <<rdVars, outcome>>

StreamFails ==
    /\ call = "asked"
    /\ status = "need_more"
    /\ Returns("net_error")
    /\ UNCHANGED rdVars

\* Mutant: a read of nothing at all is tried again.
StreamStalls_Again ==
    /\ call = "asked"
    /\ status = "need_more"
    /\ call' = "again"
    /\ UNCHANGED <<lexVars, rdVars, outcome>>

\* A stream that breaks its contract: no bytes, no end, no error.
StreamStalls ==
    /\ call = "asked"
    /\ status = "need_more"
    /\ Returns("net_error")
    /\ UNCHANGED rdVars

LexerRefuses ==
    /\ call = "asked"
    /\ status = "error"
    /\ Returns("syntax_error")
    /\ UNCHANGED rdVars

InputEnds ==
    /\ call = "asked"
    /\ status = "end"
    /\ Returns("end")
    /\ UNCHANGED rdVars

-----------------------------------------------------------------------------
(* advance()                                                               *)

IsLiteral == token.kind \in {"literal_begin", "literal_data", "literal_end"}

Got == call = "asked" /\ status = "token"

\* A response begins with a tag, * or +.
Refuse ==
    /\ Got
    /\ state = "start"
    /\ token.kind \notin {"atom", "number"}
    /\ Returns("syntax_error")
    /\ UNCHANGED rdVars

\* Literal content changes nothing about where the response is.
PassLiteral ==
    /\ Got
    /\ IsLiteral /\ state # "start"
    /\ Returns("token")
    /\ UNCHANGED rdVars

\* The line end is the response's end, whatever was left open.
EndLine ==
    /\ Got
    /\ token.kind = "eol" /\ state # "start"
    /\ Returns("token")
    /\ state' = "start"
    /\ UNCHANGED <<kind, codeDepth>>

Start ==
    /\ Got
    /\ state = "start"
    /\ token.kind \in {"atom", "number"}
    /\ Returns("token")
    /\ kind' = CASE IsWord("*") -> "untagged"
                 [] IsWord("+") -> "continuation"
                 [] OTHER -> "tagged"
    /\ state' = IF IsWord("+") THEN "text_rest" ELSE "second"
    /\ UNCHANGED codeDepth

AfterCodeName ==
    CASE token.kind = "rbracket" -> "text_rest"
      [] IsStructuredCode -> "code_args"
      [] token.kind = "atom" /\ ~IsStructuredCode -> "code_text"
      [] OTHER -> "code_close"

\* Mutant: the bracket that began the code is not counted.
OuterBracket_Ignored == 0
OuterBracket == 1

\* The brackets of a structured code, its own included.
DepthNow ==
    CASE state = "code_name" /\ IsStructuredCode -> OuterBracket
      [] state = "code_args" /\ token.kind = "lbracket" -> codeDepth + 1
      [] state = "code_args" /\ token.kind = "rbracket" -> codeDepth - 1
      [] OTHER -> codeDepth

\* What follows an inner token.
Advance ==
    /\ Got
    /\ state # "start"
    /\ token.kind # "eol" /\ ~IsLiteral
    /\ Returns("token")
    /\ codeDepth' = DepthNow
    /\ state' =
         CASE state = "second" -> IF IsStatus THEN "resp_text" ELSE "data"
           [] state = "resp_text" ->
                IF token.kind = "lbracket" THEN "code_name" ELSE "text_rest"
           [] state = "code_name" -> AfterCodeName
           [] state = "code_args" ->
                IF codeDepth' = 0 THEN "text_rest" ELSE "code_args"
           [] state \in {"code_text", "code_close"} ->
                IF token.kind = "rbracket" THEN "text_rest" ELSE "code_close"
           [] OTHER -> state
    /\ UNCHANGED kind

Stream ==
    \/ \E n \in 0..ReadChunk, eof \in BOOLEAN : StreamReads(n, eof)
    \/ StreamFails
    \/ StreamStalls

ReaderNext ==
    \/ Ask
    \/ Lex
    \/ Stream
    \/ LexerRefuses
    \/ InputEnds
    \/ Refuse
    \/ PassLiteral
    \/ EndLine
    \/ Start
    \/ Advance

ReaderSpec == ReaderInit /\ [][ReaderNext]_readerVars

\* A call that has begun runs, and a blocking read returns: with bytes, the
\* peer's close, or an error such as the expiry of SO_RCVTIMEO. Nothing makes
\* a caller call again.
ReaderFairness ==
    /\ WF_readerVars(call = "again" /\ Ask)
    /\ WF_readerVars(call = "asked" /\ ReaderNext)

ReaderFairSpec == ReaderSpec /\ ReaderFairness

-----------------------------------------------------------------------------
(* What the reader promises.                                               *)

\* Every variable has its type.
ReaderTypeOK ==
    /\ TypeOK
    /\ state \in States
    /\ kind \in {"none", "tagged", "untagged", "continuation"}
    /\ codeDepth \in Nat
    /\ call \in {"idle", "again", "asked"}
    /\ outcome \in {"none", "token", "end"} \cup Errors

\* Between two calls the reader and the lexer agree on where a response is: one
\* is about to begin exactly when nothing of a line was consumed, and the
\* brackets that the reader counts in a structured code are open in the lexer,
\* but for those that a closing parenthesis took with it (lexer.cpp:219).
ResponsesAreLines ==
    call = "idle" /\ outcome \notin Errors =>
        /\ state = "start" <=> lineStart /\ literal = NoLiteral
        /\ state = "code_args" =>
              /\ codeDepth > 0
              /\ codeDepth <= depth \/ \E i \in 0..(pos - 1) : At(i) = ")"

\* lexer.h:18-23: the free text after a status keyword or a + is opaque. What
\* looks like a literal in it takes nothing away from the next response.
TextIsOpaque ==
    state \in {"resp_text", "code_text", "code_close", "text_rest"} =>
        literal = NoLiteral

\* response_reader.h:32: the end is reported between two responses only, with
\* every byte read. A response that is cut short is an error.
EndIsClean ==
    outcome = "end" =>
        state = "start" /\ pos = Len(input) /\ (pos = 0 \/ At(pos - 1) = "lf")

\* The buffer stays within one read and twice the longest wait, however long
\* the session, since consumed bytes are given back in time.
BufferBounded == fed - base < ReadChunk + 2 * MaxToken

\* next() returns, whatever the stream does.
NextReturns == call # "idle" ~> call = "idle"

\* imap.md:99: "A syntax error leaves the lexer failed", so that no call after
\* one can take the rest of the line for a response.
SyntaxErrorsStick == outcome = "syntax_error" => error # NoError
=============================================================================
