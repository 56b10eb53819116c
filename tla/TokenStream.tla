---------------------------- MODULE TokenStream ----------------------------
(***************************************************************************)
(* What the IMAP lexer promises (lexer.h): the tokens of a server's bytes, *)
(* read off the complete input one whole token at a time, as if there were *)
(* no reads, no buffer and no token that is still arriving. Module Lexer,  *)
(* which sees the input in pieces, implements this specification.          *)
(*                                                                         *)
(* A character stands for its class: "x" is an atom character without a    *)
(* role of its own, "ctl" a control character, "N" spells NIL, and "S", "B" *)
(* and "C" are words that only a reader of tokens tells apart.             *)
(***************************************************************************)
EXTENDS Integers, Sequences, FiniteSetsExt

CONSTANTS
    Inputs,      \* what a server may send in all
    MaxToken,    \* limits.max_token_bytes
    MaxLiteral,  \* limits.max_literal_bytes
    MaxDepth,    \* limits.max_depth
    MaxNumber    \* kMaxNumber

VARIABLES
    input,    \* everything the server sends
    at,       \* offset of the first byte that belongs to no token yet
    depth,    \* open parentheses and brackets of the line
    literal,  \* bytes left of the literal being delivered, or NoLiteral
    token,    \* the last token
    error,    \* the error every further call returns, or NoError
    ended     \* the input was reported to have ended between lines

vars == <<input, at, depth, literal, token, error, ended>>

Modes == {"normal", "astring", "text", "resp_text", "code_name", "code_text"}

NoLiteral == -1
NoError == [kind |-> "none", at |-> 0]
NoToken == [kind |-> "none", spaces |-> 0, first |-> 0, len |-> 0, number |-> 0]

Digits == {"0", "1", "9"}
DigitValue(c) == CASE c = "0" -> 0 [] c = "1" -> 1 [] c = "9" -> 9
Controls == {"cr", "lf", "nul", "ctl"}
Structural == {"(", ")", "[", "]", "{", "quote"}
Others == {"x", "N", "S", "B", "C", "*", "+", "~", "}", "slash"}
Characters == Digits \cup Controls \cup Structural \cup Others \cup {"sp"}

-----------------------------------------------------------------------------
(* The whole input, by offset.                                             *)

Length == Len(input)
At(o) == input[o + 1]

\* The end of the longest run of characters of S that starts at o.
RunEnd(o, S) == Min({i \in o..(Length - 1) : At(i) \notin S} \cup {Length})

\* What is read at an offset: a token with its length, or an error.
Good(kind, len, n) ==
    [kind |-> kind, len |-> len, number |-> n, bad |-> FALSE, at |-> 0]
Bad(kind, o) == [kind |-> kind, len |-> 0, number |-> 0, bad |-> TRUE, at |-> o]

\* The value of the digits from a up to b, and the first one that is too many.
Value(a, b) ==
    LET V[i \in a..b] == IF i = a THEN 0 ELSE 10 * V[i - 1] + DigitValue(At(i - 1))
    IN  V[b]
TooLarge(a, b) == {i \in a..(b - 1) : Value(a, i + 1) > MaxNumber}

Eol(o) ==
    IF At(o) = "lf" THEN Bad("bad_line_ending", o)
    ELSE IF o + 1 = Length THEN Bad("unexpected_end", Length)
    ELSE IF At(o + 1) # "lf" THEN Bad("bad_line_ending", o)
    ELSE Good("eol", 2, 0)

Bracket(kind, o) ==
    IF kind \in {"lparen", "lbracket"} /\ depth = MaxDepth
      THEN Bad("nesting_too_deep", o)
      ELSE Good(kind, 1, 0)

Run(kind, o, S) ==
    LET e == RunEnd(o, S) IN
    IF e - o > MaxToken THEN Bad("token_too_long", o) ELSE Good(kind, e - o, 0)

AtomChars == Digits \cup Others

Word(o) ==
    LET e == RunEnd(o, AtomChars) IN
    IF e - o > MaxToken \/ ~(\A i \in o..(e - 1) : At(i) \in Digits)
      THEN IF e = o + 1 /\ At(o) = "N" THEN Good("nil", 1, 0)
                                       ELSE Run("atom", o, AtomChars)
      ELSE IF TooLarge(o, e) # {} THEN Bad("number_too_large", Min(TooLarge(o, e)))
      ELSE Good("number", e - o, Value(o, e))

\* Free text. A NUL is refused where the text could have gone on.
Text(o, stops) ==
    LET e == RunEnd(o, Characters \ (stops \cup {"nul"})) IN
    IF e - o > MaxToken \/ (e - o = MaxToken /\ e < Length /\ At(e) = "nul")
      THEN Bad("token_too_long", o)
      ELSE IF e < Length /\ At(e) = "nul" THEN Bad("invalid_character", e)
      ELSE Good("text", e - o, 0)

\* A character is escaped when an odd number of backslashes leads up to it.
Escaped(o, i) ==
    LET n == CHOOSE n \in 0..(i - o - 1) :
                /\ \A j \in (i - n)..(i - 1) : At(j) = "slash"
                /\ n < i - o - 1 => At(i - n - 1) # "slash"
    IN  n % 2 = 1

Quoted(o) ==
    LET Ends(i) == IF Escaped(o, i) THEN At(i) \notin {"quote", "slash"}
                                    ELSE At(i) \in {"quote", "cr", "lf", "nul"}
        ends == {i \in (o + 1)..(Length - 1) : Ends(i)}
        e == IF ends = {} THEN Length ELSE Min(ends)
    IN  IF e - o >= MaxToken /\ o + MaxToken < Length THEN Bad("token_too_long", o)
        ELSE IF e = Length THEN Bad("unexpected_end", Length)
        ELSE IF Escaped(o, e) THEN Bad("bad_escape", e)
        ELSE CASE At(e) = "quote" -> Good("quoted", e - o + 1, 0)
               [] At(e) = "nul" -> Bad("invalid_character", e)
               [] OTHER -> Bad("unterminated_quoted", e)

\* {n} or {n+}, behind a tilde for a literal8, and CRLF.
Header(o) ==
    LET a == o + IF At(o) = "~" THEN 2 ELSE 1
        b == RunEnd(a, Digits)
        t == b + IF b < Length /\ At(b) = "+" THEN 1 ELSE 0
        closing == <<"}", "cr", "lf">>
        wrong == {i \in t..(t + 2) :
                    i < Length /\ At(i) # closing[i - t + 1]}
    IN  IF TooLarge(a, b) # {} THEN Bad("number_too_large", Min(TooLarge(a, b)))
        ELSE IF a = b /\ b < Length THEN Bad("bad_literal", b)
        ELSE IF wrong # {} THEN Bad("bad_literal", Min(wrong))
        ELSE IF t + 2 >= Length THEN Bad("unexpected_end", Length)
        ELSE IF Value(a, b) > MaxLiteral THEN Bad("literal_too_large", o)
        ELSE Good("literal_begin", t + 3 - o, Value(a, b))

General(o, m) ==
    LET c == At(o) IN
    CASE c = "(" -> Bracket("lparen", o)
      [] c = ")" -> Bracket("rparen", o)
      [] c = "[" /\ m = "normal" -> Bracket("lbracket", o)
      [] c = "]" /\ m = "normal" -> Bracket("rbracket", o)
      [] c = "quote" -> Quoted(o)
      [] c = "{" \/ (c = "~" /\ o + 1 < Length /\ At(o + 1) = "{") -> Header(o)
      [] c \in Controls -> Bad("invalid_character", o)
      [] OTHER -> IF m = "normal" THEN Word(o)
                                  ELSE Run("atom", o, AtomChars \cup {"[", "]"})

\* What stands at an offset that holds no space, read in a mode.
ReadAt(o, m) ==
    LET c == At(o) IN
    CASE c \in {"cr", "lf"} -> Eol(o)
      [] c \notin {"cr", "lf"} /\ m \in {"normal", "astring"} -> General(o, m)
      [] c = "[" /\ m = "resp_text" -> Bracket("lbracket", o)
      [] c = "]" /\ m \in {"code_name", "code_text"} -> Bracket("rbracket", o)
      [] c \in AtomChars /\ m = "code_name" -> Run("atom", o, AtomChars)
      [] OTHER -> Text(o, {"cr", "lf"} \cup
                          IF m \in {"code_name", "code_text"} THEN {"]"} ELSE {})

DepthAfter(kind) ==
    CASE kind \in {"lparen", "lbracket"} -> depth + 1
      [] kind \in {"rparen", "rbracket"} -> Max({depth - 1, 0})
      [] kind = "eol" -> 0
      [] OTHER -> depth

-----------------------------------------------------------------------------

Init ==
    /\ input \in Inputs
    /\ at = 0
    /\ depth = 0
    /\ literal = NoLiteral
    /\ token = NoToken
    /\ error = NoError
    /\ ended = FALSE

\* The first error is final. Where the lexer stands then is of no consequence.
Fails(kind, o) ==
    /\ error' = [kind |-> kind, at |-> o]
    /\ at' \in Nat
    /\ UNCHANGED <<depth, literal, token>>

SpacesAt == RunEnd(at, {"sp"}) - at

\* The next whole token, behind its spaces.
Token(m) ==
    LET o == at + SpacesAt
        r == ReadAt(o, m)
    IN  /\ literal = NoLiteral /\ error = NoError
        /\ SpacesAt <= MaxToken
        /\ o < Length
        /\ IF r.bad
             THEN Fails(r.kind, r.at)
             ELSE /\ token' = [kind |-> r.kind, spaces |-> SpacesAt, first |-> o,
                               len |-> r.len, number |-> r.number]
                  /\ at' = o + r.len
                  /\ depth' = DepthAfter(r.kind)
                  /\ literal' = IF r.kind = "literal_begin" THEN r.number
                                                            ELSE NoLiteral
                  /\ UNCHANGED error
        /\ UNCHANGED <<input, ended>>

TooManySpaces ==
    /\ literal = NoLiteral /\ error = NoError
    /\ SpacesAt > MaxToken
    /\ Fails("token_too_long", at + MaxToken)
    /\ UNCHANGED <<input, ended>>

\* The input is over. Nothing was read of a line yet, or the line is cut short.
Over ==
    /\ literal = NoLiteral /\ error = NoError
    /\ SpacesAt <= MaxToken
    /\ at + SpacesAt = Length
    /\ IF token.kind \in {"none", "eol"} /\ SpacesAt = 0
         THEN ended' = TRUE /\ UNCHANGED <<at, depth, literal, token, error>>
         ELSE Fails("unexpected_end", Length) /\ UNCHANGED ended
    /\ UNCHANGED input

\* Literal content comes in pieces of any size, exactly as much as announced.
LiteralData(n) ==
    /\ error = NoError
    /\ n \in 1..literal /\ at + n <= Length
    /\ token' = [kind |-> "literal_data", spaces |-> 0, first |-> at,
                 len |-> n, number |-> 0]
    /\ at' = at + n
    /\ literal' = literal - n
    /\ UNCHANGED <<input, depth, error, ended>>

LiteralEnd ==
    /\ error = NoError
    /\ literal = 0
    /\ token' = [kind |-> "literal_end", spaces |-> 0, first |-> at,
                 len |-> 0, number |-> 0]
    /\ literal' = NoLiteral
    /\ UNCHANGED <<input, at, depth, error, ended>>

LiteralCutShort ==
    /\ error = NoError
    /\ literal > 0 /\ at = Length
    /\ Fails("unexpected_end", Length)
    /\ UNCHANGED <<input, ended>>

Next ==
    \/ \E m \in Modes : Token(m)
    \/ TooManySpaces
    \/ Over
    \/ \E n \in 1..literal : LiteralData(n)
    \/ LiteralEnd
    \/ LiteralCutShort

Spec == Init /\ [][Next]_vars
=============================================================================
