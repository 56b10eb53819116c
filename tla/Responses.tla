------------------------------ MODULE Responses ------------------------------
(***************************************************************************)
(* The responses of a server, read off the complete input: as if there     *)
(* were no reads, no lexer that suspends its tokens, and no reader that    *)
(* asks for them one by one. What ResponseReader and the probe do with     *)
(* bytes as they arrive is measured by it.                                 *)
(*                                                                         *)
(* A response is a line of tokens, of which the first is a tag, * or +. A  *)
(* literal does not end the line it stands in, and free text, behind a     *)
(* status keyword or a +, holds no tokens but one (response_reader.h:18).  *)
(***************************************************************************)
EXTENDS Integers, Sequences

CONSTANTS
    Inputs, MaxToken, MaxLiteral, MaxDepth, MaxNumber,   \* as in TokenStream
    Tags         \* the tags of the commands, in the order they are sent in

VARIABLE
    input        \* everything the server sends

\* The tokens at any offset, but for the limit on nesting.
Whole == INSTANCE TokenStream WITH
    at <- 0, depth <- 0, literal <- -1, ended <- FALSE,
    token <- [kind |-> "none"], error <- [kind |-> "none"]

-----------------------------------------------------------------------------
(* A place is one between two tokens: its offset, behind a literal that was *)
(* announced there, the part of a response that comes next, the brackets   *)
(* that are open in a structured code, the first token of the response,    *)
(* and where the answers ended that came before: the greeting first, and   *)
(* then the tagged response to each command.                               *)

FirstPlace == [at |-> 0, part |-> "start", open |-> 1, tag |-> <<>>, ends |-> <<>>]

Mode(part) ==
    CASE part \in {"resp_text", "code_name", "code_text"} -> part
      [] part = "text_rest" -> "text"
      [] OTHER -> "normal"

\* The token that comes next, behind spaces.
Start(p) == Whole!RunEnd(p.at, {"sp"})
Read(p) == Whole!ReadAt(Start(p), Mode(p.part))
Text(p) == SubSeq(input, Start(p) + 1, Start(p) + Read(p).len)
IsWord(p, c) == Read(p).kind = "atom" /\ Text(p) = <<c>>

Readable(p) ==
    /\ Start(p) < Len(input)
    /\ ~Read(p).bad
    /\ p.part = "start" => Read(p).kind \in {"atom", "number"}

OpenAfter(p) ==
    IF p.part # "code_args" THEN 1
    ELSE p.open + CASE Read(p).kind = "lbracket" -> 1
                    [] Read(p).kind = "rbracket" -> -1
                    [] OTHER -> 0

\* The part behind an inner token of the line.
PartBehind(p) ==
    CASE p.part = "start" -> IF IsWord(p, "+") THEN "text_rest" ELSE "second"
      [] p.part = "second" ->
           IF IsWord(p, "S") \/ IsWord(p, "B") THEN "resp_text" ELSE "data"
      [] p.part = "resp_text" ->
           IF Read(p).kind = "lbracket" THEN "code_name" ELSE "text_rest"
      [] p.part = "code_name" ->
           IF Read(p).kind = "rbracket" THEN "text_rest"
           ELSE IF IsWord(p, "C") THEN "code_args" ELSE "code_text"
      [] p.part = "code_args" -> IF OpenAfter(p) = 0 THEN "text_rest" ELSE "code_args"
      [] p.part = "code_text" ->
           IF Read(p).kind = "rbracket" THEN "text_rest" ELSE "code_text"
      [] OTHER -> p.part

PartAfter(p) ==
    CASE Read(p).kind = "eol" -> "start"
      [] Read(p).kind = "literal_begin" -> p.part
      [] OTHER -> PartBehind(p)

EndAfter(p) ==
    Start(p) + Read(p).len +
        IF Read(p).kind = "literal_begin" THEN Read(p).number ELSE 0

\* Any response is a greeting, and the answer to a command has its tag.
Answers(p) ==
    /\ Read(p).kind = "eol"
    /\ \/ p.ends = <<>>
       \/ Len(p.ends) <= Len(Tags) /\ p.tag = Tags[Len(p.ends)]

Behind(p) ==
    [at   |-> EndAfter(p),
     part |-> PartAfter(p),
     open |-> OpenAfter(p),
     tag  |-> IF p.part = "start" THEN Text(p) ELSE p.tag,
     ends |-> IF Answers(p) THEN Append(p.ends, EndAfter(p)) ELSE p.ends]

NextPlace(p) == IF Readable(p) THEN Behind(p) ELSE p

\* The place behind so many tokens, or where there is nothing more to read. No
\* token is empty, so that there are no more of them than bytes.
Place[n \in 0..Len(input)] ==
    IF n = 0 THEN FirstPlace ELSE NextPlace(Place[n - 1])

\* Where the answers end.
AnswerEnds == Place[Len(input)].ends
=============================================================================
