------------------------------ MODULE ImapProbe ------------------------------
(***************************************************************************)
(* crimson-imap-probe (tools/imap-probe/main.cpp): the one program of the  *)
(* repository that puts the whole stack to work. It reads a greeting,      *)
(* sends two commands, reads until each is answered, and may record what   *)
(* it read.                                                                *)
(*                                                                         *)
(* The server is in lockstep with it. What it sends comes in blocks, the   *)
(* greeting first and then an answer to each command, and a block is on    *)
(* its way once its command was sent. After its last block the server      *)
(* closes, or is silent until the read times out.                          *)
(***************************************************************************)
EXTENDS ResponseReader, SequencesExt

CONSTANT
    Sessions   \* sequences of blocks: what a server sends

ASSUME ProbeAssumption ==
    /\ Sessions \subseteq Seq(Seq(Promise!Characters)) \ {<<>>}
    /\ \A s \in Sessions : FlattenSeq(s) \in Inputs

VARIABLES
    session,     \* the server's blocks; `input` is what they add up to
    wants,       \* record_path # nullptr
    pc,          \* where main is
    sent,        \* how many commands were sent
    index,       \* tokens of the response so far, two standing for more
    summary,     \* the response's ResponseSummary
    sawLiteral,  \* saw_literal
    whole,       \* recorded_ holds every byte that was read
    overflowed,  \* overflowed_
    headers,     \* history: where the literals began that were read
    code         \* the exit code, or Running

setVars == <<session, wants>>
mainVars == <<setVars, pc, sent, index, summary, sawLiteral, headers, code>>
recordVars == <<whole, overflowed>>
probeVars == <<readerVars, mainVars, recordVars>>

\* What only the calls of next() change.
idleVars == <<setVars, readerVars, headers, recordVars>>

Running == -1
NoSummary == [tag |-> <<>>, kind |-> "none", bye |-> FALSE, literal |-> FALSE]

\* The tags of the commands: a1 and a2.
Tag(k) == <<"x", IF k = 1 THEN "1" ELSE "9">>

\* Where in the input a block ends, and how much of it the server has sent, or
\* is sending.
BlockEnd(i) == Len(FlattenSeq(SubSeq(session, 1, i)))
Due == BlockEnd(Min({sent + 1, Len(session)}))
LastBlock == sent + 1 >= Len(session)

ProbeInit ==
    /\ ReaderInit
    /\ session \in Sessions
    /\ input = FlattenSeq(session)
    /\ wants \in BOOLEAN
    /\ pc = "setup"
    /\ sent = 0
    /\ index = 0
    /\ summary = NoSummary
    /\ sawLiteral = FALSE
    /\ whole = TRUE
    /\ overflowed = FALSE
    /\ headers = {}
    /\ code = Running

-----------------------------------------------------------------------------
(* main() and read_response().                                             *)

GoesTo(p) == pc' = p /\ UNCHANGED <<idleVars, sawLiteral, index, summary, sent, code>>

Exits(c) ==
    /\ pc' = "exited"
    /\ code' = c
    /\ UNCHANGED <<idleVars, sawLiteral, index, summary, sent>>

\* Another response is read from its first token.
Responds ==
    /\ pc' = "next"
    /\ index' = 0
    /\ summary' = NoSummary
    /\ UNCHANGED <<idleVars, code>>

\* Bad arguments, and failures of Winsock, the credentials and the connection.
SetupFails == pc = "setup" /\ \E c \in {1, 2} : Exits(c)

Connected == pc = "setup" /\ Responds /\ UNCHANGED <<sent, sawLiteral>>

\* reader.next() is called.
NextToken ==
    /\ pc = "next"
    /\ call = "idle" /\ Ask
    /\ pc' = "reading"
    /\ UNCHANGED <<setVars, headers, recordVars, sawLiteral, index, summary, sent, code>>

\* RecordingStream::read(): a copy of what was read, memory permitting.
Records(n) ==
    \/ UNCHANGED recordVars
    \/ n > 0 /\ whole' = FALSE /\ overflowed' = TRUE

\* Bytes come as far as the server has sent them, and the end when it has
\* nothing more to send.
ServerSends ==
    \E n \in 0..Min({ReadChunk, Due - fed}), eof \in BOOLEAN :
        /\ StreamReads(n, eof)
        /\ eof => LastBlock
        /\ Records(n)

InsideNext ==
    /\ pc = "reading"
    /\ \/ ServerSends
       \/ /\ \/ call = "again" /\ Ask
             \/ Lex \/ StreamFails \/ StreamStalls \/ LexerRefuses \/ InputEnds
             \/ Refuse \/ PassLiteral \/ EndLine \/ Start \/ Advance
          /\ UNCHANGED recordVars
    /\ UNCHANGED mainVars

Answered(r) == pc = "reading" /\ call = "idle" /\ outcome \in r

\* A response that cannot be read, in the greeting or after it.
ReadFailed == Answered(Errors) /\ Exits(1)

\* Mutants: the end leaves the inner of the two loops only, or neither.
AfterEnd_InnerLoop == IF sent < 2 THEN "send" ELSE "close"
AfterEnd_Neither == "next"

AfterEnd == "close"

\* The server closed between two responses: without a greeting, or after it.
ServerClosed ==
    /\ Answered({"end"})
    /\ IF sent = 0 THEN Exits(1) ELSE GoesTo(AfterEnd)

\* What a token adds to the summary.
Noted ==
    [summary EXCEPT
        !.tag = IF index = 0 THEN SubSeq(input, token.first + 1, token.first + token.len)
                             ELSE @,
        !.kind = IF index = 0 THEN kind ELSE @,
        !.bye = IF index = 1 THEN IsWord("B") ELSE @,
        !.literal = @ \/ token.kind = "literal_begin"]

ResponseEnds == token.kind = "eol" /\ state = "start"

TokenWithin ==
    /\ Answered({"token"})
    /\ ~ResponseEnds
    /\ pc' = "next"
    /\ index' = Min({index + 1, 2})
    /\ summary' = Noted
    /\ headers' = IF token.kind = "literal_begin" THEN headers \cup {token.first}
                                                  ELSE headers
    /\ UNCHANGED <<setVars, readerVars, recordVars, sawLiteral, sent, code>>

\* Greeted, unless the server takes its leave with it.
Greeting ==
    /\ Answered({"token"})
    /\ ResponseEnds
    /\ sent = 0
    /\ IF Noted.bye THEN Exits(1) ELSE GoesTo("send")

\* Mutant: the last response says whether there was a literal.
LiteralsSoFar_Last == summary.literal
LiteralsSoFar == sawLiteral \/ summary.literal

\* Any response to a command: the tagged one with its tag is the last.
Response ==
    /\ Answered({"token"})
    /\ ResponseEnds
    /\ sent > 0
    /\ sawLiteral' = LiteralsSoFar
    /\ IF summary.kind = "tagged" /\ summary.tag = Tag(sent)
         THEN /\ pc' = IF sent < 2 THEN "send" ELSE "close"
              /\ UNCHANGED <<idleVars, index, summary, code>>
         ELSE Responds
    /\ UNCHANGED sent

\* send_command(), all of it or not.
Command ==
    /\ pc = "send"
    /\ sent' = sent + 1
    /\ Responds
    /\ UNCHANGED sawLiteral

CommandFails == pc = "send" /\ Exits(1)

\* Not with a copy that is incomplete or holds a literal.
MayRecord == ~overflowed /\ ~sawLiteral

\* write_recording(): the file is written or it is not.
WriteRecording == Exits(0) \/ Exits(1)

\* shutdown_send, whose result is ignored, and the recording.
Finishes ==
    /\ pc = "close"
    /\ IF ~wants THEN Exits(0)
       ELSE IF MayRecord THEN WriteRecording
       ELSE Exits(1)

Main ==
    \/ Connected \/ SetupFails
    \/ NextToken \/ InsideNext
    \/ ReadFailed \/ ServerClosed
    \/ TokenWithin \/ Greeting \/ Response
    \/ Command \/ CommandFails
    \/ Finishes

ProbeSpec == ProbeInit /\ [][Main]_probeVars

\* The program runs. A read returns, since it times out, and so does the
\* sending of two short commands, for which the system has room without the
\* server's doing.
ProbeFairSpec == ProbeSpec /\ WF_probeVars(Main)

-----------------------------------------------------------------------------
(* What the probe promises, and what it relies on below.                   *)

\* Every variable has its type, those of the reader and the lexer included.
ProbeTypeOK ==
    /\ ReaderTypeOK
    /\ session \in Sessions
    /\ {wants, sawLiteral, whole, overflowed} \subseteq BOOLEAN
    /\ pc \in {"setup", "next", "reading", "send", "close", "exited"}
    /\ sent \in 0..2 /\ index \in 0..2
    /\ summary.kind \in {"none", "tagged", "untagged", "continuation"}
    /\ \A o \in headers : o < pos
    /\ code \in {Running, 0, 1, 2}

\* What the server sends, read off the whole of it.
Told(sequence) == INSTANCE Responses WITH
    input <- sequence,
    Tags <- <<Tag(1), Tag(2)>>

\* The server answers: a block that another one follows ends where the greeting,
\* or the answer to its command, ends, and not before or after it.
ServerAnswers ==
    \A i \in 1..(Len(session) - 1) :
        /\ i <= Len(Told(input)!AnswerEnds)
        /\ Told(input)!AnswerEnds[i] = BlockEnd(i)

\* The client and the server never wait for each other: while the server waits
\* for a command, what it has sent is enough for the probe to go on without
\* reading more (lexer.cpp:185, response_reader.cpp:86, main.cpp:377-391).
NeverBothWait ==
    call = "asked" /\ status = "need_more" /\ fed = Due /\ ~LastBlock =>
        ~ServerAnswers

\* A command is sent when all that the server had to say before it was read,
\* its answer to the one before included, whatever stands in literals and free
\* text and under other tags; and never to a server that has closed.
CommandsInTurn ==
    [][sent' # sent => /\ outcome # "end"
                       /\ LastBlock \/ pos = Due \/ ~ServerAnswers]_probeVars

\* A recording that was written holds every byte the reader was given, and no
\* literal follows the greeting in it, whose length redaction might falsify
\* (main.cpp:402-412).
RecordingIsWhole ==
    wants /\ code = 0 =>
        /\ whole
        /\ \A o \in headers : o < Len(session[1])

\* The probe ends, whatever the server sends and wherever it stops.
ProbeEnds == <>(pc = "exited")
=============================================================================
