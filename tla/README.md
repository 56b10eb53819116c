# Crimson: verification models

TLA+ models of Crimson's network and IMAP tokenizing layers
(`src/src/platform/windows/net`, `src/src/protocols/imap`,
`src/src/core/net`) and of the program that puts them to work
(`src/tools/imap-probe`), checked with TLC on small instances. Every safety
property and every refinement that holds is also proved with TLAPS, for all
instances; liveness is left to TLC.
File names below are relative to those directories in the tree
beside this one.

## The system

Crimson is, at this commit, a blocking network stack, a tokenizer on top of it
and two diagnostic programs. Nothing is persisted; the only concurrency is a
second thread that cancels.

    imap-probe, net-smoke                       tools
         |
    ResponseReader -> Lexer                     protocols/imap
         |
     ByteStream (interface), stream helpers     core/net
         |              |
     TlsStream ----> TcpStream <--- CancelHandle (any thread)
                        |                        platform/windows/net
                 resolver, Winsock

| component | state it keeps | operations | what makes it hard | what makes it correct |
|---|---|---|---|---|
| Cancellation (`cancel.cpp`) | per handle: `requested` (atomic), `socket` under `mutex` | `cancel()` on any thread; attach and take by the owner | `CancelIoEx` against `closesocket`; descriptors are recycled; a flag tested before a blocking call | a cancel reaches the connection it is meant for, or nothing; at most one call slips through, and it is bounded |
| TcpStream (`tcp_stream.cpp`) | socket, handle, addresses | `connect`, `read`, `write_some`, `shutdown_send`, `close`, move assignment | every path out of `connect` and `operator=` owns a descriptor; partial failure after the race is won | each descriptor has one owner; a stream in use can be interrupted |
| Connection race (`TcpStream::connect`) | attempts in flight, next candidate, stagger, best error | one loop over `WSAPoll` | deadlines, staggers, answers and cancellations in any order | losers closed; cap, deadlines, stagger and slice respected; the best error; termination |
| Resolver (`resolver.cpp`) | none | `resolve` | blocks for as long as it likes | a list that is never empty, or an error |
| Lexer (`lexer.cpp`) | buffer, position, suspended scan, spaces, depth, literal, error | `feed`, `finish`, `next(mode)` | a read ends at any byte; modes change; limits | tokens and errors do not depend on the split; bounded waiting; nothing complete is withheld |
| ResponseReader (`response_reader.cpp`) | response state, kind, code depth, a lexer | `next`, `read(mode)` | two state machines that must agree; ends and failures at any read | framing agrees with the lexer; free text is opaque; truncation is an error |
| Stream helpers (`stream_helpers.cpp`) | none | `write_all`, `read_exactly`, `read_to_eof` | short transfers, misbehaving streams, end and cap at once | exact delivery, no spinning |
| TlsStream (`tls_stream.cpp`) | context, two buffers, flags | handshake, `read`, `write_some`, `shutdown_send`, `close` | extra bytes, partial records, close_notify, failure inside a record | each byte once and in order; truncation told from a close |
| imap-probe (`tools/imap-probe/main.cpp`) | the response's summary, `saw_literal`, a copy of what was read | greeting, two commands and their responses, recording | two nested loops; a server that closes at any point; a copy that memory may cut short | neither side waits for the other; commands in turn; whole recordings; it ends |
| Credentials, Winsock runtime, error tables, log, endpoint | next to nothing | | | not modelled, see the end |

Interactions: the reader calls the lexer and reads from a `ByteStream`; a
`TcpStream` shares a `CancelState` with whoever holds its handle, which is the
only shared memory; `connect` takes the flag of that state at every turn of its
loop and attaches the winner to it; `TlsStream` owns a `TcpStream`. The probe
reads through a stream that copies what passes (`RecordingStream`).
Threading rules: one thread owns a stream, reader and lexer; any other thread
may only call `cancel()`.

## The modules

| module | models | lines |
|---|---|---|
| `TcpStream` | cancel.cpp, the life of a `TcpStream`, `SocketHandle`, and the system's table of descriptors | state machine with threads |
| `TcpConnect` | `TcpStream::connect()` with time | state machine that implements the `connect` of `TcpStream` |
| `TokenStream` | what the lexer promises: whole tokens off the complete input | abstract specification |
| `Lexer` | lexer.cpp | state machine that implements `TokenStream` |
| `ResponseReader` | response_reader.cpp over `Lexer` and any `ByteStream` | extends `Lexer` |
| `OrderedStream` | what a `ByteStream` promises its reader | abstract specification |
| `StreamHelpers` | stream_helpers.cpp over any `ByteStream` | state machine |
| `TlsStream` | tls_stream.cpp over a `ByteStream`, with Schannel external | state machine that implements `OrderedStream` |
| `Responses` | the responses that a complete input holds, and where the probe's answers end | recursive function over `TokenStream` |
| `ImapProbe` | imap-probe over the reader, and a server in lockstep | extends `ResponseReader` |
| `TcpStream_proofs`, `TcpConnect_proofs`, `StreamHelpers_proofs`, `TlsStream_proofs`, `Lexer_proofs`, `ResponseReader_proofs`, `ImapProbe_proofs` | theorems about the module each is named for | TLAPS |
| `CommonLemmas` | what those proofs need of sets of numbers and of sequences | TLAPS |
| `MCTcpStream`, `MCTcpConnect`, `MCLexer`, `MCResponseReader`, `MCStreamHelpers`, `MCTlsStream`, `MCImapProbe` | the instances for TLC | |

A definition named `X_Something` right before `X`, with a comment that says
"Mutant", is `X` with a plausible bug, used to show that a property is not
vacuous; nothing refers to it. The small operators that such a pair replaces are
named for the line of code the bug would be in. (`Call_...` in `TcpConnect` and
`Reader_status` in `TlsStream` are parts of refinement mappings.)

### TcpStream

`requested`, `attached` and `mutex` are the fields of each handle's
`CancelState`; `stream[w]` is the `TcpStream` object thread `w` owns, `fresh[w]`
the socket and handle inside a running `connect()`, `pc` and `cpc` where each
thread is. `owner` and `io` are the kernel's: whose socket a descriptor is and
whether a blocking call is pending or aborted on it. A closed descriptor may at
once be given to the other thread, which is what the mutex is about.

Steps are the points between which another thread can act. `Cancel`, `CancelLock`
and `CancelIo` are the three parts of `cancel()`: publish the flag, take the
mutex and look at the socket, call `CancelIoEx` and release. The mutex is held
across `CancelIo`, so `Attach` and `Take` wait for it. `Take`, `Reset` and
`Adopt` are `close()` and move assignment; `ReadChecks`/`WriteChecks` and
`Enter` are the two sides of the window described in cancel.h:48-54.
`BuildThrows` is `std::bad_alloc` between the attach and the construction of the
stream, enabled by `BuildMayThrow`.

### TcpConnect

Attempts are known by their ordinal. `interleave_by_family` (`PlacesOf` is its
first loop, which deals the candidates into two vectors), `definiteness` and
`remember`, each branch of the loop and each step of the lambda `finish` have an
operator or action of their own. Time is discrete and passes where the thread
blocks; `wake` is the timeout given to `WSAPoll` or to the sleep. The network
answers any pending attempt at any moment (`Answer`), the flag is set at any
moment (`CancelRequest`), and memory may run out while the stream is built
(`Build`) and while an attempt is set up (`Unwinds`). `Sleep`
(tcp_stream.cpp:367-373) is reached only with `max_in_flight` = 0, which nothing
validates: no attempt ever starts, and the overall timeout ends the call.

`ImplementsConnect` connects this module with `TcpStream`: under the mapping at
its end, every step of the race is a step of `TcpStream`'s `connect` by one
worker (`Connect`, `ConnectFails`, `ConnectWins`, `RestoreFails`, `Attach`,
`Build`, `BuildThrows`, `Discard`), the first half of its `Cancel`, or a
stutter. What is proved of `TcpStream` about descriptors and cancellation is
thereby said of the race that wins the descriptor.

### TokenStream and Lexer

The input is a sequence of character classes, and a token is an interval of it,
so "lossless" is that intervals are adjacent, which the abstract specification
states by construction (`at' = o + r.len`). `TokenStream!Token(m)` reads the next
whole token declaratively (the longest run, the first character that is not
escaped, the first digit too many). `Lexer` keeps what the code keeps: how much
was fed, what is consumed, the suspended scan with its mode, length and escape.
One call of `next` is `Enter` (failed and literal cases: `NextFailed`,
`NextLiteral`), then one of the `Lex...` actions. `TokensOfTheWhole` is the
refinement: `Lexer` with `at <- pos - spaces` implements `TokenStream`, where
feeding, suspending and resuming stutter. Every error, with its offset, is part
of it. NIL and the words the reader knows are single characters (`N`, `S`, `C`).

### ResponseReader

`Ask`, `Lex`, then one action per outcome; `StreamReads(n, eof)` covers every
result the stream contract allows, `StreamStalls` the one it forbids.
`CallsAgain` says whether the caller goes on after an error; the documents say
that it must not.

### StreamHelpers

A byte is its place in what is sent, so "each byte once and in order" is an
equation between sequences. `Begin` is a call, `Ask` one turn of its loop;
`WriteSome`, `ReadExactlyReads` and `ReadToEofReads` are the stream's good
answers with what the helper does with them, `...Fails` its errors, `...IsBroken`
(when `Faulty`) answers that byte_stream.h forbids, which the helpers must catch.
The vector of `read_to_eof` is resized as in the code, stale contents included,
and may fail to grow (`ReadToEofThrows`).

### OrderedStream

A peer sends `length` bytes and then leaves off: with a goodbye, in silence
between two units, or inside one. `Read` returns the next bytes, the end, or both,
and a torn end is never reported as one; `Over` is an error or a close. It is the
half of byte_stream.h that its readers rely on.

### TlsStream

The server is a script of records and a place where its connection ends. The
state is the class's: `incoming_` is the interval from `consumed` to `fed` of the
script, `plaintext_` an interval of the plaintext, and the flags keep their
names. `pc` tells where in `negotiate`, `read` and `fill_incoming` the thread is;
`back` is `fill_incoming`'s caller. What is external is Schannel: a whole record is
accepted or refused by its kind, a partial one is `SEC_E_INCOMPLETE_MESSAGE`, with
or without a count of missing bytes (`Missing`), and `DecryptMessage` may report
the last data together with the close_notify. `write_all` on the stream below is
one step that sends a whole record or fails and leaves a torn one: that it does
one or the other is `StreamHelpers!WritesAreWhole`. `Moved` says what the move
out of `wrap()` carries over: everything, ciphertext that was read ahead
included. `ReadsInOrder` is the refinement of `OrderedStream`: the plaintext due to
the reader and the way the server leaves off follow from the script and the cut
(`Due`), `status` from what reads have reported.

The caller may read, write, shut down and close in any order. After an error it
only closes, except after one marked `Retry::same_socket` (result `transient`)
from a read or from the half-close below, after which it may go on. A send that
fails is taken to end the session: the interface has no way to send the rest of
a record, and blocking sockets report no transient error from `send` in the way
the code uses them.

### Responses

Where `TokenStream` reads one token off the complete input, in a mode it is given,
`Responses` reads all of them: the modes follow from the input, since the reader
chooses them by the tokens before. `Place[n]` is where `n` tokens lead: the
offset, the part of the response that comes next (a reader's `State`; `code_close`
is `code_text`, which is read and left alike), the brackets open in a structured
code, the tag, and where the greeting and the answers before ended. A literal is
one step from its header to behind its content. Where nothing more can be read,
the place stays. `AnswerEnds` is what the whole input comes to. Nothing here
knows of reads, splits, suspended tokens or calls.

### ImapProbe

`pc` says where `main` is, inside `read_response` or around it; the reader and the
lexer are those of `ResponseReader` and `Lexer`, step by step, so that the run is a
composition of three components with a server. The server sends its greeting at
once and its answer to a command when that was sent (`Due`), then closes or falls
silent. `ServerAnswers` says that a server does its part: each block that another
one follows ends exactly where, in the terms of `Responses` (`Told`), the greeting or
the answer to its command ends. A server that says too little makes a client
wait, one that says too much is read ahead of; neither is the probe's doing, so
`NeverBothWait` and half of `CommandsInTurn` speak of servers that answer. All 65 of the
run do. Responses are summed up as in the code: the first token and the kind, BYE
in second place, literals anywhere. `Records` is the copy of what passes, which
may miss bytes when memory runs out. `headers` is a history variable: where literals
began. What is printed is left out, and so are the substitutes that
`redact_addresses` puts into a recording.

## The runs

| run | instance | shows |
|---|---|---|
| `tcp_safety` | 2 owners, 1 canceller, 3 handles, 2 descriptors, one handle per connection | own-socket cancellation, no spurious cancellation, descriptors, interruptibility, one late call |
| `tcp_live` | 1 owner, 1 canceller, 2 handles, exceptions possible | a cancelled reader gets out |
| `tcp_write` | as above, 1 handle | **violated**: a cancelled writer may stay in `send` for ever |
| `tcp_throw` | 2 owners, 1 descriptor, exceptions possible | **violated**: a cancel aborts another connection's call after an exception in `finish` |
| `connect` | all lists of 1 to 3 candidates over two families, 2 error classes, at most 0, 1 or 2 in flight | sockets, deadlines and stagger, no spinning but one, cancellation within a slice, the best error, fair interleaving, termination; it implements `TcpStream`'s `connect` |
| `lexer` | every pair of 27 fragments, every triple of 5; all splits, all modes, a change of mode at any call | `Lexer` implements `TokenStream`; waits are bounded; complete lines are delivered |
| `lexer_header` | one header with leading zeros | **violated**: a header's length is bounded |
| `reader` | every pair of 16 lines; reads of 0 to 4 bytes, ends, failures, stalls | framing, opacity, clean ends, bounded buffer, `next()` returns |
| `probe` | 65 servers: 3 greetings, 3 answers, 5 last blocks; reads of up to 4 bytes in any pieces | neither side waits for the other, commands in turn, whole recordings, the program ends |
| `reader_sticky` | one line that starts with a parenthesis | **violated**: a syntax error leaves the lexer failed |
| `helpers` | a peer of 6 bytes, calls for 0, 1, 3 or 5, chunks of 2, a stream that may break its contract | exact delivery, honest ends, no spinning |
| `tls` | 103 servers of 2 to 4 records, cut at every byte; chunk 3, limit 8, buffers of 1 and 2 | it implements `OrderedStream` (nothing lost, honest ends); limits, no wait for a record that is there, a sound wire, calls return |

The violated properties are what a comment or a document says, quoted in
`PROJECT.json` under `findings`; each is a disagreement between a text and the
code, not an accident of the model.

Why the bounds are enough. `tcp_safety` and
`tcp_live`: calls entered after a cancel are counted up to `MostLate` (2), which
tells one from more. The hazard of `tcp_safety` needs two connections that
share a recycled descriptor and one cancel between them; two owners with two
descriptors and three handles give each owner a reconnect. `connect`: the slice
(2), stagger (3), candidate (7) and overall (9) times are ordered as the
defaults are (0.2, 0.25, 5 and 20 s), none divides another, and three
candidates with two slots exercise the cap, both orders of expiry and the
exhaustion of the list, with one slot a full race with a candidate left, with
none the sleep. `Horizon` (13) lies beyond the last moment at which a call
can still run. `lexer`: limits are small enough (tokens of 4, depth 1,
numbers up to 98, literals up to 8) that every limit is met exactly and exceeded
by some input. `reader`: the compaction threshold (16) lies above what half the
buffer reaches, so that both rules of `feed` matter. `helpers`: sizes lie below,
at and beyond a chunk and beyond what is left, so that cap, chunk and end fall
together in every combination. `tls`: a chunk is longer than most records, so
that one read brings several, and shorter than some, so that one record takes
several; the large records are the longest that fit beside a chunk (5) and some
that do not (6 and 7), so that the buffer grows by both rules and the limit is
met on both sides; `probe`: each
greeting, answer and last block stands for a way to end a line, a tag, a loop or
the connection; the literal (`MaxLiteral` 9) is long enough to hold what looks
like the tagged response; a BYE (`B`) comes with and without the tagged response
after it. `MaxOut` (of `tls`: 3 records, the handshake's included) allows a write,
a close_notify and what must not follow it.

The runs of the connection race, the lexer, the reader, the probe and `TlsStream`
do not check for deadlock: one connect ends, the input is finite, a program has
exited, a session is over. The others
must be able to go on for ever.

## Fairness

`TcpStream!FairSpec`: a thread inside a call keeps running, the kernel completes
aborted calls, and `SO_RCVTIMEO` expires when set. Mutex acquisition is weakly
fair: it is held for one `CancelIoEx` only. Nothing is assumed of the peer, of
how often anyone calls, or that a `send` ever ends.
`TcpConnect!FairSpec`: the thread runs, and time goes on (strongly: a poll with
timeout zero does not stop the clock).
`ResponseReader!ReaderFairSpec`: a call that was begun runs, and a blocking read
returns in some way, which the 60 s read timeout guarantees. No fairness on the
caller.
`ImapProbe!ProbeFairSpec`: the program runs, a read returns (it times out when the
server is silent), and the sending of two short commands returns: the system's
buffers have room for them whatever the server does.
`StreamHelpers!FairSpec` and `TlsStream!FairSpec`: the same, a call that was begun
runs, and the calls of the stream below return in some way.

## What is proved

`TcpStream_proofs` proves, for any sets of threads, handles and descriptors:

* `TypeCorrect`: `Spec => []TypeOK`.
* `DescriptorsAreAccounted`: `Spec => []DescriptorsAccounted`, also with reused
  handles and exceptions. The inductive invariant `DescriptorInv` adds `Shape`,
  which says at which program points `fresh` holds a socket: without it, nothing
  prevents `Discard` from closing a socket that was never won.
* `CancelIsSafe`: if building a stream cannot throw,
  `Spec => []CancelReachesOwnSocket`. The argument is the mutex. `AttachedIsHeld`
  says that a descriptor in a `CancelState` is held, with that handle, by the
  stream or the connect of the thread that owns it; `MutexProtects` that a canceller
  past the test has the mutex and that the handle still has the descriptor it
  read. `Take` is the only way to detach and needs the mutex, and no one closes
  before `Take`, so neither can become false while the canceller is locked. The
  assumption is necessary: run `tcp_throw`.
* `CancellationIsNotSpurious`: under the same assumption,
  `Spec => NoSpuriousCancel`; adds that an aborted call is one whose own handle
  was requested (`AbortInv`).

* `StreamIsInterruptible` and `AtMostOneCallIsLate`: if each handle is given to one
  connection (`~ReuseHandles`, which cancel.h:66 asks for),
  `Spec => []Interruptible` and `Spec => []AtMostOneLateCall`. `Exclusive` says that a
  handle is that of one stream or of one connect in progress, `WinnerIsAttached`
  that there is no moment between the attach and the stream at which a cancel
  would find nothing, `LateIsLast` that the owner of a counted call is inside it.

`TcpConnect_proofs`, for any lists of candidates, errors, limits and times:

* `TypeCorrect`, `SocketsAreAccounted`, `CancelIsSeenSoon` and `WakesInTime`, from
  one invariant. `Shape` says at which points the attempts in flight are those that
  hold a socket and that no ordinal is in flight twice (without it `Erase` could
  leave a socket behind); `Times` that the sample of the clock a turn acts on is
  not older than the last wait; `Flags` that a flag the last look did not show was
  set after it.
* `MostDefiniteIsReported`: `Remembered` adds what the loop has been told but not yet
  looked at, the answers of the last `WSAPoll`.
* `InterleavingStaysFair`: the order of the attempts for lists of every length. The
  loop of `interleave_by_family` is a recursive function; what it collects is
  proved by induction on the length (`PlacesProperties`), and the merge by ranks:
  `Rank` says which element of which family stands at a place, `EveryRank` that
  each one stands somewhere.
* `ConnectIsImplemented`: `Spec => ImplementsConnect`, so that the theorems about
  `TcpStream` speak of the race that wins its descriptor.

`StreamHelpers_proofs`, over any stream, one that breaks its contract included:
`TypeCorrect`, and the action properties `WriteAllIsWhole`, `ReadExactlyIsExact` and
`ReadToEofTellsTheEnd`. `WriteInv` says that the wire of a call is the front of its
buffer, `ReadInv` that the front of the buffer is what was taken from the stream
and how long the vector of `read_to_eof` is meanwhile.

`TlsStream_proofs`, for any scripts, limits and buffers:

* `TypeCorrect`, `NothingIsWithheld`, `FitsOrIsRefused`, `WireStaysSound`. `Boundary`
  says that `incoming_` begins where a record does and `plaintext_` ends there;
  `Asked` that no more is asked for than that record lacks; `Ends` relates the
  flags of the two ends; `Failed` says that a failed call has returned and
  that a closed stream has no context; `Wire` that while something may still be
  sent nothing on the wire is torn.
* `StreamIsOrdered`: `Spec => ReadsInOrder`. `Received` ties what the caller has to
  the start of `plaintext_`.

`Lexer_proofs`, for every input, split, order of calls and modes, and all limits:

* `TypeCorrect`, `NoLineIsWithheld` and `WaitsAreLimited`. Most of the invariant is
  about what the lexer keeps of a token that is still arriving: `Half` says that
  the bytes examined so far are of one token in the mode they were examined in,
  with the state of the escape as the whole string has it; `Entered` that a
  suspended token is only resumed in that mode; `Gap` that the pending spaces are
  the last bytes consumed; `Lines`, `InLiteral` and `Over` where the lexer is.
* `TokensAreOfTheWhole`: `Spec => TokensOfTheWhole`. For each function that `next()`
  dispatches to, an `...Outcome` lemma shows that it waits, or gives or refuses
  what `TokenStream` reads there of the complete input; a step that gives no token
  is a stutter. The two sides compute differently: a number's value by a loop
  with an overflow test against the value itself (`RefusedIsTooLarge`), an escape
  bit by bit against the parity of backslashes (`EscapeIsEscaped`).

`ResponseReader_proofs`, over any stream and with a caller that may go on after
errors:

* `ReaderTypeCorrect`, `ResponsesStayLines`, `TextStaysOpaque`, `EndStaysClean`. The
  invariant adds to the lexer's what holds between the lexer's answer and the
  reader's taking note of it: `Given`, `Asked`, `Framed`, `Brackets`.
* `ReaderKeepsTokens`: `ReaderSpec => TokensOfTheWhole`. A read that brings bytes and
  the end at once is no step of `Lexer` alone, but it is unseen by the promise.
* `BufferStaysBounded`: `[]BufferBounded`, if no literal's header is itself longer than
  the limit on tokens (`HeadersAreShort`). The code does not refuse one that is:
  run `lexer_header`.

`ImapProbe_proofs`, for every session of every server:

* `ProbeImplementsReader`: a step of the probe is a step of the reader or leaves it
  alone; hence `ProbeReadsSoundly`, what was proved of reader and lexer for the
  whole program.
* `ProbeTypeCorrect` and `RecordingStaysWhole`. `Fresh` says that at the start of a
  line nothing is in the summary: the end, which comes at the start of a line only,
  forgets no literal. `Greeted` bounds what was read before the first command by
  the greeting, whose literals `saw_literal` leaves out. What `HeadersNoted` says
  of each literal then follows it through the loops.
* `CommandsFollowResponses`: the part of `CommandsInTurn` that needs no assumption
  about the server.
* `NeitherWaits`: `ProbeSpec => []NeverBothWait`, and `CommandsAreInTurn`:
  `ProbeSpec => CommandsInTurn`, for all sessions. They rest on `PlaceInvariance`, an
  inductive invariant that relates the program to `Responses`: until it stops, probe,
  reader and lexer stand at one place of the complete input. `LexerStands` ties its
  offset to what the lexer has consumed (the spaces it holds not counted, the rest
  of a literal counted as read), `ReaderStands` its part and brackets to the reader's
  state, `TokenStands` says where a token stands that one component has given and
  the next has not yet looked at, `Summarized` and `ProbeStands` that tag and answers are
  the ones the probe has noted. That lexing moves to the next place is the argument
  of `TokensAreOfTheWhole` again (the `...Outcome` lemmas), that the reader picks the
  next part is `ReaderMoves`, that the loops of `main` end at an answer and only there
  is the step of each of the probe's actions.
  From it, `NeitherWaits`: a probe that is still reading stands before the end of the
  answer it is after, and the block that was sent ends there, with a line end. But a
  lexer that asks for more keeps no line end (`NoLineIsWithheld`), so it has consumed
  the whole block and nothing but spaces can lie behind its place.
  `CommandsAreInTurn`: the place at which the probe sends is the end of an answer,
  which is that of the block.

Recursive functions are dealt with by induction over the set of the numbers for
which a fact holds (`SetInduction` in `CommonLemmas`), since the prover cannot use
induction theorems that take an operator.

What the proofs found, and the model or the properties now say: two cases of
`SocketsAccounted` overlapped; a literal's header without digits waited in
`Lexer` for the bytes that close it, where the code refuses it at once; and
`ResponsesAreLines` was false when a stray parenthesis closes a bracket, see below.

Only model-checked: the liveness properties (`CancelEndsReading`, `Terminates`,
`HelpersReturn`, `CallsReturn`, `NextReturns`, `ProbeEnds`), since the prover has
neither fairness nor `ENABLED`. The four properties that are violated are not
theorems, of course; two of them mark what theorems next to them assume:
`CancelIsSafe` that building a stream does not throw (`tcp_throw`), `BufferStaysBounded`
that headers are short (`lexer_header`).

## Not modelled

* Of `TlsStream`: assignment over a stream in use, a handshake that is over with
  the client's first token, empty buffers, and the conversion of the host name.
* Credentials and the Winsock runtime: one acquisition and one release each, in
  an object that owns it. The log: formatting behind a mutex and a saved error
  code. Endpoint and version: values. Error classification: tables from codes to
  categories and texts, of which a model could only be a copy; the ranks that
  choose the reported connect error are in `TcpConnect!Definiteness`.
* `net-smoke`: a straight line through `write_all`, `read_to_eof` and
  `shutdown_send`, each modelled in `StreamHelpers` and `TlsStream`. Of the probe:
  arguments, printing, and the text work of `redact_addresses`.
* The bytes of addresses, tokens and messages. The unescaped string of a quoted
  token, case-insensitive comparison and the exact set of words are left out.
* One handle for several connections at once: cancel.h:66 calls a handle a token
  "for interrupting one connection", and the safety run assumes no more. (With a
  second connection on it, `close()` of the first would detach the second's
  descriptor. Of the theorems, only `StreamIsInterruptible` and `AtMostOneCallIsLate`
  need the assumption.)
* A stream below `TlsStream` that returns neither bytes nor end nor error, on which
  `fill_incoming` would spin: byte_stream.h:59-66 rules it out and no stream of the
  repository does it.

Disagreements between texts and code that were met and have no run of their own:

* `read_to_eof` overwrites `out`, where stream_helpers.h:39 says that it appends
  (stream_helpers.cpp:63). `EndsAreTold` states what the code does.
* While the name is resolved nothing looks at the flag or at the overall deadline
  (tcp_stream.cpp:254), though tcp_stream.h:118-119 speaks of the whole call.
  `CancelSeenSoon` begins where resolution ends.
* `max_depth` limits "Nested `(` and `[`" (imap.md:94, syntax_error.h:31), and bounds
  the lexer's depth. The reader's own count of brackets, `code_depth_`, may exceed
  it: a stray parenthesis lowers the lexer's depth (lexer.cpp:219) and not the
  reader's, so that `[C ( ] ) [` and the like go on. It is harmless: the count ends
  with the line.
* A second `TlsStream::shutdown_send` reports success after the half-close below
  failed (tls_stream.cpp:626).
* The probe's `saw_literal` leaves the greeting out (main.cpp:353), though the
  message it governs speaks of "the traffic" (main.cpp:407). `RecordingIsWhole`
  states what the code does.
* net-smoke's comment says that the response was drained to the end of the
  stream when it shuts down; at the byte limit it was not.

## Plan

Done, in this order: the cancellation protocol and its proofs, the connection
race, the lexer and the reader, the helpers, TLS; the refinements between race
and stream and between TLS and the ordered stream, memory running out, and the
probe; the proofs of the safety properties and refinements, those of the probe
with servers that answer last.

Nothing of the plan is left but what the prover cannot do: liveness. When the
parser of Step 4 comes (response_reader.h:64), it will call `read(mode)` with modes of
its own; `Lexer` and `TokenStream` allow any modes already, and `Responses` would take
its choice in place of `Mode`.
