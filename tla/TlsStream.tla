------------------------------ MODULE TlsStream ------------------------------
(***************************************************************************)
(* Class TlsStream (tls_stream.cpp): TLS records over a ByteStream, on one *)
(* thread. The handshake, read(), write_some(), shutdown_send(), close().  *)
(*                                                                         *)
(* The server sends a script of records and its TCP connection ends after  *)
(* `cut` bytes of them. Ciphertext is known by its offset in the script,   *)
(* plaintext by its number. What Schannel makes of the bytes it is given   *)
(* is external; so is the stream below, which delivers them in any pieces, *)
(* with or without the end in the last one, or fails. write_all() on it is *)
(* one step, which either sends all of a record or fails and tears it      *)
(* (module StreamHelpers).                                                 *)
(***************************************************************************)
EXTENDS Integers, Sequences, FiniteSetsExt

CONSTANTS
    Scripts,       \* what a server may send: sequences of records
    ReadChunk,     \* kReadChunk
    MaxIncoming,   \* kMaxIncoming
    Buffers,       \* sizes of the buffers read() is called with
    MaxOut         \* bound: no write_some, shutdown_send past that many records

Kinds == {"hello", "finished", "data", "ticket", "notify", "alert"}

\* A record: its length, the plaintext in it, and whether Schannel answers it.
Records == {r \in [kind : Kinds, len : Nat \ {0}, data : Nat, answered : BOOLEAN] :
               r.kind = "data" \/ r.data = 0}

ASSUME TlsStreamAssumption ==
    /\ Scripts \subseteq Seq(Records)
    /\ ReadChunk \in Nat \ {0}
    /\ MaxIncoming \in Nat /\ ReadChunk <= MaxIncoming
    /\ Buffers \subseteq Nat \ {0}
    /\ MaxOut \in Nat

VARIABLES
    script,       \* what this server sends
    cut,          \* where its connection ends
    due,          \* the plaintext that arrives whole, and how the server leaves off
    fed,          \* how much of it was read from the stream
    consumed,     \* where incoming_ begins: incoming_used_ is fed - consumed
    capacity,     \* incoming_.size()
    need,         \* need_
    plain,        \* plaintext_: the first number it holds and the one after the last
    innerEof,     \* inner_eof_
    peerClosed,   \* peer_closed_
    noNotify,     \* info_.closed_without_notify
    hasContext,   \* has_context_
    shutdownSent, \* shutdown_sent_
    innerShut,    \* the stream below was shut down
    pc,           \* where the thread is
    want,         \* fill_incoming()'s want
    back,         \* who called fill_incoming()
    needInput,    \* negotiate()'s need_input
    continuing,   \* negotiate()'s continuing
    dst,          \* read()'s buffer
    got,          \* the plaintext the caller has received
    told,         \* whether a read has reported the end
    out,          \* the records sent
    result        \* what the last call returned

peerVars == <<script, cut, due>>
inVars   == <<fed, consumed, capacity, need>>
endVars  == <<innerEof, peerClosed, noNotify>>
outVars  == <<shutdownSent, innerShut, out>>
callVars == <<want, back, needInput, continuing, dst>>
heldVars == <<peerVars, inVars, plain, endVars, hasContext, outVars, callVars, got, told>>
vars == <<heldVars, pc, result>>

-----------------------------------------------------------------------------
(* The script.                                                             *)

\* What comes before each of several things of these sizes, and before the end.
Before(sizes) ==
    LET sum[i \in 1..(Len(sizes) + 1)] ==
            IF i = 1 THEN 0 ELSE sum[i - 1] + sizes[i - 1]
    IN  sum

\* Where each record begins, and how much plaintext comes before it.
Offsets == [s \in Scripts |-> Before([k \in DOMAIN s |-> s[k].len])]
Plains  == [s \in Scripts |-> Before([k \in DOMAIN s |-> s[k].data])]
Offset == Offsets[script]
PlainBefore == Plains[script]

\* The records that begin where incoming_ does: one, or none.
Here == {i \in 1..Len(script) : Offset[i] = consumed}
used == fed - consumed

\* A whole record is there, of one of these kinds.
Whole(i) == used >= script[i].len
Have(kinds) == {i \in Here : Whole(i) /\ script[i].kind \in kinds}
Incomplete == used = 0 \/ \E i \in Here : ~Whole(i)

\* How much more Schannel may say it needs: it knows the length, or does not.
Missing == {1} \cup {script[i].len - used : i \in Here}

\* What a reader is due: the plaintext of the records that arrive whole, up to
\* the goodbye if there is one, and whether something follows them.
Due(s, c) ==
    LET arrives == {i \in 1..Len(s) : Offsets[s][i + 1] <= c}
        goodbyes == {i \in arrives : s[i].kind = "notify"}
        last == IF goodbyes # {} THEN Min(goodbyes) ELSE Max(arrives \cup {0})
    IN  [length |-> Plains[s][last + 1],
         ending |-> IF goodbyes # {} THEN "goodbye"
                    ELSE IF Offsets[s][last + 1] = c THEN "silence" ELSE "torn"]

Init ==
    /\ script \in Scripts
    /\ cut \in 0..Offset[Len(script) + 1]
    /\ due = Due(script, cut)
    /\ fed = 0
    /\ consumed = 0
    /\ capacity = ReadChunk
    /\ need = 0
    /\ plain = [next |-> 1, end |-> 1]
    /\ innerEof = FALSE
    /\ peerClosed = FALSE
    /\ noNotify = FALSE
    /\ hasContext = FALSE
    /\ shutdownSent = FALSE
    /\ innerShut = FALSE
    /\ pc = "first"
    /\ want = 0
    /\ back = "negotiate"
    /\ needInput = FALSE
    /\ continuing = FALSE
    /\ dst = 0
    /\ got = <<>>
    /\ told = FALSE
    /\ out = <<>>
    /\ result = "none"

Returns(r) == pc' = "idle" /\ result' = r

\* wrap() fails: the stream it was making is destroyed.
Gone(r) == pc' = "gone" /\ result' = r

\* ("too_large" and "no_memory" are NetError::logic, as "logic" is.)
Errors == {"net_error", "truncated", "tls_error", "too_large", "no_memory", "logic"}

\* A caller that has seen an error only closes, except when the error says that
\* the socket is still usable (Retry::same_socket).
MayCall == pc = "idle" /\ result \notin Errors

-----------------------------------------------------------------------------
(* fill_incoming()                                                         *)

\* Goes to read `need_` bytes, one at least, and then back.
Fill(caller) ==
    /\ pc' = "fill"
    /\ back' = caller
    /\ want' = Max({need, 1})
    /\ need' = 0

\* ensure_incoming_space(): what the buffer grows to when a chunk has no room.
Grown ==
    IF capacity - used >= ReadChunk THEN capacity
    ELSE Max({used + ReadChunk, Min({2 * capacity, MaxIncoming})})

\* Mutants: there is no limit, or it is the buffer that is held against it.
HasSpace_Always == TRUE
HasSpace_BySize == capacity - used >= ReadChunk \/ capacity + ReadChunk <= MaxIncoming

HasSpace == capacity - used >= ReadChunk \/ used + ReadChunk <= MaxIncoming

\* Mutant: the end is not remembered.
EndNoted_Never(eof) == innerEof

EndNoted(eof) == innerEof \/ eof

\* One read of the stream below; the loop goes on while bytes are wanted.
FillRead(n, eof) ==
    /\ pc = "fill"
    /\ HasSpace
    /\ n > 0 \/ eof
    /\ n <= Grown - used /\ fed + n <= cut
    /\ eof => fed + n = cut
    /\ capacity' = Grown
    /\ fed' = fed + n
    /\ want' = want - Min({want, n})
    /\ innerEof' = EndNoted(eof)
    /\ pc' = IF want' = 0 \/ eof THEN back ELSE "fill"
    /\ needInput' = IF pc' = "negotiate" THEN FALSE ELSE needInput
    /\ UNCHANGED <<peerVars, consumed, need, plain, peerClosed, noNotify, hasContext,
                   outVars, back, continuing, dst, got, told, result>>

\* An error in negotiate() is wrap()'s or, past the handshake, read()'s.
CallFails(r) ==
    IF (pc = "negotiate" \/ (pc = "fill" /\ back = "negotiate")) /\ ~continuing
    THEN Gone(r) ELSE Returns(r)

FillFails ==
    /\ pc = "fill"
    /\ \/ ~HasSpace /\ CallFails("too_large") /\ UNCHANGED capacity
       \/ HasSpace /\ Grown # capacity /\ CallFails("no_memory") /\ UNCHANGED capacity
       \/ HasSpace /\ (CallFails("net_error") \/ CallFails("transient"))
                   /\ capacity' = Grown
    /\ UNCHANGED <<peerVars, fed, consumed, need, plain, endVars, hasContext, outVars,
                   callVars, got, told>>

\* Mutant: the tail that was not consumed is dropped.
KeepExtra_Drop(extra) == consumed' = fed

\* keep_extra(): the tail that was not consumed stays.
KeepExtra(extra) == consumed' = fed - extra

-----------------------------------------------------------------------------
(* negotiate()                                                             *)

\* A record is written by write_all(). The stream below takes nothing once it
\* was shut down.
Sends(kind) == ~innerShut /\ out' = Append(out, [kind |-> kind, whole |-> TRUE])

\* It is refused, or torn.
SendFails(kind) ==
    \/ UNCHANGED out
    \/ ~innerShut /\ out' = Append(out, [kind |-> kind, whole |-> FALSE])

\* connect() has no TCP connection to wrap.
ConnectFails == pc = "first" /\ Gone("net_error") /\ UNCHANGED heldVars

\* wrap() is given no stream, no credentials, no name or one it cannot convert.
WrapRefuses == pc = "first" /\ Gone("logic") /\ UNCHANGED heldVars

\* The first call makes the context and the first token.
FirstToken ==
    /\ pc = "first"
    /\ hasContext' = TRUE
    /\ \/ /\ Sends("token")
          /\ pc' = "negotiate"
          /\ needInput' = TRUE
          /\ UNCHANGED result
       \/ /\ SendFails("token")
          /\ Gone("net_error")
          /\ UNCHANGED needInput
    /\ UNCHANGED <<peerVars, inVars, plain, endVars, shutdownSent, innerShut, want,
                   back, continuing, dst, got, told>>

FirstFails == pc = "first" /\ Gone("tls_error") /\ UNCHANGED heldVars

NegotiateReads ==
    /\ pc = "negotiate" /\ needInput
    /\ IF innerEof
         THEN CallFails("truncated") /\ UNCHANGED <<need, want, back>>
         ELSE Fill("negotiate") /\ UNCHANGED result
    /\ UNCHANGED <<peerVars, fed, consumed, capacity, plain, endVars, hasContext, outVars,
                   needInput, continuing, dst, got, told>>

\* InitializeSecurityContext is given what there is.
Negotiates == pc = "negotiate" /\ ~needInput

NegotiateIncomplete ==
    /\ Negotiates
    /\ Incomplete
    /\ need' \in Missing
    /\ needInput' = TRUE
    /\ UNCHANGED <<peerVars, fed, consumed, capacity, plain, endVars, hasContext, outVars,
                   pc, want, back, continuing, dst, got, told, result>>

\* What ends the handshake, or a message that comes after it.
Final == IF continuing THEN {"ticket"} ELSE {"finished"}

\* Mutant: after a message there is always something to wait for.
MoreInput_Always(kind) == kind = "hello"

\* need_input, after a message that was not the last.
MoreInput(kind) == kind = "hello" /\ consumed' = fed

\* A message is consumed. Its answer goes out before the rest is looked at; one
\* that cannot be sent leaves the input as it was.
NegotiateMessage ==
    /\ Negotiates
    /\ \E i \in Have({"hello"} \cup Final) :
         \/ /\ IF script[i].answered THEN Sends("token") ELSE UNCHANGED out
            /\ KeepExtra(used - script[i].len)
            /\ needInput' = MoreInput(script[i].kind)
            /\ pc' = IF script[i].kind = "hello" THEN "negotiate"
                     ELSE IF continuing THEN "read" ELSE "finish"
            /\ UNCHANGED result
         \/ /\ script[i].answered
            /\ SendFails("token")
            /\ CallFails("net_error")
            /\ UNCHANGED <<consumed, needInput>>
    /\ UNCHANGED <<peerVars, fed, capacity, need, plain, endVars, hasContext,
                   shutdownSent, innerShut, want, back, continuing, dst, got, told>>

NegotiateFails ==
    /\ Negotiates
    /\ ~Incomplete /\ Have({"hello"} \cup Final) = {}
    /\ CallFails("tls_error")
    /\ UNCHANGED heldVars

\* The stream that was moved holds all that this one did, the ciphertext that
\* came with the last message of the handshake too.
Moved == UNCHANGED <<inVars, plain, endVars, hasContext, outVars>>

\* finish_handshake(), and wrap() returns its stream by moving it.
FinishHandshake ==
    /\ pc = "finish"
    /\ Returns("wrapped") \/ Gone("tls_error") \/ Gone("no_memory")
    /\ Moved
    /\ UNCHANGED <<peerVars, callVars, got, told>>

-----------------------------------------------------------------------------
(* read()                                                                  *)

CallRead(n) ==
    /\ MayCall
    /\ IF hasContext THEN pc' = "read" /\ dst' = n /\ UNCHANGED result
                     ELSE Returns("logic") /\ UNCHANGED dst
    /\ UNCHANGED <<peerVars, inVars, plain, endVars, hasContext, outVars, want, back,
                   needInput, continuing, got, told>>

HasPlain == plain.next < plain.end

\* These n bytes are the last ones before the end.
LastOut(n) == peerClosed /\ plain.next + n = plain.end

\* What is decrypted goes out first, with the end when it is the last of it.
HandOver ==
    LET n == Min({dst, plain.end - plain.next}) IN
    /\ pc = "read" /\ HasPlain
    /\ got' = got \o [i \in 1..n |-> plain.next + i - 1]
    /\ plain' = [plain EXCEPT !.next = @ + n]
    /\ told' = LastOut(n)
    /\ Returns(IF told' THEN "data_eof" ELSE "data")
    /\ UNCHANGED <<peerVars, inVars, endVars, hasContext, outVars, callVars>>

ReadClosed ==
    /\ pc = "read" /\ ~HasPlain /\ peerClosed
    /\ Returns("eof")
    /\ told' = TRUE
    /\ UNCHANGED <<peerVars, inVars, plain, endVars, hasContext, outVars, callVars, got>>

Reading == pc = "read" /\ ~HasPlain /\ ~peerClosed

\* DecryptMessage is given what there is.
Decrypting == Reading /\ used > 0 /\ need = 0

DecryptIncomplete ==
    /\ Decrypting
    /\ Incomplete
    /\ IF innerEof THEN Returns("truncated") /\ UNCHANGED need
                   ELSE need' \in Missing /\ UNCHANGED <<pc, result>>
    /\ UNCHANGED <<peerVars, fed, consumed, capacity, plain, endVars, hasContext, outVars,
                   callVars, got, told>>

\* A record of data, or the close_notify, or both when both are there.
DecryptRecord ==
    /\ Decrypting
    /\ \E i \in Have({"data", "notify"}), both \in BOOLEAN :
         LET last == IF both THEN i + 1 ELSE i IN
         /\ both => /\ i < Len(script)
                    /\ script[i].kind = "data" /\ script[last].kind = "notify"
                    /\ used >= Offset[last + 1] - consumed
         /\ plain' = [next |-> PlainBefore[i] + 1, end |-> PlainBefore[i + 1] + 1]
         /\ KeepExtra(fed - Offset[last + 1])
         /\ peerClosed' = (script[last].kind = "notify")
    /\ UNCHANGED <<peerVars, fed, capacity, need, innerEof, noNotify, hasContext, outVars,
                   pc, callVars, got, told, result>>

\* The plaintext has no room in plaintext_, which forgot what it held.
DecryptNoMemory ==
    /\ Decrypting
    /\ \E i \in Have({"data"}) : script[i].data > 0
    /\ plain' = [plain EXCEPT !.next = plain.end]
    /\ Returns("no_memory")
    /\ UNCHANGED <<peerVars, inVars, endVars, hasContext, outVars, callVars, got, told>>

\* A message after the handshake is left to negotiate(true), input and all.
DecryptRenegotiate ==
    /\ Decrypting
    /\ Have({"hello", "ticket"}) # {}
    /\ KeepExtra(used)
    /\ pc' = "negotiate"
    /\ continuing' = TRUE
    /\ needInput' = FALSE
    /\ UNCHANGED <<peerVars, fed, capacity, need, plain, endVars, hasContext, outVars,
                   want, back, dst, got, told, result>>

DecryptFails ==
    /\ Decrypting
    /\ ~Incomplete /\ Have({"data", "notify", "hello", "ticket"}) = {}
    /\ Returns("tls_error")
    /\ UNCHANGED heldVars

\* The stream has ended: on a record's boundary, or inside one.
ReadStarves ==
    /\ Reading /\ ~Decrypting /\ innerEof
    /\ IF used = 0
         THEN Returns("eof") /\ told' = TRUE /\ peerClosed' = TRUE /\ noNotify' = TRUE
         ELSE Returns("truncated") /\ UNCHANGED <<told, peerClosed, noNotify>>
    /\ UNCHANGED <<peerVars, inVars, plain, innerEof, hasContext, outVars, callVars, got>>

ReadMore ==
    /\ Reading /\ ~Decrypting /\ ~innerEof
    /\ Fill("read")
    /\ UNCHANGED <<peerVars, fed, consumed, capacity, plain, endVars, hasContext, outVars,
                   needInput, continuing, dst, got, told, result>>

-----------------------------------------------------------------------------
(* write_some(), shutdown_send() and close()                               *)

Unchanged(rest) == UNCHANGED <<peerVars, inVars, plain, endVars, callVars, got, told, rest>>

\* Mutant: nothing stops a write after the close_notify.
MayWrite_Always == hasContext

MayWrite == hasContext /\ ~shutdownSent

\* One record, whose encryption may fail as well.
WriteSome ==
    /\ MayCall /\ Len(out) < MaxOut
    /\ \/ ~MayWrite /\ Returns("logic") /\ UNCHANGED out
       \/ MayWrite /\ Returns("tls_error") /\ UNCHANGED out
       \/ MayWrite /\ Sends("data") /\ Returns("sent")
       \/ MayWrite /\ SendFails("data") /\ Returns("net_error")
    /\ Unchanged(<<hasContext, shutdownSent, innerShut>>)

\* The close_notify, then the stream below.
ShutdownSend ==
    /\ MayCall /\ Len(out) < MaxOut
    /\ hasContext /\ ~shutdownSent
    /\ \/ Returns("tls_error") /\ UNCHANGED outVars
       \/ SendFails("notify") /\ Returns("net_error") /\ UNCHANGED <<shutdownSent, innerShut>>
       \/ /\ Sends("notify")
          /\ shutdownSent' = TRUE
          /\ \/ innerShut' = TRUE /\ Returns("shut")
             \/ UNCHANGED innerShut /\ (Returns("net_error") \/ Returns("transient"))
    /\ Unchanged(hasContext)

ShutdownAgain ==
    /\ MayCall
    /\ Returns(IF hasContext THEN "shut" ELSE "logic")
    /\ ~hasContext \/ shutdownSent
    /\ Unchanged(<<hasContext, outVars>>)

Close ==
    /\ pc = "idle" /\ hasContext
    /\ hasContext' = FALSE
    /\ Returns("closed")
    /\ Unchanged(outVars)

-----------------------------------------------------------------------------
Step ==
    \/ ConnectFails \/ WrapRefuses \/ FirstToken \/ FirstFails
    \/ \E n \in 0..(cut - fed), eof \in BOOLEAN : FillRead(n, eof)
    \/ FillFails
    \/ NegotiateReads
    \/ NegotiateIncomplete \/ NegotiateMessage \/ NegotiateFails
    \/ FinishHandshake
    \/ HandOver
    \/ ReadClosed
    \/ DecryptIncomplete \/ DecryptRecord \/ DecryptNoMemory \/ DecryptRenegotiate
    \/ DecryptFails
    \/ ReadStarves
    \/ ReadMore

Call ==
    \/ \E n \in Buffers : CallRead(n)
    \/ WriteSome
    \/ ShutdownSend \/ ShutdownAgain
    \/ Close

Next == Step \/ Call

Spec == Init /\ [][Next]_vars

\* A call that has begun runs, and a read of the stream below returns: with
\* bytes, the peer's end or an error, such as the expiry of the read timeout.
FairSpec == Spec /\ WF_vars(Step)

-----------------------------------------------------------------------------
(* What a TLS stream promises.                                             *)

\* Every variable has its type, and the buffer stays within its limit.
TypeOK ==
    /\ script \in Scripts /\ cut \in 0..Offset[Len(script) + 1]
    /\ due.length \in 0..PlainBefore[Len(script) + 1]
    /\ fed \in 0..cut /\ consumed \in 0..fed
    /\ capacity \in ReadChunk..MaxIncoming /\ used <= capacity
    /\ need \in Nat
    /\ plain \in [next : Nat \ {0}, end : Nat] /\ plain.next <= plain.end
    /\ {told, innerEof, peerClosed, noNotify, hasContext, shutdownSent, innerShut,
        needInput, continuing} \subseteq BOOLEAN
    /\ pc \in {"first", "negotiate", "fill", "finish", "read", "idle", "gone"}
    /\ want \in Nat /\ back \in {"negotiate", "read"}
    /\ dst \in Buffers \cup {0}
    /\ out \in Seq([kind : {"token", "data", "notify"}, whole : BOOLEAN])
    /\ result \in {"none", "wrapped", "data", "data_eof", "eof", "sent", "shut",
                   "closed", "transient"} \cup Errors

\* A message is only refused as too large when it is: no record that fits is,
\* however the bytes before and after it were cut.
FitsOrRefused ==
    result = "too_large" =>
        \E i \in Here : script[i].len > MaxIncoming - ReadChunk

\* The stream below is not asked for more while a whole record or message is
\* there to be read: the server may be waiting for the answer to it.
NothingWithheld == pc = "fill" => \A i \in Here : ~Whole(i)

\* What the server reads makes sense (tls_stream.h:95-98): a torn record is the
\* last thing sent, in a handshake, an answer to a ticket or a call, and no data
\* follows the close_notify, even when shutting down was half done.
WireIsSound ==
    \A i, j \in 1..Len(out) : i < j =>
        out[i].whole /\ (out[i].kind = "notify" => out[j].kind # "data")

\* A call returns, whatever the server sends and wherever it stops.
CallsReturn == pc \notin {"idle", "gone"} ~> pc \in {"idle", "gone"}

-----------------------------------------------------------------------------
(* The session as its reader sees it.                                      *)

Reader_status ==
    IF pc = "gone" \/ (pc = "idle" /\ result \in Errors \cup {"closed"}) THEN "over"
    ELSE IF ~told THEN "open"
    ELSE IF noNotify THEN "silence" ELSE "goodbye"

Ordered == INSTANCE OrderedStream WITH
    length <- due.length,
    ending <- due.ending,
    got <- got,
    status <- Reader_status

\* The plaintext that the caller is given is the plaintext that was sent, each
\* byte once and in order, and an end that read() reports is one: everything was
\* handed over, and either the server said goodbye or its connection ended
\* between two records and that is on record (tls_stream.h:39-42).
ReadsInOrder == Ordered!Spec
=============================================================================
