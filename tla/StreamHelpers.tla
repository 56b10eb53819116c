--------------------------- MODULE StreamHelpers ---------------------------
(***************************************************************************)
(* The loops over a ByteStream (stream_helpers.cpp): write_all,            *)
(* read_exactly and read_to_eof, called one after the other on one stream. *)
(*                                                                         *)
(* A byte is known by its place: the peer sends 1, 2, ... Length, and the  *)
(* caller of write_all sends 1, 2, ... in its turn. The stream may do all  *)
(* that ByteStream allows (byte_stream.h:59-76), and, when it is Faulty,   *)
(* what it forbids: report no progress, or more than it was asked for.     *)
(***************************************************************************)
EXTENDS Integers, Sequences, FiniteSetsExt

CONSTANTS
    Length,       \* how many bytes the peer sends before its end
    Sizes,        \* how many bytes a call may ask for: its buffer, or max_bytes
    ChunkBytes,   \* kChunkBytes
    Held,         \* how many bytes `out` may hold when read_to_eof is called
    MaxWire,      \* bound: no more write_all once that many bytes were offered
    Faulty        \* whether the stream may break its contract

ASSUME StreamHelpersAssumption ==
    /\ Length \in Nat
    /\ Sizes \subseteq Nat
    /\ ChunkBytes \in Nat \ {0}
    /\ Held \subseteq Nat
    /\ MaxWire \in Nat
    /\ Faulty \in BOOLEAN

VARIABLES
    op,       \* the helper that runs
    size,     \* what it was asked for
    done,     \* how much of it is transferred: total, or what subspan cut off
    buffer,   \* src, dst or out
    start,    \* where the stream was when the helper was called
    at,       \* how many bytes the stream has delivered of the peer's
    wire,     \* what the stream has accepted
    offered,  \* how many bytes were passed to write_all so far
    asked,    \* whether the helper waits for a call of the stream's
    result    \* what the last helper returned

vars == <<op, size, done, buffer, start, at, wire, offered, asked, result>>

Helpers == {"write_all", "read_exactly", "read_to_eof"}

Results == {"none", "ok", "eof", "capped", "truncated", "logic", "error",
            "bad_alloc"}

Zero == 0   \* a byte that nothing was read into

Init ==
    /\ op = "none"
    /\ size = 0
    /\ done = 0
    /\ buffer = <<>>
    /\ start = 0
    /\ at = 0
    /\ wire = <<>>
    /\ offered = 0
    /\ asked = FALSE
    /\ result = "none"

Zeros(n) == [i \in 1..n |-> Zero]

\* vector::resize
Resize(s, n) == SubSeq(s, 1, Min({n, Len(s)})) \o Zeros(n - Min({n, Len(s)}))

Begin(helper, n) ==
    /\ op = "none"
    /\ op' = helper
    /\ size' = n
    /\ done' = 0
    /\ result' = "none"
    /\ UNCHANGED <<at, wire, asked>>

Returns(r) == op' = "none" /\ result' = r

\* The loop goes round: the stream is called while something is left.
Ask ==
    /\ op # "none" /\ ~asked
    /\ done < size
    /\ asked' = TRUE
    /\ UNCHANGED <<op, size, done, buffer, start, at, wire, offered, result>>

\* The stream answers the helper.
Answers(helper) ==
    /\ op = helper /\ asked
    /\ asked' = FALSE
    /\ UNCHANGED <<size, start, offered>>

\* Nothing is left.
Ends(helper, r) ==
    /\ op = helper /\ ~asked
    /\ done = size
    /\ Returns(r)
    /\ UNCHANGED <<size, done, buffer, start, at, wire, offered, asked>>

-----------------------------------------------------------------------------
(* write_all()                                                             *)

CallWriteAll(n) ==
    /\ offered + n <= MaxWire
    /\ Begin("write_all", n)
    /\ buffer' = [i \in 1..n |-> offered + i]
    /\ start' = Len(wire)
    /\ offered' = offered + n

\* Mutant: what was accepted is not cut off the buffer.
Unsent_All == buffer

\* src, from which subspan cuts what was accepted.
Unsent == SubSeq(buffer, done + 1, size)

\* The stream accepts some of what is left.
WriteSome(k) ==
    /\ Answers("write_all")
    /\ k \in 1..(size - done)
    /\ wire' = wire \o SubSeq(Unsent, 1, k)
    /\ done' = done + k
    /\ UNCHANGED <<op, buffer, at, result>>

WriteFails ==
    /\ Answers("write_all")
    /\ Returns("error")
    /\ UNCHANGED <<done, buffer, at, wire>>

\* No progress, or a count larger than the buffer.
WriteIsBroken ==
    /\ Faulty
    /\ Answers("write_all")
    /\ Returns("logic")
    /\ UNCHANGED <<done, buffer, at, wire>>

WriteAllDone == Ends("write_all", "ok")

-----------------------------------------------------------------------------
(* read_exactly() and read_to_eof()                                        *)

CallReadExactly(n) ==
    /\ Begin("read_exactly", n)
    /\ buffer' = Zeros(n)
    /\ start' = at
    /\ UNCHANGED offered

\* `out` holds bytes of the caller's.
CallReadToEof(n, held) ==
    /\ Begin("read_to_eof", n)
    /\ buffer' = Zeros(held)
    /\ start' = at
    /\ UNCHANGED offered

\* Mutant: the last chunk goes beyond the cap.
Want_WholeChunks == IF op = "read_exactly" THEN size - done ELSE ChunkBytes

\* What the next read of the stream asks for.
Want == IF op = "read_exactly" THEN size - done ELSE Min({ChunkBytes, size - done})

\* The buffer a read finds: read_to_eof makes it as long as it needs.
Destination == IF op = "read_exactly" THEN buffer ELSE Resize(buffer, done + Want)

\* The destination when k bytes have arrived in it.
Filled(k) ==
    [i \in DOMAIN Destination |->
        IF i \in (done + 1)..(done + k) THEN at + i - done ELSE Destination[i]]

\* A read that delivers k bytes, with or without the peer's end.
Delivers(k, eof) ==
    /\ k \in 0..Want /\ at + k <= Length
    /\ k > 0 \/ eof
    /\ eof => at + k = Length
    /\ at' = at + k
    /\ done' = done + k
    /\ UNCHANGED wire

\* Mutant: whether the buffer is full is not looked at.
EndsShort_Any(eof) == eof

\* The end is an error only when bytes are missing.
EndsShort(eof) == eof /\ done' < size

ReadExactlyReads(k, eof) ==
    /\ Answers("read_exactly")
    /\ Delivers(k, eof)
    /\ buffer' = Filled(k)
    /\ IF EndsShort(eof) THEN Returns("truncated") ELSE UNCHANGED <<op, result>>

ReadExactlyDone == Ends("read_exactly", "ok")

\* Mutant: the vector is not cut.
Cut_Not(out, n) == out

\* The vector is cut to the n bytes that have arrived.
Cut(out, n) == Resize(out, n)

ReadToEofReads(k, eof) ==
    /\ Answers("read_to_eof")
    /\ Delivers(k, eof)
    /\ buffer' = Cut(Filled(k), done')
    /\ IF eof THEN Returns("eof") ELSE UNCHANGED <<op, result>>

\* The cap is reached. A cap of zero leaves the vector as it was.
ReadToEofCapped == Ends("read_to_eof", "capped")

\* What a read that failed leaves in the buffer.
Left == IF op = "read_exactly" THEN buffer ELSE Cut(buffer, done)

\* The vector cannot grow and stays as it was; the exception is the caller's.
ReadToEofThrows ==
    /\ op = "read_to_eof" /\ ~asked
    /\ done < size /\ Want > Len(buffer) - done
    /\ Returns("bad_alloc")
    /\ UNCHANGED <<size, done, buffer, start, at, wire, offered, asked>>

ReadFails ==
    /\ \E h \in {"read_exactly", "read_to_eof"} : Answers(h)
    /\ Returns("error")
    /\ buffer' = Left
    /\ UNCHANGED <<done, at, wire>>

\* Mutant: such a read is tried again.
Refuses_Never == UNCHANGED <<op, result>>

\* A stream that breaks its contract is an error of the program's.
Refuses == Returns("logic")

\* Neither bytes nor end nor error, or a count larger than the buffer.
ReadIsBroken ==
    /\ Faulty
    /\ \E h \in {"read_exactly", "read_to_eof"} : Answers(h)
    /\ Refuses
    /\ buffer' = Left
    /\ UNCHANGED <<done, at, wire>>

-----------------------------------------------------------------------------
Call ==
    \/ \E n \in Sizes : CallWriteAll(n) \/ CallReadExactly(n)
    \/ \E n \in Sizes, held \in Held : CallReadToEof(n, held)

Step ==
    \/ Ask
    \/ \E k \in 1..(size - done) : WriteSome(k)
    \/ WriteFails
    \/ WriteIsBroken
    \/ WriteAllDone
    \/ \E k \in 0..Want, eof \in BOOLEAN :
          ReadExactlyReads(k, eof) \/ ReadToEofReads(k, eof)
    \/ ReadExactlyDone
    \/ ReadToEofCapped
    \/ ReadToEofThrows
    \/ ReadFails
    \/ ReadIsBroken

Next == Call \/ Step

Spec == Init /\ [][Next]_vars

\* A helper that was called runs, and the stream's calls return.
FairSpec == Spec /\ WF_vars(Step)

-----------------------------------------------------------------------------
(* What the helpers promise.                                               *)

\* Every variable has its type.
TypeOK ==
    /\ op \in {"none"} \cup Helpers
    /\ size \in Sizes \cup {0} /\ done \in 0..size
    /\ buffer \in Seq(Nat)
    /\ start \in Nat
    /\ at \in 0..Length
    /\ wire \in Seq(Nat)
    /\ offered \in 0..MaxWire
    /\ asked \in BOOLEAN
    /\ result \in Results

\* The bytes from a to b, in order.
Bytes(a, b) == [i \in 1..(b - a + 1) |-> a + i - 1]

\* write_all (stream_helpers.h:22-29): however the stream cuts it, what is on
\* the wire of a call is a prefix of its buffer, each byte once and in order,
\* and all of it when the call reports success.
WritesAreWhole ==
    [][op = "write_all" =>
         LET sent == SubSeq(wire', start + 1, Len(wire'))
             all  == Bytes(offered - size + 1, offered)
         IN  /\ sent = SubSeq(all, 1, done')
             /\ op' = "none" /\ result' = "ok" => sent = all]_vars

\* read_exactly (stream_helpers.h:31-37): success means that the buffer holds
\* the next bytes of the stream and that not one byte more was taken; truncated
\* means that the peer ended before it was full.
ReadsAreExact ==
    [][op = "read_exactly" /\ op' = "none" =>
         /\ result' = "ok" => at' = start + size /\ buffer' = Bytes(start + 1, at')
         /\ result' = "truncated" => at' = Length /\ at' < start + size]_vars

\* read_to_eof (stream_helpers.h:39-48): however it ends once it has asked the
\* stream, `out` holds what was taken from it and nothing else; an end that is reported is the
\* peer's, and without one the cap was reached.
EndsAreTold ==
    [][op = "read_to_eof" /\ op' = "none" /\ (asked \/ done > 0) =>
         /\ buffer' = Bytes(start + 1, at')
         /\ result' = "eof" => at' = Length
         /\ result' = "capped" => at' = start + size]_vars

\* No helper loops for ever, not even on a stream that breaks its contract.
HelpersReturn == op # "none" ~> op = "none"
=============================================================================
