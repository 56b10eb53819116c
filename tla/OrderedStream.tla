---------------------------- MODULE OrderedStream ----------------------------
(***************************************************************************)
(* What a ByteStream promises the thread that reads it (byte_stream.h):    *)
(* the bytes the peer sent, each once and in order, and an end that is     *)
(* reported only when it is one. StreamHelpers and ResponseReader rely on  *)
(* it; TlsStream is shown to implement it.                                 *)
(***************************************************************************)
EXTENDS Naturals, Sequences

\* How a peer leaves off: it says so, or falls silent between two units of
\* what it sends, or inside one.
Endings == {"goodbye", "silence", "torn"}

VARIABLES
    length,   \* how many bytes the peer sends, numbered from 1
    ending,   \* how it leaves off after them
    got,      \* the bytes that reads have returned
    status    \* "open", the end that was reported, or "over"

vars == <<length, ending, got, status>>

Init ==
    /\ length \in Nat
    /\ ending \in Endings
    /\ got = <<>>
    /\ status = "open"

\* A read returns the next bytes, or the end, or both at once. Bytes that lack
\* the rest of their unit are never passed off as an end.
Read ==
    /\ status = "open"
    /\ got' # got \/ status' # status
    /\ Len(got') \in Len(got)..length
    /\ got' = [i \in 1..Len(got') |-> i]
    /\ \/ UNCHANGED status
       \/ Len(got') = length /\ ending # "torn" /\ status' = ending
    /\ UNCHANGED <<length, ending>>

\* A call fails for good, or the reader closes the stream. (Reading on after
\* the end returns the end again, which changes nothing.)
Over ==
    /\ status' = "over"
    /\ UNCHANGED <<length, ending, got>>

Next == Read \/ Over

Spec == Init /\ [][Next]_vars
=============================================================================
