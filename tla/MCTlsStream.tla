----------------------------- MODULE MCTlsStream -----------------------------
(* Model checking of TlsStream: what a server sends.                         *)
EXTENDS TlsStream

Rec(k, l, d, a) == [kind |-> k, len |-> l, data |-> d, answered |-> a]

\* What follows one: data, an empty record, messages with and without an
\* answer, the goodbye, and a record that Schannel refuses.
After ==
    { Rec("data", 2, 1, FALSE), Rec("data", 3, 2, FALSE), Rec("data", 1, 0, FALSE),
      Rec("ticket", 1, 0, TRUE), Rec("ticket", 2, 0, FALSE),
      Rec("hello", 1, 0, FALSE), Rec("notify", 1, 0, FALSE),
      Rec("alert", 1, 0, FALSE) }
Common ==
    { Rec("data", 2, 2, FALSE), Rec("ticket", 1, 0, TRUE), Rec("notify", 2, 0, FALSE) }

\* Records that just fit into the buffer, and some that do not.
Large ==
    { <<Rec("hello", 5, 0, FALSE), Rec("finished", 1, 0, TRUE)>>,
      <<Rec("hello", 7, 0, FALSE), Rec("finished", 1, 0, TRUE)>>,
      <<Rec("finished", 1, 0, TRUE), Rec("data", 6, 2, FALSE), Rec("notify", 1, 0, FALSE)>>,
      <<Rec("finished", 1, 0, TRUE), Rec("data", 7, 2, FALSE)>> }

Greeting == <<Rec("hello", 2, 0, FALSE), Rec("finished", 1, 0, TRUE)>>

Servers ==
    {<<Rec("finished", 1, 0, TRUE), a, b>> : a, b \in After}
        \cup {<<Rec("finished", 1, 0, FALSE), a, b, c>> : a, b, c \in Common}
        \cup {Greeting \o <<a>> : a \in After}
        \cup Large
=============================================================================
