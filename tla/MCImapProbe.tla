----------------------------- MODULE MCImapProbe -----------------------------
(* Model checking of ImapProbe: the sessions of a server. All blocks but the *)
(* last are those of a server that answers every command.                   *)
EXTENDS ImapProbe

Crlf == <<"cr", "lf">>

\* A plain greeting, one with a code, and one that is data with a literal
\* and a closing parenthesis too many.
Greetings ==
    { <<"*", "sp", "S", "sp", "{", "1", "}">> \o Crlf,
      <<"*", "sp", "S", "[", "C", "sp", "x", "]">> \o Crlf,
      <<"*", "sp", "x", "sp", "{", "1", "}">> \o Crlf \o <<")", ")">> \o Crlf }

\* The answers to a1: at once, behind another tag, and behind a literal that
\* holds what looks like the answer.
Answers ==
    { <<"x", "1", "sp", "S">> \o Crlf,
      <<"x", "9", "sp", "S">> \o Crlf \o <<"x", "1", "sp", "S">> \o Crlf,
      <<"*", "sp", "{", "9", "}">> \o Crlf
          \o Crlf \o <<"x", "1", "sp", "S">> \o Crlf \o <<"(">>
          \o Crlf \o <<"x", "1", "sp", "S">> \o Crlf }

\* The last block of a server: a farewell with or without the tagged response,
\* a response that is cut short or refused, and nothing.
Lasts ==
    { <<"*", "sp", "B">> \o Crlf \o <<"x", "9", "sp", "S">> \o Crlf,
      <<"*", "sp", "B">> \o Crlf,
      <<"x", "9", "sp", "S">>,
      <<"(">>,
      <<>> }

SomeSessions ==
    {<<l>> : l \in Lasts} \cup
    {<<g, l>> : g \in Greetings, l \in Lasts} \cup
    {<<g, a, l>> : g \in Greetings, a \in Answers, l \in Lasts}

AllSent == {FlattenSeq(s) : s \in SomeSessions}
=============================================================================
