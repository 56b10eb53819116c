-------------------------- MODULE MCResponseReader --------------------------
(* Model checking of ResponseReader: what a server sends.                   *)
EXTENDS ResponseReader

Crlf == <<"cr", "lf">>

\* Tags, status responses with and without codes, literals, and lines that are
\* cut short or refused.
Lines ==
    { <<"x", "sp", "S", "sp", "{", "1", "}">> \o Crlf,
      <<"*", "sp", "S", "sp", "[", "C", "sp", "[", "x", "]", "]", "x">> \o Crlf,
      <<"*", "sp", "S", "sp", "[", "x", "sp", "quote", "]", "quote">> \o Crlf,
      <<"*", "sp", "S", "sp", "[", "x", "sp", "x">> \o Crlf,
      <<"*", "S", "sp", "[", "]">> \o Crlf,
      <<"*", "sp", "S", "[", "quote", "x">> \o Crlf,
      <<"*", "sp", "S", "[", "C", "{", "0", "}">> \o Crlf \o Crlf,
      <<"*", "sp", "S", "[", "C", ")", "[", "]", "]", "x">> \o Crlf,
      <<"+", "sp", "{", "1", "}">> \o Crlf,
      <<"*", "sp", "1", "sp", "(", "{", "1", "}">> \o Crlf \o <<"(", ")", ")">> \o Crlf,
      <<"1", "sp", "S">> \o Crlf,
      <<"(", "x", ")">> \o Crlf,
      <<"x", "x">>,
      Crlf,
      <<"*", "sp", "quote", "x">>,
      <<>> }

Sessions == {f \o g : f, g \in Lines}

\* A line that begins with a parenthesis.
Stray == {<<"(", "x", "sp", "S">> \o Crlf}
=============================================================================
