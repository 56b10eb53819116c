------------------------------ MODULE MCLexer ------------------------------
(* Model checking of Lexer: the inputs a server sends.                      *)
EXTENDS Lexer

Crlf == <<"cr", "lf">>
Literal == <<"{", "1", "}">> \o Crlf

Core == { <<"x">>, <<"sp">>, Crlf, <<"[">>, Literal }

Fragments == Core \cup
    { <<"lf">>, <<"cr">>, <<"]">>, <<"ctl">>, <<"nul">>, <<"N">>, <<"1">>, <<"9", "9">>,
      <<"(">>, <<")">>, <<"quote", "x">>, <<"quote", "slash", "quote">>, <<"slash">>,
      <<"quote">>, <<"~">>, <<"{", "0", "+", "}">> \o Crlf, <<"{">>, <<"{", "1">>, <<"}">>,
      <<"{", "9">>, <<"x", "1", "x">>, <<"sp", "sp", "sp">> }

\* Every pair of fragments, and every three of the commonest.
Small == {f \o g : f, g \in Fragments} \cup {f \o g \o h : f, g, h \in Core}

\* A header whose size is written with eight zeros in front.
Padded == {<<"{", "0", "0", "0", "0", "0", "0", "0", "0", "1", "}">> \o Crlf}

\* The longest header without leading zeros, for a MaxNumber of two digits:
\* ~{98+} and CRLF.
HeaderBytes == 8

\* lexer.cpp:326-328 says of a literal's header "That is a couple of dozen bytes
\* at most", which is what the longest size in 63 bits takes. The lexer never
\* keeps more of a header than that while it asks for input.
HeaderIsShort == status = "need_more" => fed - pos <= HeaderBytes
=============================================================================
