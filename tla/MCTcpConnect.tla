---------------------------- MODULE MCTcpConnect ----------------------------
(* Model checking of TcpConnect: the answers of the resolver.              *)
EXTENDS TcpConnect

\* Every order of two families over one to three candidates, up to the name of
\* the first family.
ShortLists == {l \in UNION {[1..n -> {4, 6}] : n \in 1..3} : l[1] = 6}
=============================================================================
