---------------------------- MODULE MCTcpStream ----------------------------
(* Model checking of TcpStream: what its threads and values are             *)
(* interchangeable in.                                                      *)
EXTENDS TcpStream, TLC

Symmetry ==
    Permutations(Workers) \cup Permutations(Cancellers)
        \cup Permutations(Handles) \cup Permutations(Descriptors)
=============================================================================
