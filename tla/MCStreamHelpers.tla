--------------------------- MODULE MCStreamHelpers ---------------------------
(* Model checking of StreamHelpers: what the calls ask for.                  *)
EXTENDS StreamHelpers

SmallSizes == {0, 1, 3, 5}
SomeHeld == {0, 2}
=============================================================================
