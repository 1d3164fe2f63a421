----------------------------- MODULE MCDelivery -----------------------------
\* Delivery for TLC.  The clock stands at 0; no symmetry, because of liveness.
EXTENDS Delivery

InAndOutsideWindow == {0, Window + 1}

NeverAllowed == [n \in 0 .. MaxCrashes |-> FALSE]

=============================================================================
