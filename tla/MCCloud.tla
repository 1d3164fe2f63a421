------------------------------ MODULE MCCloud ------------------------------
\* Cloud for TLC.  No symmetry, because of liveness.
EXTENDS Cloud

EveryTimestamp == 0 .. MaxTime - Window - 1

\* The legacy endpoint is disabled with the restart.
DisabledLater == [n \in 0 .. MaxCrashes |-> n = 0]

=============================================================================
