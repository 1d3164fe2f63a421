----------------------------- MODULE MCGateway -----------------------------
\* Gateway for TLC.
EXTENDS Gateway, TLC

Symmetry == Permutations(Handler) \cup Permutations(Device)

=============================================================================
