--------------------------- MODULE MCSensorState ---------------------------
\* SensorState for TLC: handlers, devices and normal temperatures are
\* interchangeable in every safety property.
EXTENDS SensorState, TLC

Symmetry ==
  Permutations(Handler) \cup Permutations(Device) \cup Permutations(Normal)

=============================================================================
