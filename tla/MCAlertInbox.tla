---------------------------- MODULE MCAlertInbox ----------------------------
\* AlertInbox for TLC.  No symmetry, because of liveness.
EXTENDS AlertInbox

CONSTANTS g1, g2

\* One group alone, and one whose posts overlap with another's.
OneOrTwoGroups == {<<g1, g1, g1>>, <<g1, g2, g1>>}

=============================================================================
