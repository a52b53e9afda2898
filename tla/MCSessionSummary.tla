-------------------------- MODULE MCSessionSummary --------------------------
EXTENDS SessionSummary, TLC

CONSTANTS j1, j2, j3

OneLegacyJob == {j3}
Alike == Permutations(Consolidators) \cup Permutations(Jobs \ Legacy)

=============================================================================
