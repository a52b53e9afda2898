------------------------- MODULE MCRelationshipBond -------------------------
EXTENDS RelationshipBond, TLC

Alike == Permutations(Attempts) \cup Permutations(Exchanges)

=============================================================================
