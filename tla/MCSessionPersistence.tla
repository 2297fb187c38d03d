------------------------- MODULE MCSessionPersistence -------------------------
EXTENDS SessionPersistenceProperties, TLC

Symmetry == Permutations(Sessions)
=============================================================================
