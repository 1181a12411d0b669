-------------------------------- MODULE MCCache --------------------------------
EXTENDS Cache, TLC

DestSymmetry == Permutations(Dest)
=============================================================================
