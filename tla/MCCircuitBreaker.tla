--------------------------- MODULE MCCircuitBreaker ---------------------------
EXTENDS CircuitBreaker, TLC

CallSymmetry == Permutations(Call) \cup Permutations(Dest)
=============================================================================
