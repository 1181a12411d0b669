------------------------------ MODULE MCRateLimit ------------------------------
EXTENDS RateLimit, TLC

ContextSymmetry == Permutations(Context)
=============================================================================
