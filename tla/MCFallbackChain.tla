--------------------------- MODULE MCFallbackChain ---------------------------
EXTENDS FallbackChain, TLC
=============================================================================
