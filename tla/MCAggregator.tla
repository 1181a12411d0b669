----------------------------- MODULE MCAggregator -----------------------------
EXTENDS Aggregator, TLC

AggregatorSymmetry == Permutations(Call) \cup Permutations(Source \ Byzantine)
=============================================================================
