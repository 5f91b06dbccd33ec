------------------------------ MODULE MCConsensus ------------------------------
\* Consensus on a small instance: three spellings of two values.
EXTENDS ConsensusHistory, TLC

CONSTANTS a, a2, b

MCRank == [s \in {Ecb, Numista} |-> IF s = Ecb THEN 100 ELSE 50]
MCNorm(v) == IF v = a2 THEN a ELSE v

Symmetry == Permutations(Types)
================================================================================
