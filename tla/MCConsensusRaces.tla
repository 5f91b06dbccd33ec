---------------------------- MODULE MCConsensusRaces ----------------------------
\* ConsensusRaces on a small instance: two values, written in one way each.
EXTENDS ConsensusRaces, TLC

CONSTANTS a, b

MCRank == [s \in {Ecb, Numista} |-> IF s = Ecb THEN 100 ELSE 50]
MCNorm(v) == v

Symmetry == Permutations(Types) \cup Permutations(Values)
================================================================================
