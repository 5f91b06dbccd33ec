------------------------------- MODULE MCSyncJob -------------------------------
\* SyncJob on a small instance.
EXTENDS SyncJob, TLC

\* For the safety runs: units are interchangeable, and so are manual requests.
Symmetry == Permutations(Units) \cup Permutations(Manuals)
================================================================================
