------------------------------- MODULE MCNewsroom -------------------------------
\* Newsroom on a small instance: one report, a reporter and three other experts.
EXTENDS Newsroom

\* A quiet day, and one with a sale.
MCMarkets == {{}, {"sales", "record"}}

Symmetry == Permutations(Coins) \cup Permutations(Experts)
               \cup Permutations(Ballots) \cup Permutations(Publishers)

\* The bulletin shares no state with events, reports and votes: their interleavings with it
\* are left out, all of its own and all of theirs are there.
Apart ==
    \/ accounts = {} /\ bulletin = Blank /\ draft = NoDraft
    \/ log = <<>> /\ votes = {} /\ \A r \in Reports : report[r].status = "none"
=================================================================================
