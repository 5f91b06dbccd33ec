----------------------------- MODULE MCMarketRaces -----------------------------
\* MarketRaces on a small instance.
EXTENDS MarketRaces, TLC

Symmetry == Permutations(Users) \cup Permutations(Items) \cup Permutations(Listings)
              \cup Permutations(Offers) \cup Permutations(Workers)
================================================================================
