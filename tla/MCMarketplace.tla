----------------------------- MODULE MCMarketplace -----------------------------
(* Small instances of Marketplace for TLC. *)
EXTENDS Marketplace, TLC

\* Listing and offer ids are drawn from a set of unused ones, so the ids of a kind are
\* interchangeable; so are collectors and pieces.
Symmetry == Permutations(Users) \cup Permutations(Items)
              \cup Permutations(Listings) \cup Permutations(Offers)
================================================================================
