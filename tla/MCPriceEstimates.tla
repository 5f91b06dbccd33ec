---------------------------- MODULE MCPriceEstimates ----------------------------
\* PriceEstimates on a small instance: one issue.
EXTENDS PriceEstimates, Scarcity, TLC

\* Three issues of two designs, the second an edition of the first; one place was searched
\* or both.
CONSTANTS normal, roll, coloured, design, edition
MCDesignOf == (normal :> design) @@ (roll :> design) @@ (coloured :> edition)
MCFinishOf == (normal :> "CIRCULATION") @@ (roll :> "CIRCULATION") @@ (coloured :> "PROOF")
MCPlaceOf == (normal :> 1) @@ (roll :> 1) @@ (coloured :> 2)
MCBase == (design :> NoDesign) @@ (edition :> design)
MCBuckets == {[upper |-> 15, low |-> 800, high |-> 3000], [upper |-> 600, low |-> 6, high |-> 18]}
MCFactor == ("CIRCULATION" :> 100) @@ ("PROOF" :> 200)

\* Either moves while the other has not begun.
MCInit == Init /\ CatalogueInit
MCNext ==
    \/ Next /\ CatalogueInit /\ UNCHANGED mintages
    \/ Init /\ CatalogueNext /\ UNCHANGED vars
MCSpec == MCInit /\ [][MCNext]_<<vars, mintages>> /\ Fairness
================================================================================
