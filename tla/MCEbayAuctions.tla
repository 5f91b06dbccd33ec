----------------------------- MODULE MCEbayAuctions -----------------------------
\* EbayAuctions and EbayBudget on small instances.
EXTENDS EbayAuctions, EbayBudget

\* The two share no state (a search that the budget ends is one of StoreFails): either moves
\* while the other has not begun.
MCInit == AuctionInit /\ BudgetInit
MCNext ==
    \/ BudgetInit /\ AuctionNext /\ UNCHANGED budgetVars
    \/ AuctionInit /\ BudgetNext /\ UNCHANGED auctionVars
MCSpec == MCInit /\ [][MCNext]_<<auctionVars, budgetVars>> /\ AuctionFairness
================================================================================
