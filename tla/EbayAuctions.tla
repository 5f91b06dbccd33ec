------------------------------ MODULE EbayAuctions ------------------------------
(***************************************************************************)
(* How auctions become realised sales:                                      *)
(*   catalog/ingest_ebay.py   ingest_listings, close_auction                *)
(*   scheduler/jobs.py        run_ebay_market (as ebay_market and ebay_hot)  *)
(*                            and run_auction_close_check                    *)
(*   sources/ebay/parser.py   what a summary and an item say                *)
(* The three jobs hold different locks and run at once.  A search answers   *)
(* with what is live then and its rows are stored later; the close check    *)
(* reads its queue, then asks eBay about one auction after the other.       *)
(*                                                                         *)
(* Left out: fixed-price listings, the matching of titles (every auction     *)
(* here matches a coin), prices, the call budget, cursors (see SyncJob).     *)
(***************************************************************************)
EXTENDS Naturals, FiniteSets

CONSTANTS
    Listings,     \* eBay's item ids of auctions
    Searches,     \* the jobs that search: ebay_market, ebay_hot
    MaxFailures,  \* bound on runs that fail on the network or the database
    Nothing

ASSUME AuctionsAssumption ==
    MaxFailures \in Nat /\ Nothing \notin Listings

VARIABLES
    ebay,    \* what eBay serves of the auction
    open,    \* listings with an AUCTION_OPEN observation
    due,     \* those whose recorded ends_at has passed
    closed,  \* listings with an AUCTION_CLOSED observation
    found,   \* per search job: the answer it has not stored yet
    queue,   \* the close check's listings still to ask about; Nothing when it does not run
    asked,   \* the one it asked about, Nothing if none
    answer,  \* and what eBay answered
    failures

auctionVars == <<ebay, open, due, closed, found, queue, asked, answer, failures>>
checkVars == <<queue, asked, answer>>

Running == queue # Nothing

AuctionInit ==
    /\ ebay = [l \in Listings |-> "unlisted"]
    /\ open = {} /\ due = {} /\ closed = {}
    /\ found = [j \in Searches |-> {}]
    /\ queue = Nothing /\ asked = Nothing /\ answer = "unlisted"
    /\ failures = 0

-----------------------------------------------------------------------------
(* eBay.                                                                    *)

Becomes(l, state) ==
    /\ ebay' = [ebay EXCEPT ![l] = state]
    /\ UNCHANGED <<open, due, closed, found, checkVars, failures>>

Offered(l) == ebay[l] = "unlisted" /\ Becomes(l, "live")
\* With bids, without, or with a last bid that is missing or not in euros.
Results == {"sold", "unsold", "unpriced"}
Ended(l) == ebay[l] = "live" /\ \E result \in Results : Becomes(l, result)
\* An ended item is answered with 404 or 410 after a while.
Forgotten(l) == ebay[l] \in Results /\ Becomes(l, "gone")

\* The recorded end passes; eBay may have moved the auction's end since.
Passes(l) ==
    /\ l \in open \ due
    /\ due' = due \cup {l}
    /\ UNCHANGED <<ebay, open, closed, found, checkVars, failures>>

-----------------------------------------------------------------------------
(* The searches.                                                            *)

SearchEbay(j) ==
    /\ found[j] = {}
    /\ \E live \in SUBSET {l \in Listings : ebay[l] = "live"} :
          live # {} /\ found' = [found EXCEPT ![j] = live]
    /\ UNCHANGED <<ebay, open, due, closed, checkVars, failures>>

\* ingest_listings writes the end the answer carries, of new rows and of known ones.
StillDue(listings) == due \ listings

\* ingest_listings and its commit: an unknown listing is inserted, a known one updated.
Store(j) ==
    /\ found[j] # {}
    /\ open' = open \cup found[j]
    /\ due' = StillDue(found[j])
    /\ found' = [found EXCEPT ![j] = {}]
    /\ UNCHANGED <<ebay, closed, checkVars, failures>>

\* The run fails: the other search inserted the same listing between this one's SELECT and
\* its flush, the close check deleted a row it updates, the network, the database.
StoreFails(j) ==
    /\ found[j] # {}
    /\ failures < MaxFailures /\ failures' = failures + 1
    /\ found' = [found EXCEPT ![j] = {}]
    /\ UNCHANGED <<ebay, open, due, closed, checkVars>>

-----------------------------------------------------------------------------
(* The close check.                                                         *)

StartCheck ==
    /\ ~Running
    /\ queue' = due
    /\ UNCHANGED <<ebay, open, due, closed, found, asked, answer, failures>>

AskAbout(l) ==
    /\ Running /\ asked = Nothing /\ l \in queue
    /\ asked' = l /\ answer' = ebay[l]
    /\ queue' = queue \ {l}
    /\ UNCHANGED <<ebay, open, due, closed, found, failures>>

Answered == asked # Nothing
NextOne == asked' = Nothing /\ answer' = "unlisted"
Stop == queue' = Nothing /\ NextOne

Drop ==
    /\ open' = open \ {asked} /\ due' = due \ {asked}
    /\ NextOne /\ UNCHANGED <<ebay, found, queue, failures>>

\* Mutant of Over: no second look at the end date.
OverWithoutSale == answer # "sold"
\* No sale: eBay serves the item no more, or it ended without a bid.  The second look at it
\* asks for the price too: an ended item without one counts as still open.
Over == answer \in {"unsold", "gone"}

\* Mutant of DropUnsold: an item that is no longer served fails the run.
DropUnsoldOnly ==
    /\ Answered /\ Over /\ UNCHANGED closed
    /\ IF answer = "unsold" THEN Drop ELSE Stop /\ UNCHANGED <<ebay, open, due, found, failures>>
DropUnsold == Answered /\ Over /\ Drop /\ UNCHANGED closed

\* still_open: the end date moved into the future, or there is no price to close with.
KeepOpen ==
    /\ Answered /\ answer \in {"live", "unpriced"} /\ ~Over
    /\ NextOne
    /\ UNCHANGED <<ebay, open, due, closed, found, queue, failures>>

\* close_auction.
Close ==
    /\ Answered /\ answer = "sold" /\ asked \notin closed
    /\ closed' = closed \cup {asked}
    /\ Drop

\* uq_market_observation_listing: the sale is there already; the run is FAILED.
CloseTwice ==
    /\ Answered /\ answer = "sold" /\ asked \in closed
    /\ Stop
    /\ UNCHANGED <<ebay, open, due, closed, found, failures>>

\* A request or a commit fails and with it the run.
CheckFails ==
    /\ Running
    /\ failures < MaxFailures /\ failures' = failures + 1
    /\ Stop
    /\ UNCHANGED <<ebay, open, due, closed, found>>

EndCheck ==
    /\ queue = {} /\ asked = Nothing
    /\ Stop
    /\ UNCHANGED <<ebay, open, due, closed, found, failures>>

Check == \/ StartCheck \/ DropUnsold \/ KeepOpen \/ Close \/ CloseTwice \/ EndCheck
         \/ \E l \in Listings : AskAbout(l)

AuctionNext ==
    \/ \E l \in Listings : Offered(l) \/ Ended(l) \/ Forgotten(l) \/ Passes(l)
    \/ \E j \in Searches : SearchEbay(j) \/ Store(j) \/ StoreFails(j)
    \/ Check
    \/ CheckFails

AuctionSpec == AuctionInit /\ [][AuctionNext]_auctionVars

\* The close check runs every hour and goes on to its end, an answer is stored, auctions end
\* and their recorded ends pass, and eBay does not serve an ended item for ever.
AuctionFairness ==
    /\ WF_auctionVars(Check)
    /\ \A j \in Searches : WF_auctionVars(Store(j))
    /\ \A l \in Listings :
          WF_auctionVars(Ended(l)) /\ WF_auctionVars(Passes(l)) /\ WF_auctionVars(Forgotten(l))

AuctionFairSpec == AuctionSpec /\ AuctionFairness

-----------------------------------------------------------------------------
(* Properties.                                                              *)

States == {"unlisted", "live", "gone"} \cup Results
AuctionTypeOK ==
    /\ ebay \in [Listings -> States]
    /\ open \subseteq Listings /\ due \subseteq open /\ closed \subseteq Listings
    /\ found \in [Searches -> SUBSET Listings]
    /\ queue \in (SUBSET Listings) \cup {Nothing}
    /\ asked \in Listings \cup {Nothing}
    /\ answer \in States
    /\ failures \in 0..MaxFailures

\* An auction is dropped from the watch only for good: never one that still runs, and one
\* that was sold for euros only together with the record of its sale, unless eBay had
\* forgotten it by the time it was asked.
DroppedForGood ==
    [][\A l \in open \ open' : /\ ebay[l] # "live"
                               /\ ebay[l] = "sold" => l \in closed']_auctionVars

\* "Ended auctions eBay no longer serves are dropped instead of blocking the queue": an
\* auction whose recorded end has passed leaves the watch, or a later search moves its end;
\* one without a price only once eBay has forgotten it.
QueueDrains == \A l \in Listings : l \in due ~> l \notin due
================================================================================
