------------------------------ MODULE Marketplace ------------------------------
(***************************************************************************)
(* The collector's portfolio and the marketplace between collectors, one   *)
(* committed request at a time:                                            *)
(*   platform/portfolio.py         pieces, their holder, their trail        *)
(*   platform/marketplace.py       listings, offers, trades, ratings        *)
(*   platform/community_market.py  the asks and sales the app itself sees   *)
(*   platform/achievements.py      awards                                   *)
(* Every action is one HTTP request that answered 2xx, from its guards to   *)
(* its commit; a refused request changes no row and is no step.  A          *)
(* marketplace request is its guards (May...) and its writes (Write...):    *)
(* here they are one step, in MarketRaces another request may come between. *)
(*                                                                         *)
(* Left out: the coin a piece is (issue, grade, notes), what its holder     *)
(* paid for it beyond the observation it feeds, wording of notices, dates.  *)
(* A "pro" plan also stands for the administrator role, which create_listing*)
(* treats alike.                                                            *)
(***************************************************************************)
EXTENDS Naturals, Sequences, FiniteSets

CONSTANTS
    Users,               \* app_user rows
    Items,               \* ids a collection_item row may get (fresh UUIDs)
    Listings,            \* ids a listing row may get
    Offers,              \* ids an offer row may get
    Prices,              \* money a collector may have paid or offer, all positive
    AskingPrices,        \* prices a listing may ask, all positive
    FaceValue,           \* community_market.FACE_VALUE
    FreeActiveListings,  \* marketplace.FREE_ACTIVE_LISTINGS
    MaxEvents,           \* bound: a piece with this many events is not re-verified
    Nobody, NoItem, NoListing

ASSUME MarketAssumption ==
    /\ Prices \subseteq Nat \ {0}
    /\ AskingPrices \subseteq Nat \ {0}
    /\ FaceValue \in Nat \ {0}
    /\ FreeActiveListings \in Nat
    /\ MaxEvents \in Nat
    /\ Nobody \notin Users
    /\ NoItem \notin Items
    /\ NoListing \notin Listings

VARIABLES
    owner,      \* collection_item.user_id, Nobody when there is no row
    removed,    \* pieces whose row was deleted; a UUID is not used twice
    verified,   \* collection_item.verified_at is set
    chain,      \* piece_event rows of the piece, in order
    listing,    \* listing rows
    offer,      \* offer rows
    rated,      \* rating rows, as <<offer, rater>>
    asks,       \* listings with an ASKING market_observation (marketplace EURO2)
    sales,      \* listings with a SOLD market_observation (marketplace EURO2)
    purchases,  \* pieces with a SOLD market_observation (marketplace EURO2_USER)
    plan,       \* app_user.plan
    awards,     \* user_achievement rows
    notices     \* notification rows about offers, as <<user, kind, offer>>

pieceVars  == <<owner, removed, verified, chain>>
marketVars == <<listing, offer, rated>>
priceVars  == <<asks, sales, purchases>>
vars == <<pieceVars, marketVars, priceVars, plan, awards, notices>>

-----------------------------------------------------------------------------
(* Rows.                                                                    *)

NoPrice == 0     \* a NULL price or amount

Event == [kind : {"registered", "verified", "sale", "trade"},
          from : Users \cup {Nobody}, to : Users]

ListingRow == [status : {"unused", "active", "sold", "withdrawn", "deleted"},
               seller : Users \cup {Nobody}, item : Items \cup {NoItem},
               price : AskingPrices \cup {NoPrice}, trades : BOOLEAN]

OfferRow == [status : {"unused", "pending", "accepted", "rejected", "deleted"},
             listing : Listings \cup {NoListing}, buyer : Users \cup {Nobody},
             amount : Prices \cup {NoPrice}, pieces : SUBSET Items]

\* A row that was never inserted ("unused") or that a cascade removed ("deleted").
BlankListing(status) == [status |-> status, seller |-> Nobody, item |-> NoItem,
                         price |-> NoPrice, trades |-> FALSE]
BlankOffer(status) == [status |-> status, listing |-> NoListing, buyer |-> Nobody,
                       amount |-> NoPrice, pieces |-> {}]

Exists(row) == row.status \notin {"unused", "deleted"}
Active(l) == listing[l].status = "active"
Pending(o) == offer[o].status = "pending"
Accepted(o) == offer[o].status = "accepted"

Trail(kind, from, to) == [kind |-> kind, from |-> from, to |-> to]

Init ==
    /\ owner = [i \in Items |-> Nobody]
    /\ removed = {}
    /\ verified = [i \in Items |-> FALSE]
    /\ chain = [i \in Items |-> <<>>]
    /\ listing = [l \in Listings |-> BlankListing("unused")]
    /\ offer = [o \in Offers |-> BlankOffer("unused")]
    /\ rated = {}
    /\ asks = {}
    /\ sales = {}
    /\ purchases = {}
    /\ plan = [u \in Users |-> "free"]
    /\ awards = [u \in Users |-> {}]
    /\ notices = {}

-----------------------------------------------------------------------------
(* achievements.evaluate: what the collection qualifies for now is added to *)
(* what was earned before.  One count milestone stands for them all.        *)

Qualifies(u, own, ver) ==
    {a \in {"first_coin", "verified_piece"} :
        \E i \in Items : own[i] = u /\ (a = "verified_piece" => ver[i])}

Evaluate(u, own, ver) ==
    awards' = [awards EXCEPT ![u] = @ \cup Qualifies(u, own, ver)]

(* Portfolio requests.                                                      *)

\* Mutant of Realized: the comparison with face value made strict.
RealizedAbove(price) == price > FaceValue
\* Below face value it is a gift or a find, not a market price; NoPrice never is one.
Realized(price) == price >= FaceValue

\* POST /me/collection: add_item, record_purchase and evaluate.  paid is NoPrice
\* when no price was given or the collector keeps it private.
AddPiece(u, i, paid) ==
    /\ owner[i] = Nobody /\ i \notin removed
    /\ owner' = [owner EXCEPT ![i] = u]
    /\ chain' = [chain EXCEPT ![i] = <<Trail("registered", Nobody, u)>>]
    /\ purchases' = IF Realized(paid) THEN purchases \cup {i} ELSE purchases
    /\ Evaluate(u, owner', verified)
    /\ UNCHANGED <<removed, verified, marketVars, asks, sales, plan, notices>>

\* POST /me/collection/{id}/verify, when the photo identifies the registered coin
\* with high confidence.
VerifyPiece(u, i) ==
    /\ owner[i] = u
    /\ Len(chain[i]) < MaxEvents
    /\ verified' = [verified EXCEPT ![i] = TRUE]
    /\ chain' = [chain EXCEPT ![i] = Append(@, Trail("verified", Nobody, u))]
    /\ Evaluate(u, owner, verified')
    /\ UNCHANGED <<owner, removed, marketVars, priceVars, plan, notices>>

\* DELETE /me/collection/{id}: remove_item.  The foreign keys cascade to the piece's
\* events and listings, and through these to their offers and ratings; the market
\* observations carry no foreign key to a listing or a piece.
RemovePiece(u, i) ==
    LET gone == {l \in Listings : listing[l].item = i}
        lost == {o \in Offers : offer[o].listing \in gone}
    IN  /\ owner[i] = u
        /\ owner' = [owner EXCEPT ![i] = Nobody]
        /\ removed' = removed \cup {i}
        /\ verified' = [verified EXCEPT ![i] = FALSE]
        /\ chain' = [chain EXCEPT ![i] = <<>>]
        /\ listing' = [l \in Listings |->
                          IF l \in gone THEN BlankListing("deleted") ELSE listing[l]]
        /\ offer' = [o \in Offers |->
                        IF o \in lost THEN BlankOffer("deleted") ELSE offer[o]]
        /\ rated' = {r \in rated : r[1] \notin lost}
        /\ UNCHANGED <<priceVars, plan, awards, notices>>

-----------------------------------------------------------------------------
(* Marketplace requests.                                                    *)

ActiveOf(u) == {l \in Listings : Active(l) /\ listing[l].seller = u}

AlreadyListed(i) == \E k \in Listings : Active(k) /\ listing[k].item = i

\* POST /market/listings: create_listing and record_listing.
MayList(u, l, i, price, trades) ==
    /\ listing[l].status = "unused"
    /\ owner[i] = u /\ verified[i]
    /\ price # NoPrice \/ trades
    /\ ~AlreadyListed(i)
    /\ plan[u] = "free" => Cardinality(ActiveOf(u)) < FreeActiveListings
WriteListing(u, l, i, price, trades) ==
    /\ listing' = [listing EXCEPT ![l] =
                      [status |-> "active", seller |-> u, item |-> i,
                       price |-> price, trades |-> trades]]
    /\ asks' = IF price = NoPrice THEN asks ELSE asks \cup {l}
    /\ UNCHANGED <<pieceVars, offer, rated, sales, purchases, plan, awards, notices>>
CreateListing(u, l, i, price, trades) ==
    MayList(u, l, i, price, trades) /\ WriteListing(u, l, i, price, trades)

\* Mutant of RejectPending: the waiting offers are forgotten.
RejectNone(table, l) == table
\* The rows of table with every pending offer on l (_pending_offers) rejected.
RejectPending(table, l) ==
    [o \in Offers |->
        IF table[o].listing = l /\ table[o].status = "pending"
        THEN [table[o] EXCEPT !.status = "rejected"] ELSE table[o]]

\* Mutant of Unasked: the ask is left behind.
StillAsked(l) == asks
\* close_listing: the asking observation of the listing is deleted.
Unasked(l) == asks \ {l}

\* DELETE /market/listings/{id}: withdraw_listing and close_listing without a sale.
MayWithdraw(u, l) == Active(l) /\ listing[l].seller = u
WriteWithdraw(l) ==
    /\ listing' = [listing EXCEPT ![l].status = "withdrawn"]
    /\ offer' = RejectPending(offer, l)
    /\ asks' = Unasked(l)
    /\ UNCHANGED <<pieceVars, rated, sales, purchases, plan, awards, notices>>
WithdrawListing(u, l) == MayWithdraw(u, l) /\ WriteWithdraw(l)

\* Mutant of Offerable: the offered piece need not be verified.
OfferableUnverified(u, i) == owner[i] = u
Offerable(u, i) == owner[i] = u /\ verified[i]

\* POST /market/listings/{id}/offers: make_offer.
MayOffer(u, o, l, amount, pieces) ==
    /\ offer[o].status = "unused"
    /\ Active(l) /\ listing[l].seller # u
    /\ amount # NoPrice \/ pieces # {}
    /\ pieces # {} => listing[l].trades
    /\ \A i \in pieces : Offerable(u, i)
WriteOffer(u, o, l, amount, pieces) ==
    /\ offer' = [offer EXCEPT ![o] =
                    [status |-> "pending", listing |-> l, buyer |-> u,
                     amount |-> amount, pieces |-> pieces]]
    /\ notices' = notices \cup {<<listing[l].seller, "offer_received", o>>}
    /\ UNCHANGED <<pieceVars, listing, rated, priceVars, plan, awards>>
MakeOffer(u, o, l, amount, pieces) ==
    MayOffer(u, o, l, amount, pieces) /\ WriteOffer(u, o, l, amount, pieces)

\* decide_offer's guards: the seller decides a pending offer on an active listing.
MayDecide(u, o) ==
    /\ Pending(o)
    /\ Active(offer[o].listing)
    /\ listing[offer[o].listing].seller = u

\* POST /market/offers/{id}/reject.
WriteReject(o) ==
    /\ offer' = [offer EXCEPT ![o].status = "rejected"]
    /\ UNCHANGED <<pieceVars, listing, rated, priceVars, plan, awards, notices>>
RejectOffer(u, o) == MayDecide(u, o) /\ WriteReject(o)

\* Mutant of Handed: every offered piece, wherever it is by now.
HandedUnchecked(o) == offer[o].pieces
\* The offered pieces that change hands: those the buyer holds once the listed piece
\* is theirs.  A piece since sold or removed is passed over in silence.
Handed(o) ==
    LET l == offer[o].listing
    IN  {i \in offer[o].pieces :
            [owner EXCEPT ![listing[l].item] = offer[o].buyer][i] = offer[o].buyer}

\* POST /market/offers/{id}/accept: transfer_item for the listed piece, which the
\* request read while `from` held it, and for every handed one; close_listing, and the
\* other offers rejected.  Assigning a column the value read writes nothing.
WriteAccept(u, o, from) ==
    LET l     == offer[o].listing
        piece == listing[l].item
        buyer == offer[o].buyer
        kind  == IF offer[o].pieces = {} THEN "sale" ELSE "trade"
        sale(i)  == IF i = piece THEN <<Trail(kind, from, buyer)>> ELSE <<>>
        swap(i)  == IF i \in Handed(o) THEN <<Trail("trade", buyer, u)>> ELSE <<>>
    IN  /\ owner' = [i \in Items |-> IF i \in Handed(o) THEN u
                                     ELSE IF i = piece /\ from # buyer THEN buyer
                                     ELSE owner[i]]
        /\ chain' = [i \in Items |-> chain[i] \o sale(i) \o swap(i)]
        /\ listing' = [listing EXCEPT ![l].status = "sold"]
        /\ offer' = RejectPending([offer EXCEPT ![o].status = "accepted"], l)
        /\ asks' = Unasked(l)
        /\ sales' = IF Realized(offer[o].amount) THEN sales \cup {l} ELSE sales
        /\ notices' = notices \cup {<<buyer, "offer_accepted", o>>}
        /\ UNCHANGED <<removed, verified, rated, purchases, plan, awards>>
AcceptOffer(u, o) ==
    MayDecide(u, o) /\ WriteAccept(u, o, owner[listing[offer[o].listing].item])

\* POST /market/offers/{id}/rate: rate_counterparty.
MayRate(u, o) ==
    /\ Accepted(o)
    /\ u \in {listing[offer[o].listing].seller, offer[o].buyer}
    /\ <<o, u>> \notin rated
WriteRating(u, o) ==
    /\ rated' = rated \cup {<<o, u>>}
    /\ UNCHANGED <<pieceVars, listing, offer, priceVars, plan, awards, notices>>
RateOffer(u, o) == MayRate(u, o) /\ WriteRating(u, o)

\* POST /me/plan/pro, or the administrator's PATCH of a user, in either direction.
SetPlan(u, p) ==
    /\ plan[u] # p
    /\ plan' = [plan EXCEPT ![u] = p]
    /\ UNCHANGED <<pieceVars, marketVars, priceVars, awards, notices>>

Next ==
    \E u \in Users :
        \/ \E i \in Items :
              \/ \E paid \in Prices \cup {NoPrice} : AddPiece(u, i, paid)
              \/ VerifyPiece(u, i)
              \/ RemovePiece(u, i)
        \/ \E l \in Listings, i \in Items, price \in AskingPrices \cup {NoPrice},
              trades \in BOOLEAN : CreateListing(u, l, i, price, trades)
        \/ \E l \in Listings : WithdrawListing(u, l)
        \/ \E o \in Offers, l \in Listings, amount \in Prices \cup {NoPrice},
              pieces \in SUBSET Items : MakeOffer(u, o, l, amount, pieces)
        \/ \E o \in Offers : \/ RejectOffer(u, o)
                             \/ AcceptOffer(u, o)
                             \/ RateOffer(u, o)
        \/ \E p \in {"free", "pro"} : SetPlan(u, p)

Spec == Init /\ [][Next]_vars

-----------------------------------------------------------------------------
(* Properties.                                                              *)

\* Type invariant.
TypeOK ==
    /\ owner \in [Items -> Users \cup {Nobody}]
    /\ removed \subseteq Items
    /\ verified \in [Items -> BOOLEAN]
    /\ chain \in [Items -> Seq(Event)]
    /\ listing \in [Listings -> ListingRow]
    /\ offer \in [Offers -> OfferRow]
    /\ rated \subseteq Offers \X Users
    /\ asks \subseteq Listings /\ sales \subseteq Listings /\ purchases \subseteq Items
    /\ plan \in [Users -> {"free", "pro"}]
    /\ awards \in [Users -> SUBSET {"first_coin", "verified_piece"}]
    /\ notices \subseteq Users \X {"offer_received", "offer_accepted"} \X Offers

\* A listing is settled exactly once: an offer waits only on an active listing, a
\* listing is sold if and only if one offer on it was accepted, and never two.
\* (withdraw_listing and decide_offer reject what is left; decide_offer tests both rows.)
SettledOnce ==
    /\ \A o \in Offers : Pending(o) => Active(offer[o].listing)
    /\ \A o \in Offers : Accepted(o) => listing[offer[o].listing].status = "sold"
    /\ \A l \in Listings : listing[l].status = "sold" =>
          \E o \in Offers : Accepted(o) /\ offer[o].listing = l
    /\ \A o, p \in Offers :
          Accepted(o) /\ Accepted(p) /\ offer[o].listing = offer[p].listing => o = p

\* No piece is on sale twice (the "already listed" check of create_listing).
OneActiveListing ==
    \A l, k \in Listings :
        Active(l) /\ Active(k) /\ listing[l].item = listing[k].item => l = k

\* The trail a certificate signs: it begins with a registration, every later event
\* takes over from the holder the previous one left, and it ends at today's holder.
Continuous(c) ==
    /\ c[1].kind = "registered"
    /\ \A k \in 2..Len(c) :
          /\ c[k].kind # "registered"
          /\ IF c[k].kind = "verified" THEN c[k].to = c[k - 1].to
                                       ELSE c[k].from = c[k - 1].to
ProvenanceUnbroken ==
    \A i \in Items :
        owner[i] # Nobody => /\ chain[i] # <<>>
                             /\ Continuous(chain[i])
                             /\ chain[i][Len(chain[i])].to = owner[i]

\* Only verified pieces change hands: a sale or a trade in a trail comes after a
\* verification, offers that waited while the pieces moved included.
VerifiedBeforeSold ==
    \A i \in Items : \A k \in 1..Len(chain[i]) :
        chain[i][k].kind \in {"sale", "trade"} =>
            \E j \in 1..k : chain[i][j].kind = "verified"

\* The app's own market data tells the marketplace's story: while a listing row exists
\* it has an ask exactly while it is active with a price, and a realised sale exactly
\* when it went for at least face value (record_listing, close_listing).
MarketDataAgrees ==
    \A l \in Listings : Exists(listing[l]) =>
        /\ l \in asks <=> Active(l) /\ listing[l].price # NoPrice
        /\ l \in sales <=> \E o \in Offers : /\ Accepted(o) /\ offer[o].listing = l
                                             /\ offer[o].amount >= FaceValue

\* Holder, verification and trail of every piece only ever move as PieceLedger says.
Ledger == INSTANCE PieceLedger
              WITH Users <- Users, Items <- Items, Nobody <- Nobody,
                   owner <- owner, removed <- removed, verified <- verified, chain <- chain
LedgerSpec == Ledger!Spec
================================================================================
