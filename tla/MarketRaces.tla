------------------------------ MODULE MarketRaces ------------------------------
(***************************************************************************)
(* The marketplace requests of Marketplace when they overlap.  Every       *)
(* request has a database session of its own, the isolation level is READ   *)
(* COMMITTED, no row is locked by a read and every read is awaited: between *)
(* the guards of one request and its writes another one may commit.  What   *)
(* still refuses a late write is the database: a row that is gone (an       *)
(* UPDATE that matches nothing, a foreign key) and the unique constraints.   *)
(*                                                                         *)
(* A request is two steps: it starts (its guards hold), and it writes and   *)
(* commits.  Reads that follow the first write (the offers still pending,   *)
(* the holders of the offered pieces) are made at the commit.  Requests of  *)
(* the portfolio and of the plan stay one step.                             *)
(***************************************************************************)
EXTENDS Marketplace

CONSTANTS
    Workers,    \* requests the server works on at once (bound)
    Idle        \* a worker without a request

VARIABLE inflight   \* per worker: the request whose guards held, and what it remembers

raceVars == <<vars, inflight>>

RaceInit == Init /\ inflight = [w \in Workers |-> Idle]

-----------------------------------------------------------------------------
Start(w, request) ==
    /\ inflight[w] = Idle
    /\ inflight' = [inflight EXCEPT ![w] = request]
    /\ UNCHANGED vars

Finish(w) == inflight' = [inflight EXCEPT ![w] = Idle]

\* The request on w was started and asks for this.
Asks(w, kind) == inflight[w] # Idle /\ inflight[w].kind = kind

StartListing(w, u, i, price, trades) ==
    /\ \E l \in Listings : MayList(u, l, i, price, trades)
    /\ Start(w, [kind |-> "list", user |-> u, item |-> i, price |-> price, trades |-> trades])

\* The listing gets its id at the flush; its foreign key needs the piece's row.
FinishListing(w) ==
    LET r == inflight[w]
    IN  /\ Asks(w, "list")
        /\ owner[r.item] # Nobody
        /\ \E l \in Listings : /\ listing[l].status = "unused"
                               /\ WriteListing(r.user, l, r.item, r.price, r.trades)
        /\ Finish(w)

StartWithdraw(w, u, l) ==
    MayWithdraw(u, l) /\ Start(w, [kind |-> "withdraw", user |-> u, listing |-> l])

FinishWithdraw(w) ==
    LET r == inflight[w]
    IN  Asks(w, "withdraw") /\ Exists(listing[r.listing]) /\ WriteWithdraw(r.listing) /\ Finish(w)

StartOffer(w, u, l, amount, pieces) ==
    /\ \E o \in Offers : MayOffer(u, o, l, amount, pieces)
    /\ Start(w, [kind |-> "offer", user |-> u, listing |-> l, amount |-> amount,
                 pieces |-> pieces])

FinishOffer(w) ==
    LET r == inflight[w]
    IN  /\ Asks(w, "offer")
        /\ Exists(listing[r.listing])
        /\ \E o \in Offers : /\ offer[o].status = "unused"
                             /\ WriteOffer(r.user, o, r.listing, r.amount, r.pieces)
        /\ Finish(w)

StartDecide(w, u, o, accept) ==
    /\ MayDecide(u, o)
    /\ Start(w, [kind |-> "decide", user |-> u, offer |-> o, accept |-> accept,
                 from |-> owner[listing[offer[o].listing].item]])

FinishReject(w) ==
    LET r == inflight[w]
    IN  /\ Asks(w, "decide") /\ ~r.accept
        /\ Exists(offer[r.offer])
        /\ WriteReject(r.offer)
        /\ Finish(w)

\* Mutant of MaySell: the table of observations without its unique constraint.
SellsFreely(o) == TRUE
\* uq_market_observation_listing: one realised sale per listing.
MaySell(o) == Realized(offer[o].amount) => offer[o].listing \notin sales

\* The piece's row was read before the other request committed, or after.
FinishAccept(w) ==
    LET r == inflight[w]
    IN  /\ Asks(w, "decide") /\ r.accept
        /\ Exists(offer[r.offer])
        /\ MaySell(r.offer)
        /\ \E from \in {r.from, owner[listing[offer[r.offer].listing].item]} :
              WriteAccept(r.user, r.offer, from)
        /\ Finish(w)

StartRating(w, u, o) ==
    MayRate(u, o) /\ Start(w, [kind |-> "rate", user |-> u, offer |-> o])

\* uq_rating_once_per_side, and the offer's foreign key.
FinishRating(w) ==
    LET r == inflight[w]
    IN  /\ Asks(w, "rate")
        /\ Exists(offer[r.offer])
        /\ <<r.offer, r.user>> \notin rated
        /\ WriteRating(r.user, r.offer)
        /\ Finish(w)

\* The database refuses the write, or the connection or the process is lost before the
\* commit: the transaction is rolled back.
Fail(w) == inflight[w] # Idle /\ Finish(w) /\ UNCHANGED vars

\* Requests that stay one step.
Whole ==
    /\ \E u \in Users :
          \/ \E i \in Items : \/ \E paid \in Prices \cup {NoPrice} : AddPiece(u, i, paid)
                              \/ VerifyPiece(u, i)
                              \/ RemovePiece(u, i)
          \/ \E p \in {"free", "pro"} : SetPlan(u, p)
    /\ UNCHANGED inflight

RaceNext ==
    \/ Whole
    \/ \E w \in Workers, u \in Users :
          \/ \E i \in Items, price \in AskingPrices \cup {NoPrice}, trades \in BOOLEAN :
                StartListing(w, u, i, price, trades)
          \/ \E l \in Listings : StartWithdraw(w, u, l)
          \/ \E l \in Listings, amount \in Prices \cup {NoPrice}, pieces \in SUBSET Items :
                StartOffer(w, u, l, amount, pieces)
          \/ \E o \in Offers : \/ \E accept \in BOOLEAN : StartDecide(w, u, o, accept)
                               \/ StartRating(w, u, o)
    \/ \E w \in Workers :
          \/ FinishListing(w) \/ FinishWithdraw(w) \/ FinishOffer(w)
          \/ FinishReject(w) \/ FinishAccept(w) \/ FinishRating(w)
          \/ Fail(w)

RaceSpec == RaceInit /\ [][RaceNext]_raceVars

-----------------------------------------------------------------------------
(* What holds however requests overlap.                                     *)

\* One realised sale per listing: of the accepted offers on a listing at most one
\* reached face value.  The guards alone do not keep it; the unique constraint on the
\* sale that close_listing records rolls the second acceptance back.
RealisedOnce ==
    \A o, p \in Offers :
        /\ Accepted(o) /\ Accepted(p) /\ offer[o].listing = offer[p].listing
        /\ Realized(offer[o].amount) /\ Realized(offer[p].amount)
        => o = p

\* A listing that was sold or withdrawn, by whichever request came last, leaves no
\* asking price behind (close_listing looks the ask up again at the write).
ClosedLeavesNoAsk ==
    \A l \in Listings : Exists(listing[l]) /\ ~Active(l) => l \notin asks
================================================================================
