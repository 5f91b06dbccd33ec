--------------------------- MODULE MarketplaceProofs ---------------------------
(***************************************************************************)
(* Theorems about Marketplace, for any collectors, pieces, listings, offers *)
(* and prices, and about MarketRaces, for any number of requests in flight. *)
(***************************************************************************)
EXTENDS MarketRaces, TLAPS

\* Trail builds an event of the trail whenever its parties are collectors.
LEMMA TrailType ==
    ASSUME NEW kind \in {"registered", "verified", "sale", "trade"},
           NEW from \in Users \cup {Nobody}, NEW to \in Users
    PROVE  Trail(kind, from, to) \in Event
BY DEF Trail, Event

\* Rejecting what waits on a listing keeps the offer table well typed.
LEMMA RejectPendingType ==
    ASSUME NEW table \in [Offers -> OfferRow], NEW l
    PROVE  RejectPending(table, l) \in [Offers -> OfferRow]
BY DEF RejectPending, OfferRow

\* A row whose status changes is still a row.
LEMMA StatusType ==
    /\ \A table \in [Listings -> ListingRow], l \in Listings,
          s \in {"unused", "active", "sold", "withdrawn", "deleted"} :
          [table EXCEPT ![l].status = s] \in [Listings -> ListingRow]
    /\ \A table \in [Offers -> OfferRow], o \in Offers,
          s \in {"unused", "pending", "accepted", "rejected", "deleted"} :
          [table EXCEPT ![o].status = s] \in [Offers -> OfferRow]
<1>1. ASSUME NEW table \in [Listings -> ListingRow], NEW l \in Listings,
             NEW s \in {"unused", "active", "sold", "withdrawn", "deleted"}
      PROVE  [table EXCEPT ![l].status = s] \in [Listings -> ListingRow]
  <2>1. [table[l] EXCEPT !.status = s] \in ListingRow
    BY DEF ListingRow
  <2> QED
    BY <2>1
<1>2. ASSUME NEW table \in [Offers -> OfferRow], NEW o \in Offers,
             NEW s \in {"unused", "pending", "accepted", "rejected", "deleted"}
      PROVE  [table EXCEPT ![o].status = s] \in [Offers -> OfferRow]
  <2>1. [table[o] EXCEPT !.status = s] \in OfferRow
    BY DEF OfferRow
  <2> QED
    BY <2>1
<1> QED
    BY <1>1, <1>2

\* Awards stay awards.
LEMMA EvaluateType ==
    ASSUME awards \in [Users -> SUBSET {"first_coin", "verified_piece"}],
           NEW u \in Users, NEW own, NEW ver, Evaluate(u, own, ver)
    PROVE  awards' \in [Users -> SUBSET {"first_coin", "verified_piece"}]
BY DEF Evaluate, Qualifies

-----------------------------------------------------------------------------
(* Every request names a collector, and rows of the tables it works on.      *)

\* A live listing names its seller and its piece, a live offer its listing and its
\* buyer; only rows that were never inserted or were cascaded away are blank.
RowsNamed ==
    /\ \A l \in Listings : Exists(listing[l]) =>
          listing[l].seller \in Users /\ listing[l].item \in Items
    /\ \A o \in Offers : Exists(offer[o]) =>
          offer[o].listing \in Listings /\ offer[o].buyer \in Users

LEMMA TypeOKInit == Init => TypeOK /\ RowsNamed
<1> SUFFICES ASSUME Init PROVE TypeOK /\ RowsNamed
    OBVIOUS
<1>1. BlankListing("unused") \in ListingRow /\ BlankOffer("unused") \in OfferRow
    BY DEF BlankListing, BlankOffer, ListingRow, OfferRow
<1>2. chain \in [Items -> Seq(Event)]
    BY DEF Init
<1> QED
    BY <1>1, <1>2 DEF Init, TypeOK, RowsNamed, Exists, BlankListing, BlankOffer

LEMMA TypeOKStep == TypeOK /\ RowsNamed /\ [Next]_vars => TypeOK' /\ RowsNamed'
<1> SUFFICES ASSUME TypeOK, RowsNamed, [Next]_vars PROVE TypeOK' /\ RowsNamed'
    OBVIOUS
<1> USE MarketAssumption
<1>1. ASSUME NEW u \in Users, NEW i \in Items, NEW paid \in Prices \cup {NoPrice},
             AddPiece(u, i, paid)
      PROVE  TypeOK' /\ RowsNamed'
  <2>1. Trail("registered", Nobody, u) \in Event
    BY TrailType
  <2>2. chain' \in [Items -> Seq(Event)]
    BY <1>1, <2>1 DEF AddPiece, TypeOK
  <2>3. awards' \in [Users -> SUBSET {"first_coin", "verified_piece"}]
    BY <1>1, EvaluateType DEF AddPiece, TypeOK
  <2> QED
    BY <1>1, <2>2, <2>3 DEF AddPiece, TypeOK, RowsNamed, marketVars
<1>2. ASSUME NEW u \in Users, NEW i \in Items, VerifyPiece(u, i)
      PROVE  TypeOK' /\ RowsNamed'
  <2>1. Trail("verified", Nobody, u) \in Event
    BY TrailType
  <2>2. chain' \in [Items -> Seq(Event)]
    BY <1>2, <2>1 DEF VerifyPiece, TypeOK
  <2>3. awards' \in [Users -> SUBSET {"first_coin", "verified_piece"}]
    BY <1>2, EvaluateType DEF VerifyPiece, TypeOK
  <2> QED
    BY <1>2, <2>2, <2>3 DEF VerifyPiece, TypeOK, RowsNamed, marketVars, priceVars
<1>3. ASSUME NEW u \in Users, NEW i \in Items, RemovePiece(u, i)
      PROVE  TypeOK' /\ RowsNamed'
  <2>1. BlankListing("deleted") \in ListingRow /\ BlankOffer("deleted") \in OfferRow
    BY DEF BlankListing, BlankOffer, ListingRow, OfferRow
  <2>2. chain' \in [Items -> Seq(Event)]
    BY <1>3 DEF RemovePiece, TypeOK
  <2>3. listing' \in [Listings -> ListingRow] /\ offer' \in [Offers -> OfferRow]
    BY <1>3, <2>1 DEF RemovePiece, TypeOK
  <2>4. RowsNamed'
    BY <1>3 DEF RemovePiece, RowsNamed, Exists, BlankListing, BlankOffer
  <2> QED
    BY <1>3, <2>2, <2>3, <2>4 DEF RemovePiece, TypeOK, priceVars
<1>4. ASSUME NEW u \in Users, NEW l \in Listings, NEW i \in Items,
             NEW price \in AskingPrices \cup {NoPrice}, NEW trades \in BOOLEAN,
             CreateListing(u, l, i, price, trades)
      PROVE  TypeOK' /\ RowsNamed'
  <2>1. listing' \in [Listings -> ListingRow]
    BY <1>4 DEF CreateListing, MayList, WriteListing, TypeOK, ListingRow
  <2> QED
    BY <1>4, <2>1 DEF CreateListing, MayList, WriteListing, TypeOK, RowsNamed, Exists, pieceVars
<1>5. ASSUME NEW u \in Users, NEW l \in Listings, WithdrawListing(u, l)
      PROVE  TypeOK' /\ RowsNamed'
  <2>1. listing' \in [Listings -> ListingRow]
    BY <1>5, StatusType DEF WithdrawListing, MayWithdraw, WriteWithdraw, Unasked, TypeOK
  <2>2. offer' \in [Offers -> OfferRow]
    BY <1>5, RejectPendingType DEF WithdrawListing, MayWithdraw, WriteWithdraw, Unasked, TypeOK
  <2>3. RowsNamed'
    BY <1>5 DEF WithdrawListing, MayWithdraw, WriteWithdraw, Unasked, RowsNamed, Exists, Active, RejectPending, TypeOK,
                ListingRow, OfferRow
  <2> QED
    BY <1>5, <2>1, <2>2, <2>3 DEF WithdrawListing, MayWithdraw, WriteWithdraw, Unasked, TypeOK, pieceVars
<1>6. ASSUME NEW u \in Users, NEW o \in Offers, NEW l \in Listings,
             NEW amount \in Prices \cup {NoPrice}, NEW pieces \in SUBSET Items,
             MakeOffer(u, o, l, amount, pieces)
      PROVE  TypeOK' /\ RowsNamed'
  <2>1. offer' \in [Offers -> OfferRow]
    BY <1>6 DEF MakeOffer, MayOffer, WriteOffer, TypeOK, OfferRow
  <2>2. listing[l].seller \in Users
    BY <1>6 DEF MakeOffer, MayOffer, WriteOffer, Active, RowsNamed, Exists
  <2> QED
    BY <1>6, <2>1, <2>2 DEF MakeOffer, MayOffer, WriteOffer, TypeOK, RowsNamed, Exists, pieceVars, priceVars
<1>7. ASSUME NEW u \in Users, NEW o \in Offers, RejectOffer(u, o)
      PROVE  TypeOK' /\ RowsNamed'
  <2>1. offer' \in [Offers -> OfferRow]
    BY <1>7, StatusType DEF RejectOffer, MayDecide, WriteReject, TypeOK
  <2>2. RowsNamed'
    BY <1>7 DEF RejectOffer, WriteReject, MayDecide, Pending, RowsNamed, Exists, TypeOK, OfferRow
  <2> QED
    BY <1>7, <2>1, <2>2 DEF RejectOffer, MayDecide, WriteReject, TypeOK, pieceVars, priceVars
<1>8. ASSUME NEW u \in Users, NEW o \in Offers, AcceptOffer(u, o)
      PROVE  TypeOK' /\ RowsNamed'
  <2> DEFINE l == offer[o].listing
             piece == listing[l].item
             buyer == offer[o].buyer
  <2>1. l \in Listings /\ piece \in Items /\ buyer \in Users
    BY <1>8, SMTT(30) DEF AcceptOffer, WriteAccept, Unasked, MayDecide, Pending, Active, RowsNamed, Exists
  <2>2. owner' \in [Items -> Users \cup {Nobody}]
    BY <1>8, <2>1, SMTT(30) DEF AcceptOffer, MayDecide, WriteAccept, Unasked, TypeOK
  <2>3. chain' \in [Items -> Seq(Event)]
    <3>1. SUFFICES ASSUME NEW i \in Items PROVE chain'[i] \in Seq(Event)
      BY <1>8, SMTT(30) DEF AcceptOffer, MayDecide, WriteAccept, Unasked
    <3> DEFINE kind == IF offer[o].pieces = {} THEN "sale" ELSE "trade"
               sale == IF i = piece THEN <<Trail(kind, owner[i], buyer)>> ELSE <<>>
               swap == IF i \in Handed(o) THEN <<Trail("trade", buyer, u)>> ELSE <<>>
    <3>2. chain'[i] = chain[i] \o sale \o swap
      BY <1>8, ZenonT(40) DEF AcceptOffer, MayDecide, WriteAccept, Unasked
    <3>3. Trail(kind, owner[i], buyer) \in Event /\ Trail("trade", buyer, u) \in Event
      BY <2>1, TrailType DEF TypeOK
    <3>4. sale \in Seq(Event) /\ swap \in Seq(Event) /\ chain[i] \in Seq(Event)
      BY <3>3 DEF TypeOK
    <3> HIDE DEF sale, swap
    <3> QED
      BY <3>2, <3>4
  <2>4. listing' \in [Listings -> ListingRow]
    BY <1>8, <2>1, StatusType DEF AcceptOffer, MayDecide, WriteAccept, Unasked, TypeOK
  <2>5. [offer EXCEPT ![o].status = "accepted"] \in [Offers -> OfferRow]
    BY StatusType DEF TypeOK
  <2>6. offer' \in [Offers -> OfferRow]
    BY <1>8, <2>5, RejectPendingType DEF AcceptOffer, MayDecide, WriteAccept, Unasked
  <2>7. RowsNamed'
    BY <1>8, <2>1 DEF AcceptOffer, WriteAccept, Unasked, MayDecide, Pending, Active, RejectPending, RowsNamed,
                      Exists, TypeOK, ListingRow, OfferRow
  <2>8. asks' \subseteq Listings /\ sales' \subseteq Listings
    BY <1>8, <2>1 DEF AcceptOffer, MayDecide, WriteAccept, Unasked, TypeOK
  <2>9. notices' \subseteq Users \X {"offer_received", "offer_accepted"} \X Offers
    BY <1>8, <2>1 DEF AcceptOffer, MayDecide, WriteAccept, Unasked, TypeOK
  <2>10. UNCHANGED <<removed, verified, rated, purchases, plan, awards>>
    BY <1>8 DEF AcceptOffer, MayDecide, WriteAccept, Unasked
  <2> QED
    BY <1>8, <2>2, <2>3, <2>4, <2>6, <2>7, <2>8, <2>9, <2>10 DEF TypeOK
<1>9. ASSUME NEW u \in Users, NEW o \in Offers, RateOffer(u, o)
      PROVE  TypeOK' /\ RowsNamed'
    BY <1>9 DEF RateOffer, MayRate, WriteRating, TypeOK, RowsNamed, pieceVars, priceVars
<1>10. ASSUME NEW u \in Users, NEW p \in {"free", "pro"}, SetPlan(u, p)
       PROVE  TypeOK' /\ RowsNamed'
    BY <1>10 DEF SetPlan, TypeOK, RowsNamed, pieceVars, marketVars, priceVars
<1>11. CASE UNCHANGED vars
    BY <1>11 DEF TypeOK, RowsNamed, vars, pieceVars, marketVars, priceVars
<1> QED
    BY <1>1, <1>2, <1>3, <1>4, <1>5, <1>6, <1>7, <1>8, <1>9, <1>10, <1>11 DEF Next

\* Every reachable state is well typed, and its live rows name who and what they are about.
THEOREM TypeCorrect == Spec => [](TypeOK /\ RowsNamed)
BY TypeOKInit, TypeOKStep, PTL DEF Spec

-----------------------------------------------------------------------------
(* A listing is settled once.                                               *)

\* The requests that write the listing or the offer table; all others leave both alone.
LEMMA MarketSteps ==
    ASSUME [Next]_vars
    PROVE  \/ UNCHANGED <<listing, offer>>
           \/ \E u \in Users, i \in Items : RemovePiece(u, i)
           \/ \E u \in Users, l \in Listings, i \in Items,
                 price \in AskingPrices \cup {NoPrice}, trades \in BOOLEAN :
                 CreateListing(u, l, i, price, trades)
           \/ \E u \in Users, l \in Listings : WithdrawListing(u, l)
           \/ \E u \in Users, o \in Offers, l \in Listings,
                 amount \in Prices \cup {NoPrice}, pieces \in SUBSET Items :
                 MakeOffer(u, o, l, amount, pieces)
           \/ \E u \in Users, o \in Offers : RejectOffer(u, o)
           \/ \E u \in Users, o \in Offers : AcceptOffer(u, o)
<1>1. ASSUME NEW u \in Users, NEW i \in Items, NEW paid \in Prices \cup {NoPrice},
             AddPiece(u, i, paid)
      PROVE  UNCHANGED <<listing, offer>>
    BY <1>1 DEF AddPiece, marketVars
<1>2. ASSUME NEW u \in Users, NEW i \in Items, VerifyPiece(u, i)
      PROVE  UNCHANGED <<listing, offer>>
    BY <1>2 DEF VerifyPiece, marketVars
<1>3. ASSUME NEW u \in Users, NEW o \in Offers, RateOffer(u, o)
      PROVE  UNCHANGED <<listing, offer>>
    BY <1>3 DEF RateOffer, MayRate, WriteRating
<1>4. ASSUME NEW u \in Users, NEW p \in {"free", "pro"}, SetPlan(u, p)
      PROVE  UNCHANGED <<listing, offer>>
    BY <1>4 DEF SetPlan, marketVars
<1>5. CASE UNCHANGED vars
    BY <1>5 DEF vars, marketVars
<1> QED
    BY <1>1, <1>2, <1>3, <1>4, <1>5 DEF Next

\* Rows after the pending offers on l were rejected.
LEMMA RejectPendingRows ==
    ASSUME NEW table \in [Offers -> OfferRow], NEW l, NEW o \in Offers
    PROVE  /\ RejectPending(table, l)[o].listing = table[o].listing
           /\ RejectPending(table, l)[o].pieces = table[o].pieces
           /\ RejectPending(table, l)[o].amount = table[o].amount
           /\ RejectPending(table, l)[o].status =
                 IF table[o].listing = l /\ table[o].status = "pending"
                 THEN "rejected" ELSE table[o].status
BY DEF RejectPending, OfferRow

LEMMA SettledStep == TypeOK /\ RowsNamed /\ SettledOnce /\ [Next]_vars => SettledOnce'
<1> SUFFICES ASSUME TypeOK, RowsNamed, SettledOnce, [Next]_vars PROVE SettledOnce'
    OBVIOUS
<1>1. CASE UNCHANGED <<listing, offer>>
    BY <1>1 DEF SettledOnce, Pending, Accepted, Active
<1>2. ASSUME NEW u \in Users, NEW i \in Items, RemovePiece(u, i)
      PROVE  SettledOnce'
  <2> DEFINE gone == {l \in Listings : listing[l].item = i}
  <2>1. \A l \in Listings : listing'[l] = IF l \in gone THEN BlankListing("deleted")
                                                       ELSE listing[l]
    BY <1>2 DEF RemovePiece
  <2>2. \A o \in Offers : offer'[o] = IF offer[o].listing \in gone
                                      THEN BlankOffer("deleted") ELSE offer[o]
    BY <1>2 DEF RemovePiece
  <2> HIDE DEF gone
  <2>3. \A o \in Offers : Pending(o)' \/ Accepted(o)' =>
           offer'[o] = offer[o] /\ offer[o].listing \notin gone
    BY <2>2 DEF Pending, Accepted, BlankOffer
  <2>4. \A l \in Listings : listing'[l].status = "sold" => listing'[l] = listing[l] /\ l \notin gone
    BY <2>1 DEF BlankListing
  <2> QED
    BY <2>1, <2>2, <2>3, <2>4 DEF SettledOnce, Pending, Accepted, Active, RowsNamed, Exists
<1>3. ASSUME NEW u \in Users, NEW l \in Listings, NEW i \in Items,
             NEW price \in AskingPrices \cup {NoPrice}, NEW trades \in BOOLEAN,
             CreateListing(u, l, i, price, trades)
      PROVE  SettledOnce'
  <2>1. offer' = offer /\ listing[l].status = "unused" /\ listing'[l].status = "active"
    BY <1>3 DEF CreateListing, MayList, WriteListing, TypeOK
  <2>2. \A k \in Listings \ {l} : listing'[k] = listing[k]
    BY <1>3 DEF CreateListing, MayList, WriteListing, TypeOK
  <2> QED
    BY <2>1, <2>2 DEF SettledOnce, Pending, Accepted, Active, RowsNamed, Exists
<1>4. ASSUME NEW u \in Users, NEW l \in Listings, WithdrawListing(u, l)
      PROVE  SettledOnce'
  <2>1. \A k \in Listings : listing'[k].status = IF k = l THEN "withdrawn"
                                                       ELSE listing[k].status
    BY <1>4 DEF WithdrawListing, MayWithdraw, WriteWithdraw, Unasked, TypeOK
  <2>2. \A o \in Offers :
          /\ offer'[o].listing = offer[o].listing
          /\ offer'[o].status = IF offer[o].listing = l /\ Pending(o)
                                THEN "rejected" ELSE offer[o].status
    BY <1>4, RejectPendingRows DEF WithdrawListing, MayWithdraw, WriteWithdraw, Unasked, Pending, TypeOK
  <2>3. listing[l].status = "active"
    BY <1>4 DEF WithdrawListing, MayWithdraw, WriteWithdraw, Unasked, Active
  <2> QED
    BY <2>1, <2>2, <2>3 DEF SettledOnce, Pending, Accepted, Active, RowsNamed, Exists
<1>5. ASSUME NEW u \in Users, NEW o \in Offers, NEW l \in Listings,
             NEW amount \in Prices \cup {NoPrice}, NEW pieces \in SUBSET Items,
             MakeOffer(u, o, l, amount, pieces)
      PROVE  SettledOnce'
  <2>1. /\ listing' = listing /\ listing[l].status = "active"
        /\ offer[o].status = "unused" /\ offer'[o].status = "pending"
        /\ offer'[o].listing = l
    BY <1>5 DEF MakeOffer, MayOffer, WriteOffer, Active, TypeOK
  <2>2. \A p \in Offers \ {o} : offer'[p] = offer[p]
    BY <1>5 DEF MakeOffer, MayOffer, WriteOffer, TypeOK
  <2> QED
    BY <2>1, <2>2 DEF SettledOnce, Pending, Accepted, Active
<1>6. ASSUME NEW u \in Users, NEW o \in Offers, RejectOffer(u, o)
      PROVE  SettledOnce'
  <2>1. listing' = listing /\ offer[o].status = "pending"
    BY <1>6 DEF RejectOffer, WriteReject, MayDecide, Pending
  <2>2. \A p \in Offers :
          /\ offer'[p].listing = offer[p].listing
          /\ offer'[p].status = IF p = o THEN "rejected" ELSE offer[p].status
    BY <1>6 DEF RejectOffer, MayDecide, WriteReject, TypeOK, OfferRow
  <2> QED
    BY <2>1, <2>2 DEF SettledOnce, Pending, Accepted, Active
<1>7. ASSUME NEW u \in Users, NEW o \in Offers, AcceptOffer(u, o)
      PROVE  SettledOnce'
  <2> DEFINE l == offer[o].listing
             taken == [offer EXCEPT ![o].status = "accepted"]
  <2>1. /\ offer[o].status = "pending" /\ listing[l].status = "active"
        /\ l \in Listings
    BY <1>7 DEF AcceptOffer, WriteAccept, Unasked, MayDecide, Pending, Active, RowsNamed, Exists
  <2>2. \A k \in Listings : listing'[k].status = IF k = l THEN "sold" ELSE listing[k].status
    BY <1>7 DEF AcceptOffer, MayDecide, WriteAccept, Unasked, TypeOK
  <2>3. taken \in [Offers -> OfferRow]
    BY StatusType DEF TypeOK
  <2>7. ASSUME NEW p \in Offers
        PROVE  /\ taken[p].listing = offer[p].listing
               /\ taken[p].status = IF p = o THEN "accepted" ELSE offer[p].status
    <3>1. offer[p] \in OfferRow
        BY DEF TypeOK
    <3>2. taken[p] = IF p = o THEN [offer[p] EXCEPT !.status = "accepted"] ELSE offer[p]
        BY DEF TypeOK
    <3> QED
        BY <3>1, <3>2 DEF OfferRow
  <2>4. offer' = RejectPending(taken, l)
    BY <1>7 DEF AcceptOffer, MayDecide, WriteAccept, Unasked
  <2> HIDE DEF taken, l
  <2>5. \A p \in Offers :
          /\ offer'[p].listing = offer[p].listing
          /\ offer'[p].status = IF p = o THEN "accepted"
                                ELSE IF offer[p].listing = l /\ offer[p].status = "pending"
                                THEN "rejected" ELSE offer[p].status
    BY <2>3, <2>4, <2>7, RejectPendingRows
  <2>6. offer[o].listing = l
    BY DEF l
  <2>8. \A p \in Offers : Pending(p)' => Active(offer[p].listing)'
    BY <2>1, <2>2, <2>5, <2>6 DEF SettledOnce, Pending, Accepted, Active, RowsNamed, Exists
  <2>9. \A p \in Offers : Accepted(p)' => listing'[offer'[p].listing].status = "sold"
    BY <2>1, <2>2, <2>5, <2>6 DEF SettledOnce, Pending, Accepted, Active, RowsNamed, Exists
  <2>10. \A k \in Listings : listing'[k].status = "sold" =>
            \E p \in Offers : Accepted(p)' /\ offer'[p].listing = k
    BY <2>1, <2>2, <2>5, <2>6 DEF SettledOnce, Pending, Accepted, Active
  <2>11. \A p, q \in Offers : Accepted(p)' /\ Accepted(q)'
            /\ offer'[p].listing = offer'[q].listing => p = q
    BY <2>1, <2>2, <2>5, <2>6 DEF SettledOnce, Pending, Accepted, Active
  <2> QED
    BY <2>8, <2>9, <2>10, <2>11 DEF SettledOnce
<1> QED
    BY <1>1, <1>2, <1>3, <1>4, <1>5, <1>6, <1>7, MarketSteps

\* A listing is settled exactly once: offers wait only on active listings, and a listing
\* is sold if and only if exactly one offer on it was accepted.
THEOREM Settlement == Spec => []SettledOnce
<1>1. Init => SettledOnce
    BY DEF Init, SettledOnce, Pending, Accepted, BlankListing, BlankOffer
<1> QED
    BY <1>1, TypeCorrect, SettledStep, PTL DEF Spec

-----------------------------------------------------------------------------
(* A piece is on sale once.                                                 *)

LEMMA OneActiveStep == TypeOK /\ RowsNamed /\ OneActiveListing /\ [Next]_vars => OneActiveListing'
<1> SUFFICES ASSUME TypeOK, RowsNamed, OneActiveListing, [Next]_vars
             PROVE  OneActiveListing'
    OBVIOUS
<1>1. CASE UNCHANGED <<listing, offer>>
    BY <1>1 DEF OneActiveListing, Active
<1>2. ASSUME NEW u \in Users, NEW i \in Items, RemovePiece(u, i)
      PROVE  OneActiveListing'
  <2>1. \A l \in Listings : listing'[l] = listing[l] \/ listing'[l] = BlankListing("deleted")
    BY <1>2 DEF RemovePiece
  <2> QED
    BY <2>1 DEF OneActiveListing, Active, BlankListing
<1>3. ASSUME NEW u \in Users, NEW l \in Listings, NEW i \in Items,
             NEW price \in AskingPrices \cup {NoPrice}, NEW trades \in BOOLEAN,
             CreateListing(u, l, i, price, trades)
      PROVE  OneActiveListing'
  <2>1. listing'[l].item = i /\ \A k \in Listings \ {l} : listing'[k] = listing[k]
    BY <1>3 DEF CreateListing, MayList, WriteListing, TypeOK
  <2>2. \A k \in Listings : Active(k) => listing[k].item # i
    BY <1>3 DEF CreateListing, MayList, WriteListing, AlreadyListed
  <2> QED
    BY <2>1, <2>2 DEF OneActiveListing, Active
<1>4. ASSUME NEW u \in Users, NEW l \in Listings, WithdrawListing(u, l)
      PROVE  OneActiveListing'
    BY <1>4 DEF WithdrawListing, MayWithdraw, WriteWithdraw, Unasked, OneActiveListing, Active, TypeOK, ListingRow
<1>5. ASSUME NEW u \in Users, NEW o \in Offers, AcceptOffer(u, o)
      PROVE  OneActiveListing'
  <2>1. listing' = [listing EXCEPT ![offer[o].listing].status = "sold"]
    BY <1>5 DEF AcceptOffer, MayDecide, WriteAccept, Unasked
  <2> QED
    BY <2>1 DEF OneActiveListing, Active, TypeOK, ListingRow
<1>6. ASSUME \/ \E u \in Users, o \in Offers, l \in Listings,
                   amount \in Prices \cup {NoPrice}, pieces \in SUBSET Items :
                   MakeOffer(u, o, l, amount, pieces)
             \/ \E u \in Users, o \in Offers : RejectOffer(u, o)
      PROVE  OneActiveListing'
  <2>1. listing' = listing
    BY <1>6 DEF MakeOffer, MayOffer, WriteOffer, RejectOffer, MayDecide, WriteReject
  <2> QED
    BY <2>1 DEF OneActiveListing, Active
<1> QED
    BY <1>1, <1>2, <1>3, <1>4, <1>5, <1>6, MarketSteps

\* No piece is ever on sale in two active listings.
THEOREM SingleListing == Spec => []OneActiveListing
<1>1. Init => OneActiveListing
    BY DEF Init, OneActiveListing, Active, BlankListing
<1> QED
    BY <1>1, TypeCorrect, OneActiveStep, PTL DEF Spec
-----------------------------------------------------------------------------
(* Holder, verification and trail.                                          *)

\* What vouches for a piece: a verification is in the trail of the piece that carries it, a
\* piece without a row has neither, and pieces on sale or on offer are verified ones.  An
\* offered piece may be gone by now; it is in nobody's collection then, for good.
Attested(c) == \E j \in 1..Len(c) : c[j].kind = "verified"
Vouched ==
    /\ \A i \in Items : verified[i] => owner[i] # Nobody /\ Attested(chain[i])
    /\ \A i \in removed : owner[i] = Nobody
    /\ \A i \in Items : owner[i] = Nobody => chain[i] = <<>>
    /\ \A l \in Listings : Active(l) => verified[listing[l].item]
    /\ \A o \in Offers : Pending(o) => \A i \in offer[o].pieces : verified[i] \/ i \in removed

\* What an accepted offer does to a piece: nothing, or one more event, or two if the listed
\* piece is also among those handed back.
LEMMA AcceptedPiece ==
    ASSUME TypeOK, RowsNamed, Vouched,
           NEW u \in Users, NEW o \in Offers, AcceptOffer(u, o), NEW i \in Items
    PROVE  LET buyer == offer[o].buyer
               goes(kind) == Append(chain[i], Trail(kind, owner[i], buyer))
           IN  \/ owner'[i] = owner[i] /\ chain'[i] = chain[i]
               \/ /\ verified[i] /\ owner[i] \in Users /\ buyer \in Users
                  /\ \/ \E kind \in {"sale", "trade"} :
                           owner'[i] = buyer /\ chain'[i] = goes(kind)
                     \/ /\ owner[i] = buyer /\ owner'[i] = u
                        /\ chain'[i] = Append(chain[i], Trail("trade", owner[i], u))
                     \/ /\ owner'[i] = u
                        /\ \E kind \in {"sale", "trade"} :
                              chain'[i] = Append(goes(kind), Trail("trade", buyer, u))
<1> DEFINE l == offer[o].listing
           piece == listing[l].item
           buyer == offer[o].buyer
           kind == IF offer[o].pieces = {} THEN "sale" ELSE "trade"
           sale == IF i = piece THEN <<Trail(kind, owner[i], buyer)>> ELSE <<>>
           swap == IF i \in Handed(o) THEN <<Trail("trade", buyer, u)>> ELSE <<>>
<1>1. /\ o \in Offers /\ Pending(o) /\ Active(l) /\ listing[l].seller = u
      /\ l \in Listings /\ piece \in Items /\ buyer \in Users
    BY DEF AcceptOffer, MayDecide, Pending, Active, RowsNamed, Exists
<1>2. verified[piece] /\ owner[piece] \in Users
    BY <1>1, MarketAssumption DEF Vouched, TypeOK
<1>3. i \in Handed(o) => /\ i \in offer[o].pieces
                         /\ IF i = piece THEN TRUE ELSE owner[i] = buyer
    BY <1>1 DEF Handed, TypeOK
<1>4. i \in Handed(o) => verified[i] /\ owner[i] \in Users
  <2>1. i \in Handed(o) /\ i # piece => i \notin removed
    BY <1>1, <1>3, MarketAssumption DEF Vouched, TypeOK
  <2> QED
    BY <1>1, <1>2, <1>3, <2>1 DEF Vouched
<1>5. owner'[i] = IF i \in Handed(o) THEN u
                  ELSE IF i = piece /\ owner[piece] # buyer THEN buyer ELSE owner[i]
    BY SMTT(30) DEF AcceptOffer, WriteAccept
<1>6. chain'[i] = chain[i] \o sale \o swap
    BY ZenonT(40) DEF AcceptOffer, WriteAccept
<1>7. chain[i] \in Seq(Event) /\ kind \in {"sale", "trade"}
    BY DEF TypeOK
<1>8. Trail(kind, owner[i], buyer) \in Event \/ ~(i = piece)
    BY <1>1, <1>2, <1>7, TrailType
<1>9. Trail("trade", buyer, u) \in Event
    BY <1>1, TrailType
<1> HIDE DEF kind, piece, buyer, l
<1>10. CASE i # piece /\ i \notin Handed(o)
    BY <1>5, <1>6, <1>7, <1>10
<1>11. CASE i = piece /\ i \notin Handed(o)
  <2>1. chain'[i] = Append(chain[i], Trail(kind, owner[i], buyer))
    BY <1>6, <1>7, <1>8, <1>11
  <2>2. owner'[i] = buyer
    BY <1>5, <1>11
  <2> QED
    BY <1>1, <1>2, <1>7, <1>11, <2>1, <2>2 DEF buyer
<1>12. CASE i # piece /\ i \in Handed(o)
  <2>1. chain'[i] = Append(chain[i], Trail("trade", buyer, u))
    BY <1>6, <1>7, <1>9, <1>12
  <2>2. owner'[i] = u /\ owner[i] = buyer
    BY <1>3, <1>5, <1>12
  <2> QED
    BY <1>1, <1>4, <1>12, <2>1, <2>2 DEF buyer
<1>13. CASE i = piece /\ i \in Handed(o)
  <2>1. chain'[i] = Append(Append(chain[i], Trail(kind, owner[i], buyer)), Trail("trade", buyer, u))
    BY <1>6, <1>7, <1>8, <1>9, <1>13
  <2>2. owner'[i] = u
    BY <1>5, <1>13
  <2> QED
    BY <1>1, <1>2, <1>7, <1>13, <2>1, <2>2 DEF buyer
<1> QED
    BY <1>10, <1>11, <1>12, <1>13

\* A longer trail: what was attested stays so.
LEMMA AttestedAppend ==
    ASSUME NEW c \in Seq(Event), NEW e \in Event
    PROVE  /\ Attested(c) => Attested(Append(c, e))
           /\ e.kind = "verified" => Attested(Append(c, e))
BY DEF Attested

LEMMA VouchedStep == TypeOK /\ RowsNamed /\ Vouched /\ [Next]_vars => Vouched'
<1> SUFFICES ASSUME TypeOK, RowsNamed, Vouched, [Next]_vars PROVE Vouched'
    OBVIOUS
<1> USE MarketAssumption
<1>1. ASSUME NEW u \in Users, NEW i \in Items, NEW paid \in Prices \cup {NoPrice},
             AddPiece(u, i, paid)
      PROVE  Vouched'
  <2>1. /\ owner[i] = Nobody /\ i \notin removed /\ owner' = [owner EXCEPT ![i] = u]
        /\ chain' = [chain EXCEPT ![i] = <<Trail("registered", Nobody, u)>>]
        /\ UNCHANGED <<removed, verified, listing, offer>>
    BY <1>1 DEF AddPiece, marketVars
  <2>2. ~verified[i]
    BY <2>1 DEF Vouched
  <2> QED
    BY <2>1, <2>2 DEF Vouched, TypeOK, Active, Pending
<1>2. ASSUME NEW u \in Users, NEW i \in Items, VerifyPiece(u, i)
      PROVE  Vouched'
  <2>1. /\ owner[i] = u /\ verified' = [verified EXCEPT ![i] = TRUE]
        /\ chain' = [chain EXCEPT ![i] = Append(@, Trail("verified", Nobody, u))]
        /\ UNCHANGED <<owner, removed, listing, offer>>
    BY <1>2 DEF VerifyPiece, marketVars
  <2>2. Attested(chain'[i])
    BY <2>1, TrailType, AttestedAppend DEF Trail, TypeOK
  <2>3. \A k \in Items \ {i} : chain'[k] = chain[k] /\ verified'[k] = verified[k]
    BY <2>1 DEF TypeOK
  <2>4. \A k \in Items : verified[k] => verified'[k]
    BY <2>1 DEF TypeOK
  <2>5. owner[i] # Nobody
    BY <2>1
  <2>6. \A k \in Items : verified'[k] => owner'[k] # Nobody /\ Attested(chain'[k])
    BY <2>1, <2>2, <2>3, <2>5 DEF Vouched
  <2>7. \A l \in Listings : Active(l)' => verified'[listing'[l].item]
    BY <2>1, <2>4 DEF Vouched, Active, RowsNamed, Exists
  <2>8. \A o \in Offers : offer[o].pieces \subseteq Items
    BY DEF TypeOK, OfferRow
  <2>9. \A o \in Offers : Pending(o)' => \A k \in offer'[o].pieces : verified'[k] \/ k \in removed'
    BY <2>1, <2>4, <2>8 DEF Vouched, Pending
  <2>10. \A k \in Items : owner'[k] = Nobody => chain'[k] = <<>>
    BY <2>1, <2>3, <2>5 DEF Vouched
  <2> QED
    BY <2>1, <2>6, <2>7, <2>9, <2>10 DEF Vouched
<1>3. ASSUME NEW u \in Users, NEW i \in Items, RemovePiece(u, i)
      PROVE  Vouched'
  <2>1. /\ owner' = [owner EXCEPT ![i] = Nobody] /\ removed' = removed \cup {i}
        /\ verified' = [verified EXCEPT ![i] = FALSE] /\ chain' = [chain EXCEPT ![i] = <<>>]
    BY <1>3 DEF RemovePiece
  <2>2. \A l \in Listings : Active(l)' => listing'[l] = listing[l] /\ listing[l].item # i
    BY <1>3 DEF RemovePiece, Active, BlankListing
  <2>3. \A o \in Offers : Pending(o)' => offer'[o] = offer[o]
    BY <1>3 DEF RemovePiece, Pending, BlankOffer
  <2>4. \A l \in Listings : Active(l)' => verified'[listing'[l].item]
    BY <2>1, <2>2 DEF Vouched, Active, RowsNamed, Exists, TypeOK
  <2>5. \A o \in Offers : offer[o].pieces \subseteq Items
    BY DEF TypeOK, OfferRow
  <2>6. \A o \in Offers : Pending(o)' => \A k \in offer'[o].pieces : verified'[k] \/ k \in removed'
    BY <2>1, <2>3, <2>5 DEF Vouched, Pending, TypeOK
  <2>7. \A k \in Items : /\ verified'[k] => owner'[k] # Nobody /\ Attested(chain'[k])
                         /\ owner'[k] = Nobody => chain'[k] = <<>>
    BY <2>1 DEF Vouched, TypeOK
  <2>8. \A k \in removed' : owner'[k] = Nobody
    BY <2>1 DEF Vouched, TypeOK
  <2> QED
    BY <2>4, <2>6, <2>7, <2>8 DEF Vouched
<1>4. ASSUME NEW u \in Users, NEW l \in Listings, NEW i \in Items,
             NEW price \in AskingPrices \cup {NoPrice}, NEW trades \in BOOLEAN,
             CreateListing(u, l, i, price, trades)
      PROVE  Vouched'
  <2>1. /\ verified[i] /\ listing'[l].item = i
        /\ \A k \in Listings \ {l} : listing'[k] = listing[k]
        /\ UNCHANGED <<owner, removed, verified, chain, offer>>
    BY <1>4 DEF CreateListing, MayList, WriteListing, TypeOK, pieceVars
  <2> QED
    BY <2>1 DEF Vouched, Active, Pending
<1>5. ASSUME NEW u \in Users, NEW l \in Listings, WithdrawListing(u, l)
      PROVE  Vouched'
  <2>1. \A k \in Listings : Active(k)' => listing'[k] = listing[k]
    BY <1>5 DEF WithdrawListing, MayWithdraw, WriteWithdraw, Active, TypeOK, ListingRow
  <2>2. \A o \in Offers : Pending(o)' => Pending(o) /\ offer'[o].pieces = offer[o].pieces
    <3>1. offer' = RejectPending(offer, l) /\ offer \in [Offers -> OfferRow]
      BY <1>5 DEF WithdrawListing, WriteWithdraw, TypeOK
    <3> QED
      BY <3>1, RejectPendingRows DEF Pending
  <2>3. UNCHANGED <<owner, removed, verified, chain>>
    BY <1>5 DEF WithdrawListing, WriteWithdraw, pieceVars
  <2> QED
    BY <2>1, <2>2, <2>3 DEF Vouched, Active
<1>6. ASSUME NEW u \in Users, NEW o \in Offers, NEW l \in Listings,
             NEW amount \in Prices \cup {NoPrice}, NEW pieces \in SUBSET Items,
             MakeOffer(u, o, l, amount, pieces)
      PROVE  Vouched'
  <2>1. /\ offer'[o].pieces = pieces /\ \A i \in pieces : verified[i]
        /\ \A p \in Offers \ {o} : offer'[p] = offer[p]
        /\ UNCHANGED <<owner, removed, verified, chain, listing>>
    BY <1>6 DEF MakeOffer, MayOffer, WriteOffer, Offerable, TypeOK, pieceVars
  <2> QED
    BY <2>1 DEF Vouched, Active, Pending
<1>7. ASSUME NEW u \in Users, NEW o \in Offers, RejectOffer(u, o)
      PROVE  Vouched'
  <2>1. \A p \in Offers : Pending(p)' => offer'[p] = offer[p]
    BY <1>7 DEF RejectOffer, WriteReject, Pending, TypeOK, OfferRow
  <2>2. UNCHANGED <<owner, removed, verified, chain, listing>>
    BY <1>7 DEF RejectOffer, WriteReject, pieceVars
  <2> QED
    BY <2>1, <2>2 DEF Vouched, Active, Pending
<1>8. ASSUME NEW u \in Users, NEW o \in Offers, AcceptOffer(u, o)
      PROVE  Vouched'
  <2> DEFINE l == offer[o].listing
             taken == [offer EXCEPT ![o].status = "accepted"]
  <2>1. verified' = verified /\ removed' = removed
    BY <1>8 DEF AcceptOffer, WriteAccept
  <2>2. \A k \in Listings : Active(k)' => listing'[k] = listing[k]
    BY <1>8 DEF AcceptOffer, WriteAccept, Active, TypeOK, ListingRow
  <2>3. taken \in [Offers -> OfferRow] /\ offer' = RejectPending(taken, l)
    BY <1>8, StatusType DEF AcceptOffer, WriteAccept, TypeOK
  <2>4. \A p \in Offers : /\ taken[p].pieces = offer[p].pieces
                          /\ taken[p].status = "pending" => Pending(p)
    BY DEF TypeOK, OfferRow, Pending
  <2>5. \A p \in Offers : Pending(p)' => Pending(p) /\ offer'[p].pieces = offer[p].pieces
    <3> HIDE DEF taken, l
    <3> QED
      BY <2>3, <2>4, RejectPendingRows DEF Pending
  <2>6. ASSUME NEW i \in Items
        PROVE  \/ owner'[i] = owner[i] /\ chain'[i] = chain[i]
               \/ /\ verified[i] /\ owner'[i] \in Users
                  /\ Attested(chain[i]) => Attested(chain'[i])
    <3> DEFINE buyer == offer[o].buyer
    <3>1. ASSUME verified[i], owner[i] \in Users, buyer \in Users,
                 NEW kind \in {"sale", "trade"}
          PROVE  /\ Append(chain[i], Trail(kind, owner[i], buyer)) \in Seq(Event)
                 /\ Attested(chain[i]) => Attested(Append(chain[i], Trail(kind, owner[i], buyer)))
                 /\ Attested(chain[i]) => Attested(Append(chain[i], Trail(kind, owner[i], u)))
                 /\ Trail("trade", buyer, u) \in Event
      <4>1. Trail(kind, owner[i], buyer) \in Event /\ Trail(kind, owner[i], u) \in Event
            /\ Trail("trade", buyer, u) \in Event
        BY <3>1, TrailType
      <4> QED
        BY <4>1, AttestedAppend DEF TypeOK
    <3>2. ASSUME verified[i], owner[i] \in Users, buyer \in Users,
                 NEW kind \in {"sale", "trade"}
          PROVE  Attested(chain[i]) =>
                    Attested(Append(Append(chain[i], Trail(kind, owner[i], buyer)), Trail("trade", buyer, u)))
      BY <3>1, <3>2, AttestedAppend
    <3>3. \/ owner'[i] = owner[i] /\ chain'[i] = chain[i]
          \/ /\ verified[i] /\ owner[i] \in Users /\ buyer \in Users
             /\ owner'[i] \in {u, buyer}
             /\ \E kind \in {"sale", "trade"} :
                   chain'[i] \in {Append(chain[i], Trail(kind, owner[i], buyer)),
                                 Append(chain[i], Trail(kind, owner[i], u)),
                                 Append(Append(chain[i], Trail(kind, owner[i], buyer)),
                                        Trail("trade", buyer, u))}
      BY <1>8, AcceptedPiece
    <3> HIDE DEF buyer
    <3>4. CASE owner'[i] = owner[i] /\ chain'[i] = chain[i]
      BY <3>4
    <3>5. ASSUME verified[i], owner[i] \in Users, buyer \in Users, owner'[i] \in {u, buyer},
                 NEW kind \in {"sale", "trade"},
                 chain'[i] \in {Append(chain[i], Trail(kind, owner[i], buyer)),
                               Append(chain[i], Trail(kind, owner[i], u)),
                               Append(Append(chain[i], Trail(kind, owner[i], buyer)),
                                      Trail("trade", buyer, u))}
          PROVE  owner'[i] \in Users /\ (Attested(chain[i]) => Attested(chain'[i]))
      BY <3>1, <3>2, <3>5
    <3> QED
      BY <3>3, <3>4, <3>5
  <2>7. \A i \in Items : /\ verified'[i] => owner'[i] # Nobody /\ Attested(chain'[i])
                         /\ owner'[i] = Nobody => chain'[i] = <<>>
    BY <2>1, <2>6 DEF Vouched
  <2>8. \A i \in removed' : owner'[i] = Nobody
    BY <2>1, <2>6 DEF Vouched, TypeOK
  <2>9. \A k \in Listings : Active(k)' => verified'[listing'[k].item]
    BY <2>1, <2>2 DEF Vouched, Active
  <2>10. \A p \in Offers : Pending(p)' => \A i \in offer'[p].pieces : verified'[i] \/ i \in removed'
    BY <2>1, <2>5 DEF Vouched
  <2> QED
    BY <2>7, <2>8, <2>9, <2>10 DEF Vouched
<1>9. ASSUME NEW u \in Users, NEW o \in Offers, RateOffer(u, o)
      PROVE  Vouched'
    BY <1>9 DEF RateOffer, WriteRating, Vouched, pieceVars, Active, Pending
<1>10. ASSUME NEW u \in Users, NEW p \in {"free", "pro"}, SetPlan(u, p)
       PROVE  Vouched'
    BY <1>10 DEF SetPlan, Vouched, pieceVars, marketVars, Active, Pending
<1>11. CASE UNCHANGED vars
    BY <1>11 DEF Vouched, vars, pieceVars, marketVars, Active, Pending
<1> QED
    BY <1>1, <1>2, <1>3, <1>4, <1>5, <1>6, <1>7, <1>8, <1>9, <1>10, <1>11 DEF Next

\* Every verified piece is somebody's and its trail shows the verification, and whatever is on
\* sale or on offer was verified or is gone for good.
THEOREM PiecesVouched == Spec => []Vouched
<1>1. Init => Vouched
    BY MarketAssumption DEF Init, Vouched, Active, Pending, BlankListing, BlankOffer
<1> QED
    BY <1>1, TypeCorrect, VouchedStep, PTL DEF Spec

-----------------------------------------------------------------------------
(* The marketplace implements PieceLedger.                                  *)

\* One more event leaves the earlier ones in place.
LEMMA AppendKeeps ==
    ASSUME NEW c \in Seq(Event), NEW e \in Event
    PROVE  /\ Append(c, e) \in Seq(Event) /\ Len(Append(c, e)) = Len(c) + 1
           /\ Append(c, e)[Len(c) + 1] = e
           /\ \A k \in 1..Len(c) : Append(c, e)[k] = c[k]
           /\ SubSeq(Append(c, e), 1, Len(c)) = c
<1>1. /\ Append(c, e) \in Seq(Event) /\ Len(Append(c, e)) = Len(c) + 1
      /\ Append(c, e)[Len(c) + 1] = e
      /\ \A k \in 1..Len(c) : Append(c, e)[k] = c[k]
    OBVIOUS
<1> DEFINE d == Append(c, e)
<1> HIDE DEF d
<1>2. Len(SubSeq(d, 1, Len(c))) = Len(c)
      /\ \A k \in 1..Len(c) : SubSeq(d, 1, Len(c))[k] = c[k]
    BY <1>1 DEF d
<1>3. SubSeq(d, 1, Len(c)) = c
    BY <1>1, <1>2 DEF d
<1> QED
    BY <1>1, <1>3 DEF d

\* A deal of one event or two is a transfer of the ledger.
LEMMA DealIsTransfer ==
    ASSUME TypeOK, NEW u \in Users, NEW o \in Offers, AcceptOffer(u, o), NEW i \in Items,
           verified[i], owner[i] \in Users, i \notin removed, NEW buyer \in Users,
           NEW kind \in {"sale", "trade"},
           LET one(to) == Append(chain[i], Trail(kind, owner[i], to))
           IN  \/ owner'[i] = buyer /\ chain'[i] = one(buyer)
               \/ owner'[i] = u /\ chain'[i] = one(u)
               \/ owner'[i] = u /\ chain'[i] = Append(one(buyer), Trail("trade", buyer, u))
    PROVE  Ledger!Transfer(i)
<1> USE MarketAssumption
<1> DEFINE one(to) == Append(chain[i], Trail(kind, owner[i], to))
<1>1. /\ verified' = verified /\ removed' = removed /\ owner[i] # Nobody
      /\ chain[i] \in Seq(Event)
    BY ZenonT(40) DEF AcceptOffer, WriteAccept, TypeOK
<1>2. ASSUME NEW to \in Users, owner'[i] = to, chain'[i] = one(to)
      PROVE  Ledger!Transfer(i)
  <2>1. Trail(kind, owner[i], to) \in Event
    BY TrailType
  <2>2. /\ Len(chain'[i]) = Len(chain[i]) + 1
        /\ chain'[i][Len(chain[i]) + 1] = Trail(kind, owner[i], to)
        /\ SubSeq(chain'[i], 1, Len(chain[i])) = chain[i]
    BY <1>1, <1>2, <2>1, AppendKeeps
  <2>3. Len(chain[i]) \in Nat
    BY <1>1
  <2> QED
    BY <1>1, <1>2, <2>2, <2>3 DEF Ledger!Transfer, Trail
<1>3. ASSUME owner'[i] = u, chain'[i] = Append(one(buyer), Trail("trade", buyer, u))
      PROVE  Ledger!Transfer(i)
  <2> DEFINE c == one(buyer)
             n == Len(chain[i])
  <2>1. Trail(kind, owner[i], buyer) \in Event /\ Trail("trade", buyer, u) \in Event
    BY TrailType
  <2>2. /\ c \in Seq(Event) /\ Len(c) = n + 1 /\ c[n + 1] = Trail(kind, owner[i], buyer)
        /\ \A k \in 1..n : c[k] = chain[i][k]
    BY <1>1, <2>1, AppendKeeps
  <2> HIDE DEF c
  <2>3. /\ chain'[i] \in Seq(Event)
        /\ Len(chain'[i]) = Len(c) + 1 /\ chain'[i][Len(c) + 1] = Trail("trade", buyer, u)
        /\ \A k \in 1..Len(c) : chain'[i][k] = c[k]
    BY <1>3, <2>1, <2>2, AppendKeeps DEF c
  <2>4. n \in Nat
    BY <1>1
  <2>5. /\ Len(chain'[i]) = n + 2
        /\ chain'[i][n + 1] = Trail(kind, owner[i], buyer)
        /\ chain'[i][n + 2] = Trail("trade", buyer, u)
        /\ \A k \in 1..n : chain'[i][k] = chain[i][k]
    BY <2>2, <2>3, <2>4
  <2>6. SubSeq(chain'[i], 1, n) = chain[i]
    <3> DEFINE d == SubSeq(chain'[i], 1, n)
    <3>1. Len(d) = n /\ \A k \in 1..n : d[k] = chain[i][k]
      BY <2>3, <2>4, <2>5
    <3>2. d \in Seq(Event)
      BY <2>3, <2>4, <2>5
    <3> QED
      BY <1>1, <3>1, <3>2
  <2>7. \A k \in n + 1..Len(chain'[i]) : k = n + 1 \/ k = n + 2
    BY <2>4, <2>5
  <2> QED
    BY <1>1, <1>3, <2>4, <2>5, <2>6, <2>7 DEF Ledger!Transfer, Trail
<1> QED
    BY <1>2, <1>3, SMTT(30)

\* What a step does to any piece is one of the ledger's five.
LedgerOf(i) == \/ Ledger!Keep(i) \/ Ledger!Register(i) \/ Ledger!Verify(i)
               \/ Ledger!Transfer(i) \/ Ledger!Remove(i)

LEMMA LedgerStep ==
    ASSUME TypeOK, RowsNamed, Vouched, [Next]_vars
    PROVE  \A i \in Items : LedgerOf(i)
<1> USE MarketAssumption
<1>1. ASSUME NEW u \in Users, NEW i \in Items, NEW paid \in Prices \cup {NoPrice},
             AddPiece(u, i, paid), NEW k \in Items
      PROVE  LedgerOf(k)
  <2>1. /\ owner[i] = Nobody /\ i \notin removed /\ owner' = [owner EXCEPT ![i] = u]
        /\ chain' = [chain EXCEPT ![i] = <<Trail("registered", Nobody, u)>>]
        /\ verified' = verified /\ removed' = removed
    BY <1>1 DEF AddPiece
  <2>2. ~verified[i] /\ verified[i] \in BOOLEAN
    BY <2>1 DEF Vouched, TypeOK
  <2>3. CASE k = i
    BY <2>1, <2>2, <2>3 DEF LedgerOf, Ledger!Register, Trail, TypeOK
  <2>4. CASE k # i
    BY <2>1, <2>4 DEF LedgerOf, Ledger!Keep, TypeOK
  <2> QED
    BY <2>3, <2>4
<1>2. ASSUME NEW u \in Users, NEW i \in Items, VerifyPiece(u, i), NEW k \in Items
      PROVE  LedgerOf(k)
  <2>1. /\ owner[i] = u /\ verified' = [verified EXCEPT ![i] = TRUE]
        /\ chain' = [chain EXCEPT ![i] = Append(@, Trail("verified", Nobody, u))]
        /\ owner' = owner /\ removed' = removed
    BY <1>2 DEF VerifyPiece
  <2>2. CASE k = i
    <3>1. owner[i] # Nobody /\ i \notin removed
      BY <2>1 DEF Vouched
    <3> QED
      BY <2>1, <2>2, <3>1 DEF LedgerOf, Ledger!Verify, Trail, TypeOK
  <2>3. CASE k # i
    BY <2>1, <2>3 DEF LedgerOf, Ledger!Keep, TypeOK
  <2> QED
    BY <2>2, <2>3
<1>3. ASSUME NEW u \in Users, NEW i \in Items, RemovePiece(u, i), NEW k \in Items
      PROVE  LedgerOf(k)
  <2>1. /\ owner[i] = u /\ owner' = [owner EXCEPT ![i] = Nobody] /\ removed' = removed \cup {i}
        /\ verified' = [verified EXCEPT ![i] = FALSE] /\ chain' = [chain EXCEPT ![i] = <<>>]
    BY <1>3 DEF RemovePiece
  <2>2. CASE k = i
    BY <2>1, <2>2 DEF LedgerOf, Ledger!Remove, TypeOK
  <2>3. CASE k # i
    BY <2>1, <2>3 DEF LedgerOf, Ledger!Keep, TypeOK
  <2> QED
    BY <2>2, <2>3
<1>4. ASSUME NEW u \in Users, NEW o \in Offers, AcceptOffer(u, o), NEW k \in Items
      PROVE  LedgerOf(k)
  <2> DEFINE buyer == offer[o].buyer
  <2>1. CASE owner'[k] = owner[k] /\ chain'[k] = chain[k]
    BY <1>4, <2>1, ZenonT(40) DEF LedgerOf, Ledger!Keep, AcceptOffer, WriteAccept
  <2>2. ASSUME verified[k], owner[k] \in Users, buyer \in Users,
               NEW kind \in {"sale", "trade"},
               \/ owner'[k] = buyer /\ chain'[k] = Append(chain[k], Trail(kind, owner[k], buyer))
               \/ owner'[k] = u /\ chain'[k] = Append(chain[k], Trail(kind, owner[k], u))
               \/ /\ owner'[k] = u
                  /\ chain'[k] = Append(Append(chain[k], Trail(kind, owner[k], buyer)),
                                        Trail("trade", buyer, u))
        PROVE  LedgerOf(k)
    <3>1. k \notin removed
      BY <2>2 DEF Vouched
    <3> HIDE DEF buyer
    <3>2. Ledger!Transfer(k)
      BY <1>4, <2>2, <3>1, DealIsTransfer
    <3> QED
      BY <3>2 DEF LedgerOf
  <2> QED
    BY <1>4, <2>1, <2>2, AcceptedPiece, SMTT(30)
<1>5. ASSUME UNCHANGED pieceVars, NEW k \in Items
      PROVE  LedgerOf(k)
    BY <1>5 DEF LedgerOf, Ledger!Keep, pieceVars
<1>6. \/ \E u \in Users, i \in Items : \/ \E paid \in Prices \cup {NoPrice} : AddPiece(u, i, paid)
                                       \/ VerifyPiece(u, i)
                                       \/ RemovePiece(u, i)
      \/ \E u \in Users, o \in Offers : AcceptOffer(u, o)
      \/ UNCHANGED pieceVars
  <2>1. ASSUME NEW u \in Users, NEW l \in Listings, NEW i \in Items,
               NEW price \in AskingPrices \cup {NoPrice}, NEW trades \in BOOLEAN,
               CreateListing(u, l, i, price, trades)
        PROVE  UNCHANGED pieceVars
    BY <2>1 DEF CreateListing, WriteListing
  <2>2. ASSUME NEW u \in Users, NEW l \in Listings, WithdrawListing(u, l)
        PROVE  UNCHANGED pieceVars
    BY <2>2 DEF WithdrawListing, WriteWithdraw
  <2>3. ASSUME NEW u \in Users, NEW o \in Offers, NEW l \in Listings,
               NEW amount \in Prices \cup {NoPrice}, NEW pieces \in SUBSET Items,
               MakeOffer(u, o, l, amount, pieces)
        PROVE  UNCHANGED pieceVars
    BY <2>3 DEF MakeOffer, WriteOffer
  <2>4. ASSUME NEW u \in Users, NEW o \in Offers, RejectOffer(u, o) \/ RateOffer(u, o)
        PROVE  UNCHANGED pieceVars
    BY <2>4 DEF RejectOffer, WriteReject, RateOffer, WriteRating
  <2>5. ASSUME NEW u \in Users, NEW p \in {"free", "pro"}, SetPlan(u, p)
        PROVE  UNCHANGED pieceVars
    BY <2>5 DEF SetPlan
  <2>6. CASE UNCHANGED vars
    BY <2>6 DEF vars
  <2> QED
    BY <2>1, <2>2, <2>3, <2>4, <2>5, <2>6 DEF Next
<1> QED
    BY <1>1, <1>2, <1>3, <1>4, <1>5, <1>6

\* The marketplace implements the ledger: whatever is published, offered, accepted, removed or
\* verified, holder, verification and trail of every piece move only as PieceLedger says.
THEOREM ImplementsLedger == Spec => LedgerSpec
<1>1. Init => Ledger!Init
    BY DEF Init, Ledger!Init
<1>2. TypeOK /\ RowsNamed /\ Vouched /\ [Next]_vars => [Ledger!Next]_(Ledger!ledger)
    BY LedgerStep DEF LedgerOf, Ledger!Next
<1> QED
    BY <1>1, <1>2, TypeCorrect, PiecesVouched, PTL DEF Spec, LedgerSpec, Ledger!Spec

-----------------------------------------------------------------------------
(* What follows for the trail.                                              *)

\* A step of the ledger extends an unbroken trail to an unbroken one.
LEMMA TrailStep ==
    ASSUME TypeOK, TypeOK', ProvenanceUnbroken, NEW i \in Items, LedgerOf(i), owner'[i] # Nobody
    PROVE  chain'[i] # <<>> /\ Continuous(chain'[i]) /\ chain'[i][Len(chain'[i])].to = owner'[i]
<1> USE MarketAssumption
<1> DEFINE c == chain[i]
           d == chain'[i]
<1>1. c \in Seq(Event) /\ d \in Seq(Event)
    BY DEF TypeOK
<1>2. CASE Ledger!Keep(i)
    BY <1>2 DEF Ledger!Keep, ProvenanceUnbroken
<1>3. CASE Ledger!Register(i)
    BY <1>3 DEF Ledger!Register, Continuous
<1>4. CASE Ledger!Remove(i)
    BY <1>4 DEF Ledger!Remove
<1>5. CASE Ledger!Verify(i)
  <2>1. c # <<>> /\ Continuous(c) /\ c[Len(c)].to = owner[i]
    BY <1>5 DEF Ledger!Verify, ProvenanceUnbroken
  <2>2. Trail("verified", Nobody, owner[i]) \in Event
    BY <1>5, TrailType DEF Ledger!Verify, TypeOK
  <2>3. /\ Len(d) = Len(c) + 1 /\ d[Len(c) + 1] = Trail("verified", Nobody, owner[i])
        /\ \A k \in 1..Len(c) : d[k] = c[k]
    BY <1>1, <1>5, <2>2, AppendKeeps DEF Ledger!Verify, Trail
  <2>4. Len(c) \in Nat /\ Len(c) > 0
    BY <1>1, <2>1
  <2>5. owner'[i] = owner[i]
    BY <1>5 DEF Ledger!Verify
  <2> HIDE DEF c, d
  <2>6. \A k \in 2..Len(d) : IF k = Len(c) + 1 THEN TRUE ELSE k \in 2..Len(c)
    BY <2>3, <2>4
  <2>7. d # <<>> /\ d[1] = c[1] /\ d[Len(d)].to = owner'[i]
    BY <2>3, <2>4, <2>5 DEF Trail
  <2>8. Continuous(d)
    BY <2>1, <2>3, <2>4, <2>6, <2>7 DEF Continuous, Trail
  <2> QED
    BY <2>7, <2>8 DEF d
<1>6. CASE Ledger!Transfer(i)
  <2>1. c # <<>> /\ Continuous(c) /\ c[Len(c)].to = owner[i]
    BY <1>6 DEF Ledger!Transfer, ProvenanceUnbroken
  <2>2. /\ Len(d) > Len(c) /\ SubSeq(d, 1, Len(c)) = c /\ d[Len(d)].to = owner'[i]
        /\ \A k \in Len(c) + 1 .. Len(d) :
              /\ d[k].kind \in {"sale", "trade"}
              /\ d[k].from = IF k = Len(c) + 1 THEN owner[i] ELSE d[k - 1].to
    BY <1>6 DEF Ledger!Transfer
  <2> HIDE DEF c, d
  <2>3. Len(c) \in Nat /\ Len(d) \in Nat /\ Len(c) > 0
    BY <1>1, <2>1
  <2>4. \A k \in 1..Len(c) : d[k] = c[k]
    BY <1>1, <2>2, <2>3
  <2>5. \A k \in 2..Len(d) : k \in 2..Len(c) \/ k = Len(c) + 1 \/ k \in Len(c) + 2..Len(d)
    BY <2>3
  <2>6. Continuous(d)
    <3>1. d[1].kind = "registered"
      BY <2>1, <2>3, <2>4 DEF Continuous
    <3>2. ASSUME NEW k \in 2..Len(c)
          PROVE  /\ d[k].kind # "registered"
                 /\ IF d[k].kind = "verified" THEN d[k].to = d[k - 1].to ELSE d[k].from = d[k - 1].to
      <4>1. k - 1 \in 1..Len(c) /\ k \in 1..Len(c)
        BY <2>3
      <4> QED
        BY <2>1, <2>4, <4>1 DEF Continuous
    <3>3. d[Len(c) + 1].from = d[Len(c)].to /\ Len(c) + 1 \in Len(c) + 1..Len(d)
      BY <2>1, <2>2, <2>3, <2>4
    <3>4. (Len(c) + 1) - 1 = Len(c)
      BY <2>3
    <3>5. ASSUME NEW k \in Len(c) + 2..Len(d)
          PROVE  d[k].kind \in {"sale", "trade"} /\ d[k].from = d[k - 1].to
      BY <2>2, <2>3
    <3> QED
      BY <2>2, <2>5, <3>1, <3>2, <3>3, <3>4, <3>5 DEF Continuous
  <2>7. d # <<>>
    BY <2>2, <2>3
  <2> QED
    BY <2>2, <2>6, <2>7 DEF d
<1> QED
    BY <1>2, <1>3, <1>4, <1>5, <1>6 DEF LedgerOf

\* The trail a certificate signs is unbroken and ends at the holder.
THEOREM Provenance == Spec => []ProvenanceUnbroken
<1>1. Init => ProvenanceUnbroken
    BY DEF Init, ProvenanceUnbroken
<1>2. TypeOK /\ TypeOK' /\ RowsNamed /\ Vouched /\ ProvenanceUnbroken /\ [Next]_vars
         => ProvenanceUnbroken'
    BY LedgerStep, TrailStep DEF ProvenanceUnbroken
<1> QED
    BY <1>1, <1>2, TypeCorrect, PiecesVouched, PTL DEF Spec

\* Only what is attested is ever handed on, in every trail.
LEMMA SoldStep ==
    ASSUME TypeOK, TypeOK', Vouched, VerifiedBeforeSold, NEW i \in Items, LedgerOf(i)
    PROVE  \A k \in 1..Len(chain'[i]) : chain'[i][k].kind \in {"sale", "trade"} =>
              \E j \in 1..k : chain'[i][j].kind = "verified"
<1> DEFINE c == chain[i]
           d == chain'[i]
<1>1. c \in Seq(Event) /\ d \in Seq(Event)
    BY DEF TypeOK
<1>2. CASE Ledger!Keep(i)
    BY <1>2 DEF Ledger!Keep, VerifiedBeforeSold
<1>3. CASE Ledger!Register(i) \/ Ledger!Remove(i)
    BY <1>3 DEF Ledger!Register, Ledger!Remove
<1>4. CASE Ledger!Verify(i)
  <2>1. Trail("verified", Nobody, owner[i]) \in Event
    BY <1>4, TrailType, MarketAssumption DEF Ledger!Verify, TypeOK
  <2>2. /\ Len(d) = Len(c) + 1 /\ d[Len(c) + 1].kind = "verified"
        /\ \A k \in 1..Len(c) : d[k] = c[k]
    BY <1>1, <1>4, <2>1, AppendKeeps DEF Ledger!Verify, Trail
  <2>3. \A k \in 1..Len(c) : c[k].kind \in {"sale", "trade"} => \E j \in 1..k : c[j].kind = "verified"
    BY DEF VerifiedBeforeSold
  <2> HIDE DEF c, d
  <2>4. Len(c) \in Nat
    BY <1>1
  <2> QED
    BY <2>2, <2>3, <2>4 DEF d
<1>5. CASE Ledger!Transfer(i)
  <2>1. /\ Len(d) > Len(c) /\ SubSeq(d, 1, Len(c)) = c
    BY <1>5 DEF Ledger!Transfer
  <2>2. \E j \in 1..Len(c) : c[j].kind = "verified"
    BY <1>5 DEF Ledger!Transfer, Vouched, Attested
  <2>3. \A k \in 1..Len(c) : c[k].kind \in {"sale", "trade"} => \E j \in 1..k : c[j].kind = "verified"
    BY DEF VerifiedBeforeSold
  <2> HIDE DEF c, d
  <2>4. Len(c) \in Nat /\ Len(d) \in Nat
    BY <1>1
  <2>5. \A k \in 1..Len(c) : d[k] = c[k]
    BY <1>1, <2>1, <2>4
  <2> QED
    BY <2>1, <2>2, <2>3, <2>4, <2>5 DEF d
<1> QED
    BY <1>2, <1>3, <1>4, <1>5 DEF LedgerOf

\* No trail shows a sale or a trade before a verification, also of pieces that were offered
\* long before they moved.
THEOREM OnlyVerifiedMoves == Spec => []VerifiedBeforeSold
<1>1. Init => VerifiedBeforeSold
    BY DEF Init, VerifiedBeforeSold
<1>2. TypeOK /\ TypeOK' /\ RowsNamed /\ Vouched /\ VerifiedBeforeSold /\ [Next]_vars
         => VerifiedBeforeSold'
    BY LedgerStep, SoldStep DEF VerifiedBeforeSold
<1> QED
    BY <1>1, <1>2, TypeCorrect, PiecesVouched, PTL DEF Spec

-----------------------------------------------------------------------------
(* The app's own market data.                                               *)

\* A listing that was never published has left no market data.
UnusedSilent == \A l \in Listings : listing[l].status = "unused" => l \notin asks /\ l \notin sales

\* A realised sale of l.
Sold(l) == \E o \in Offers : Accepted(o) /\ offer[o].listing = l /\ offer[o].amount >= FaceValue

\* No amount but numbers.
LEMMA AmountsAreNumbers == \A x \in Prices \cup {NoPrice} : x \in Nat
BY MarketAssumption DEF NoPrice

LEMMA MarketDataStep ==
    TypeOK /\ RowsNamed /\ SettledOnce /\ MarketDataAgrees /\ UnusedSilent /\ [Next]_vars
       => MarketDataAgrees' /\ UnusedSilent'
<1> SUFFICES ASSUME TypeOK, RowsNamed, SettledOnce, MarketDataAgrees, UnusedSilent, [Next]_vars
             PROVE  MarketDataAgrees' /\ UnusedSilent'
    OBVIOUS
<1> USE MarketAssumption
<1>1. CASE UNCHANGED <<listing, offer, asks, sales>>
    BY <1>1 DEF MarketDataAgrees, UnusedSilent, Exists, Active, Accepted
<1>2. ASSUME NEW u \in Users, NEW i \in Items, RemovePiece(u, i)
      PROVE  MarketDataAgrees' /\ UnusedSilent'
  <2> DEFINE gone == {l \in Listings : listing[l].item = i}
  <2>1. \A l \in Listings : listing'[l] = IF l \in gone THEN BlankListing("deleted")
                                                       ELSE listing[l]
    BY <1>2 DEF RemovePiece
  <2>2. \A o \in Offers : offer'[o] = IF offer[o].listing \in gone
                                      THEN BlankOffer("deleted") ELSE offer[o]
    BY <1>2 DEF RemovePiece
  <2>3. asks' = asks /\ sales' = sales
    BY <1>2 DEF RemovePiece, priceVars
  <2> HIDE DEF gone
  <2>4. \A l \in Listings : Exists(listing'[l]) => listing'[l] = listing[l] /\ l \notin gone
    BY <2>1 DEF Exists, BlankListing
  <2>5. \A l \in Listings \ gone : Sold(l)' <=> Sold(l)
    BY <2>2 DEF Sold, Accepted, BlankOffer
  <2>6. UnusedSilent'
    BY <2>1, <2>3 DEF UnusedSilent, BlankListing
  <2> QED
    BY <2>3, <2>4, <2>5, <2>6 DEF MarketDataAgrees, Active, Sold, Exists
<1>3. ASSUME NEW u \in Users, NEW l \in Listings, NEW i \in Items,
             NEW price \in AskingPrices \cup {NoPrice}, NEW trades \in BOOLEAN,
             CreateListing(u, l, i, price, trades)
      PROVE  MarketDataAgrees' /\ UnusedSilent'
  <2>1. /\ offer' = offer /\ sales' = sales /\ listing[l].status = "unused"
        /\ listing'[l].status = "active" /\ listing'[l].price = price
        /\ asks' = IF price = NoPrice THEN asks ELSE asks \cup {l}
        /\ \A k \in Listings \ {l} : listing'[k] = listing[k]
    BY <1>3 DEF CreateListing, MayList, WriteListing, TypeOK
  <2>2. \A o \in Offers : Accepted(o) => offer[o].listing # l
    BY <2>1 DEF SettledOnce
  <2>3. l \notin asks /\ l \notin sales
    BY <2>1 DEF UnusedSilent
  <2>4. /\ Active(l)' /\ (l \in asks' <=> listing'[l].price # NoPrice)
        /\ l \notin sales' /\ \A o \in Offers : Accepted(o)' => offer'[o].listing # l
    BY <2>1, <2>2, <2>3 DEF Active, Accepted
  <2>5. ASSUME NEW k \in Listings \ {l}
        PROVE  /\ listing'[k] = listing[k] /\ (k \in asks' <=> k \in asks) /\ (k \in sales' <=> k \in sales)
    BY <2>1
  <2>6. UnusedSilent'
    BY <2>1, <2>5 DEF UnusedSilent
  <2> QED
    BY <2>1, <2>4, <2>5, <2>6 DEF MarketDataAgrees, Active, Accepted, Exists
<1>4. ASSUME NEW u \in Users, NEW l \in Listings, WithdrawListing(u, l)
      PROVE  MarketDataAgrees' /\ UnusedSilent'
  <2>1. /\ listing[l].status = "active" /\ sales' = sales /\ asks' = asks \ {l}
        /\ \A k \in Listings : /\ listing'[k].status = IF k = l THEN "withdrawn" ELSE listing[k].status
                               /\ listing'[k].price = listing[k].price
    BY <1>4 DEF WithdrawListing, MayWithdraw, WriteWithdraw, Unasked, Active, TypeOK, ListingRow
  <2>2. \A o \in Offers : /\ Accepted(o)' <=> Accepted(o)
                          /\ offer'[o].listing = offer[o].listing /\ offer'[o].amount = offer[o].amount
    <3>1. offer' = RejectPending(offer, l) /\ offer \in [Offers -> OfferRow]
      BY <1>4 DEF WithdrawListing, WriteWithdraw, TypeOK
    <3> QED
      BY <3>1, RejectPendingRows DEF Accepted
  <2>3. \A k \in Listings : Sold(k)' <=> Sold(k)
    BY <2>2 DEF Sold
  <2>4. UnusedSilent'
    BY <2>1 DEF UnusedSilent
  <2> QED
    BY <2>1, <2>3, <2>4 DEF MarketDataAgrees, Active, Sold, Exists
<1>5. ASSUME NEW u \in Users, NEW o \in Offers, NEW l \in Listings,
             NEW amount \in Prices \cup {NoPrice}, NEW pieces \in SUBSET Items,
             MakeOffer(u, o, l, amount, pieces)
      PROVE  MarketDataAgrees' /\ UnusedSilent'
  <2>1. /\ UNCHANGED <<listing, asks, sales>>
        /\ offer[o].status = "unused" /\ offer'[o].status = "pending"
        /\ \A p \in Offers \ {o} : offer'[p] = offer[p]
    BY <1>5 DEF MakeOffer, MayOffer, WriteOffer, TypeOK, priceVars
  <2>2. \A k \in Listings : Sold(k)' <=> Sold(k)
    BY <2>1 DEF Sold, Accepted
  <2> QED
    BY <2>1, <2>2 DEF MarketDataAgrees, UnusedSilent, Sold, Exists, Active
<1>6. ASSUME NEW u \in Users, NEW o \in Offers, RejectOffer(u, o)
      PROVE  MarketDataAgrees' /\ UnusedSilent'
  <2>1. /\ UNCHANGED <<listing, asks, sales>> /\ offer[o].status = "pending"
        /\ offer'[o].status = "rejected"
        /\ \A p \in Offers \ {o} : offer'[p] = offer[p]
    BY <1>6 DEF RejectOffer, MayDecide, Pending, WriteReject, TypeOK, OfferRow, priceVars
  <2>2. \A k \in Listings : Sold(k)' <=> Sold(k)
    BY <2>1 DEF Sold, Accepted
  <2> QED
    BY <2>1, <2>2 DEF MarketDataAgrees, UnusedSilent, Sold, Exists, Active
<1>7. ASSUME NEW u \in Users, NEW o \in Offers, AcceptOffer(u, o)
      PROVE  MarketDataAgrees' /\ UnusedSilent'
  <2>5. PICK l \in Listings : offer[o].listing = l
    BY <1>7 DEF AcceptOffer, MayDecide, Pending, RowsNamed, Exists
  <2> DEFINE taken == [offer EXCEPT ![o].status = "accepted"]
  <2>1. offer[o].status = "pending" /\ listing[l].status = "active"
    BY <1>7, <2>5 DEF AcceptOffer, MayDecide, Pending, Active
  <2>12. offer[o].amount \in Nat
    <3>1. offer[o].amount \in Prices \cup {NoPrice}
      BY DEF TypeOK, OfferRow
    <3> QED
      BY <3>1, AmountsAreNumbers
  <2>2. /\ asks' = asks \ {l}
        /\ sales' = IF offer[o].amount >= FaceValue THEN sales \cup {l} ELSE sales
        /\ \A k \in Listings : /\ listing'[k].status = IF k = l THEN "sold" ELSE listing[k].status
                               /\ listing'[k].price = listing[k].price
    BY <1>7, <2>5 DEF AcceptOffer, WriteAccept, Unasked, Realized, TypeOK, ListingRow
  <2>3. taken \in [Offers -> OfferRow] /\ offer' = RejectPending(taken, l)
    BY <1>7, <2>5, StatusType DEF AcceptOffer, WriteAccept, TypeOK
  <2>4. \A p \in Offers : /\ taken[p].listing = offer[p].listing /\ taken[p].amount = offer[p].amount
                          /\ taken[p].status = IF p = o THEN "accepted" ELSE offer[p].status
    BY DEF TypeOK, OfferRow
  <2> HIDE DEF taken
  <2>6. \A p \in Offers : /\ Accepted(p)' <=> p = o \/ Accepted(p)
                          /\ offer'[p].listing = offer[p].listing /\ offer'[p].amount = offer[p].amount
    BY <2>3, <2>4, RejectPendingRows DEF Accepted
  <2>7. \A p \in Offers : Accepted(p) => offer[p].listing # l
    BY <2>1 DEF SettledOnce
  <2>8. ~Sold(l) /\ l \notin sales
    BY <2>1, <2>7 DEF MarketDataAgrees, Sold, Exists
  <2>9. Sold(l)' <=> offer[o].amount >= FaceValue
    BY <2>5, <2>6, <2>7, <2>12 DEF Sold
  <2>10. \A k \in Listings \ {l} : Sold(k)' <=> Sold(k)
    BY <2>5, <2>6 DEF Sold
  <2>11. UnusedSilent'
    BY <2>1, <2>2 DEF UnusedSilent
  <2> QED
    BY <2>1, <2>2, <2>8, <2>9, <2>10, <2>11 DEF MarketDataAgrees, Active, Sold, Exists
<1>8. \/ UNCHANGED <<listing, offer, asks, sales>>
      \/ \E u \in Users, i \in Items : RemovePiece(u, i)
      \/ \E u \in Users, l \in Listings, i \in Items,
            price \in AskingPrices \cup {NoPrice}, trades \in BOOLEAN :
            CreateListing(u, l, i, price, trades)
      \/ \E u \in Users, l \in Listings : WithdrawListing(u, l)
      \/ \E u \in Users, o \in Offers, l \in Listings,
            amount \in Prices \cup {NoPrice}, pieces \in SUBSET Items :
            MakeOffer(u, o, l, amount, pieces)
      \/ \E u \in Users, o \in Offers : RejectOffer(u, o) \/ AcceptOffer(u, o)
  <2>1. ASSUME NEW u \in Users, NEW i \in Items,
               VerifyPiece(u, i) \/ \E paid \in Prices \cup {NoPrice} : AddPiece(u, i, paid)
        PROVE  UNCHANGED <<listing, offer, asks, sales>>
    BY <2>1 DEF AddPiece, VerifyPiece, marketVars, priceVars
  <2>2. ASSUME NEW u \in Users, NEW o \in Offers, RateOffer(u, o)
        PROVE  UNCHANGED <<listing, offer, asks, sales>>
    BY <2>2 DEF RateOffer, WriteRating, priceVars
  <2>3. ASSUME NEW u \in Users, NEW p \in {"free", "pro"}, SetPlan(u, p)
        PROVE  UNCHANGED <<listing, offer, asks, sales>>
    BY <2>3 DEF SetPlan, marketVars, priceVars
  <2>4. CASE UNCHANGED vars
    BY <2>4 DEF vars, marketVars, priceVars
  <2> QED
    BY <2>1, <2>2, <2>3, <2>4 DEF Next
<1> QED
    BY <1>1, <1>2, <1>3, <1>4, <1>5, <1>6, <1>7, <1>8

\* The app's asks and sales tell what its listings and offers say.
THEOREM MarketDataHonest == Spec => []MarketDataAgrees
<1>1. Init => MarketDataAgrees /\ UnusedSilent
    BY DEF Init, MarketDataAgrees, UnusedSilent, Exists, BlankListing
<1> QED
    BY <1>1, MarketDataStep, TypeCorrect, Settlement, PTL DEF Spec

-----------------------------------------------------------------------------
(* What the database keeps while requests overlap.                          *)

\* What a started request remembers names collectors, pieces and rows.
Request(r) ==
    /\ r.kind = "list" => /\ r.user \in Users /\ r.item \in Items /\ r.trades \in BOOLEAN
                          /\ r.price \in AskingPrices \cup {NoPrice}
    /\ r.kind = "withdraw" => r.listing \in Listings
    /\ r.kind = "offer" => /\ r.user \in Users /\ r.listing \in Listings
                           /\ r.amount \in Prices \cup {NoPrice} /\ r.pieces \subseteq Items
    /\ r.kind = "decide" => r.offer \in Offers
    /\ r.kind = "rate" => r.offer \in Offers

Tables ==
    /\ listing \in [Listings -> ListingRow] /\ offer \in [Offers -> OfferRow]
    /\ DOMAIN inflight = Workers
    /\ \A w \in Workers : inflight[w] # Idle => Request(inflight[w])

\* What the two properties rest on: a realised sale has its row, which is unique.
Recorded == \A o \in Offers : Accepted(o) /\ Realized(offer[o].amount) => offer[o].listing \in sales
RaceInv == Tables /\ Recorded /\ RealisedOnce /\ ClosedLeavesNoAsk

\* Tables and market data as they were.
Still == UNCHANGED <<listing, offer, asks, sales>>

\* A request that starts, fails or leaves the tables alone disturbs nothing.
LEMMA StillKeeps ==
    ASSUME RaceInv, Still, DOMAIN inflight' = Workers,
           \A w \in Workers : inflight'[w] # Idle =>
              Request(inflight'[w]) \/ inflight'[w] = inflight[w]
    PROVE  RaceInv'
<1>1. Tables'
    BY DEF RaceInv, Still, Tables
<1> QED
    BY <1>1 DEF RaceInv, Still, Recorded, RealisedOnce, ClosedLeavesNoAsk, Accepted, Active, Exists

LEMMA StartKeeps ==
    ASSUME RaceInv, NEW w \in Workers, NEW r, Request(r), Start(w, r)
    PROVE  RaceInv'
<1>1. Still
    BY DEF Start, vars, marketVars, priceVars, Still
<1>2. DOMAIN inflight' = Workers /\ \A v \in Workers : inflight'[v] = r \/ inflight'[v] = inflight[v]
    BY DEF Start, RaceInv, Tables
<1> QED
    BY <1>1, <1>2, StillKeeps

LEMMA FinishKeeps ==
    ASSUME Tables, NEW w \in Workers, Finish(w)
    PROVE  /\ DOMAIN inflight' = Workers
           /\ \A v \in Workers : inflight'[v] # Idle => inflight'[v] = inflight[v]
BY DEF Finish, Tables

\* Every write that leaves accepted offers and realised sales alone keeps what they promise.
LEMMA OffersKeep ==
    ASSUME Recorded, RealisedOnce, sales \subseteq sales',
           \A o \in Offers : Accepted(o)' => /\ Accepted(o) /\ offer'[o].listing = offer[o].listing
                                             /\ offer'[o].amount = offer[o].amount
    PROVE  Recorded' /\ RealisedOnce'
BY DEF Recorded, RealisedOnce, Accepted

LEMMA WholeKeeps == RaceInv /\ Whole => RaceInv'
<1> SUFFICES ASSUME RaceInv, Whole PROVE RaceInv'
    OBVIOUS
<1>1. DOMAIN inflight' = Workers /\ \A w \in Workers : inflight'[w] = inflight[w]
    BY DEF Whole, RaceInv, Tables
<1>2. ASSUME NEW u \in Users, NEW i \in Items, RemovePiece(u, i)
      PROVE  RaceInv'
  <2> DEFINE gone == {l \in Listings : listing[l].item = i}
  <2>1. \A l \in Listings : listing'[l] = IF l \in gone THEN BlankListing("deleted")
                                                       ELSE listing[l]
    BY <1>2 DEF RemovePiece
  <2>2. \A o \in Offers : offer'[o] = IF offer[o].listing \in gone
                                      THEN BlankOffer("deleted") ELSE offer[o]
    BY <1>2 DEF RemovePiece
  <2>3. asks' = asks /\ sales' = sales
    BY <1>2 DEF RemovePiece, priceVars
  <2>4. BlankListing("deleted") \in ListingRow /\ BlankOffer("deleted") \in OfferRow
    BY DEF BlankListing, BlankOffer, ListingRow, OfferRow
  <2>5. listing' \in [Listings -> ListingRow] /\ offer' \in [Offers -> OfferRow]
    BY <1>2, <2>4 DEF RemovePiece, RaceInv, Tables
  <2> HIDE DEF gone
  <2>6. Tables'
    BY <1>1, <2>5 DEF Tables, RaceInv
  <2>7. Recorded' /\ RealisedOnce'
    <3>1. \A o \in Offers : Accepted(o)' => offer'[o] = offer[o] /\ Accepted(o)
      BY <2>2 DEF Accepted, BlankOffer
    <3> QED
      BY <2>3, <3>1, OffersKeep DEF RaceInv
  <2>8. ClosedLeavesNoAsk'
    BY <2>1, <2>3 DEF RaceInv, ClosedLeavesNoAsk, Exists, Active, BlankListing
  <2> QED
    BY <2>6, <2>7, <2>8 DEF RaceInv
<1>3. ASSUME NEW u \in Users, NEW i \in Items,
             VerifyPiece(u, i) \/ \E paid \in Prices \cup {NoPrice} : AddPiece(u, i, paid)
      PROVE  RaceInv'
  <2>1. Still
    BY <1>3 DEF AddPiece, VerifyPiece, marketVars, priceVars, Still
  <2> QED
    BY <1>1, <2>1, StillKeeps
<1>4. ASSUME NEW u \in Users, NEW p \in {"free", "pro"}, SetPlan(u, p)
      PROVE  RaceInv'
  <2>1. Still
    BY <1>4 DEF SetPlan, marketVars, priceVars, Still
  <2> QED
    BY <1>1, <2>1, StillKeeps
<1> QED
    BY <1>2, <1>3, <1>4 DEF Whole

LEMMA ListingKeeps == \A w \in Workers : RaceInv /\ FinishListing(w) => RaceInv'
<1> SUFFICES ASSUME NEW w \in Workers, RaceInv, FinishListing(w) PROVE RaceInv'
    OBVIOUS
<1> DEFINE r == inflight[w]
<1>1. PICK l \in Listings : /\ listing[l].status = "unused"
                            /\ WriteListing(r.user, l, r.item, r.price, r.trades)
    BY DEF FinishListing
<1>2. /\ r.user \in Users /\ r.item \in Items /\ r.trades \in BOOLEAN
      /\ r.price \in AskingPrices \cup {NoPrice}
    BY DEF FinishListing, Asks, RaceInv, Tables, Request
<1> DEFINE new == [status |-> "active", seller |-> r.user, item |-> r.item,
                   price |-> r.price, trades |-> r.trades]
<1>3. /\ listing' = [listing EXCEPT ![l] = new]
      /\ asks' = IF r.price = NoPrice THEN asks ELSE asks \cup {l}
      /\ offer' = offer /\ sales' = sales
    BY <1>1 DEF WriteListing
<1>4. new \in ListingRow
    BY <1>2 DEF ListingRow
<1>5. new.status = "active"
    OBVIOUS
<1> HIDE DEF new, r
<1>6. Tables'
    BY <1>3, <1>4, FinishKeeps DEF RaceInv, Tables, FinishListing
<1>7. \A k \in Listings \ {l} : listing'[k] = listing[k] /\ (k \in asks' <=> k \in asks)
    BY <1>3 DEF RaceInv, Tables
<1>8. Active(l)'
    BY <1>3, <1>5 DEF RaceInv, Tables, Active
<1>9. ClosedLeavesNoAsk'
    BY <1>7, <1>8 DEF RaceInv, ClosedLeavesNoAsk, Active, Exists
<1>10. Recorded' /\ RealisedOnce'
    BY <1>3, OffersKeep DEF RaceInv, Accepted
<1> QED
    BY <1>6, <1>9, <1>10 DEF RaceInv

LEMMA WithdrawKeeps == \A w \in Workers : RaceInv /\ FinishWithdraw(w) => RaceInv'
<1> SUFFICES ASSUME NEW w \in Workers, RaceInv, FinishWithdraw(w) PROVE RaceInv'
    OBVIOUS
<1>1. PICK l \in Listings : l = inflight[w].listing
    BY DEF FinishWithdraw, Asks, RaceInv, Tables, Request
<1>2. /\ listing' = [listing EXCEPT ![l].status = "withdrawn"]
      /\ offer' = RejectPending(offer, l) /\ asks' = asks \ {l} /\ sales' = sales
    BY <1>1 DEF FinishWithdraw, WriteWithdraw, Unasked
<1>3. Tables'
    BY <1>2, StatusType, RejectPendingType, FinishKeeps DEF RaceInv, Tables, FinishWithdraw
<1>4. \A k \in Listings \ {l} : listing'[k] = listing[k]
    BY <1>2 DEF RaceInv, Tables
<1>5. ClosedLeavesNoAsk'
    BY <1>2, <1>4 DEF RaceInv, ClosedLeavesNoAsk, Active, Exists
<1>6. \A o \in Offers : Accepted(o)' => /\ Accepted(o) /\ offer'[o].listing = offer[o].listing
                                        /\ offer'[o].amount = offer[o].amount
    BY <1>2, RejectPendingRows DEF RaceInv, Tables, Accepted
<1>7. Recorded' /\ RealisedOnce'
    BY <1>2, <1>6, OffersKeep DEF RaceInv
<1> QED
    BY <1>3, <1>5, <1>7 DEF RaceInv

LEMMA OfferKeeps == \A w \in Workers : RaceInv /\ FinishOffer(w) => RaceInv'
<1> SUFFICES ASSUME NEW w \in Workers, RaceInv, FinishOffer(w) PROVE RaceInv'
    OBVIOUS
<1> DEFINE r == inflight[w]
<1>1. PICK o \in Offers : /\ offer[o].status = "unused"
                          /\ WriteOffer(r.user, o, r.listing, r.amount, r.pieces)
    BY DEF FinishOffer
<1>2. /\ r.user \in Users /\ r.listing \in Listings
      /\ r.amount \in Prices \cup {NoPrice} /\ r.pieces \subseteq Items
    BY DEF FinishOffer, Asks, RaceInv, Tables, Request
<1> DEFINE new == [status |-> "pending", listing |-> r.listing, buyer |-> r.user,
                   amount |-> r.amount, pieces |-> r.pieces]
<1>3. offer' = [offer EXCEPT ![o] = new] /\ UNCHANGED <<listing, asks, sales>>
    BY <1>1 DEF WriteOffer, priceVars
<1>4. new \in OfferRow
    BY <1>2 DEF OfferRow
<1>5. new.status = "pending"
    OBVIOUS
<1> HIDE DEF new, r
<1>6. Tables'
    BY <1>3, <1>4, FinishKeeps DEF RaceInv, Tables, FinishOffer
<1>7. \A p \in Offers : Accepted(p)' => Accepted(p) /\ offer'[p] = offer[p]
    BY <1>3, <1>5 DEF RaceInv, Tables, Accepted
<1>8. Recorded' /\ RealisedOnce'
    BY <1>3, <1>7, OffersKeep DEF RaceInv
<1>9. ClosedLeavesNoAsk'
    BY <1>3 DEF RaceInv, ClosedLeavesNoAsk, Active, Exists
<1> QED
    BY <1>6, <1>8, <1>9 DEF RaceInv

LEMMA RejectKeeps == \A w \in Workers : RaceInv /\ FinishReject(w) => RaceInv'
<1> SUFFICES ASSUME NEW w \in Workers, RaceInv, FinishReject(w) PROVE RaceInv'
    OBVIOUS
<1>1. PICK o \in Offers : o = inflight[w].offer
    BY DEF FinishReject, Asks, RaceInv, Tables, Request
<1>2. offer' = [offer EXCEPT ![o].status = "rejected"] /\ UNCHANGED <<listing, asks, sales>>
    BY <1>1 DEF FinishReject, WriteReject, priceVars
<1>3. Tables'
    BY <1>2, StatusType, FinishKeeps DEF RaceInv, Tables, FinishReject
<1>4. \A p \in Offers : Accepted(p)' => Accepted(p) /\ offer'[p] = offer[p]
    BY <1>2 DEF RaceInv, Tables, Accepted, OfferRow
<1>5. Recorded' /\ RealisedOnce'
    BY <1>2, <1>4, OffersKeep DEF RaceInv
<1>6. ClosedLeavesNoAsk'
    BY <1>2 DEF RaceInv, ClosedLeavesNoAsk, Active, Exists
<1> QED
    BY <1>3, <1>5, <1>6 DEF RaceInv

LEMMA AcceptKeeps == \A w \in Workers : RaceInv /\ FinishAccept(w) => RaceInv'
<1> SUFFICES ASSUME NEW w \in Workers, RaceInv, FinishAccept(w) PROVE RaceInv'
    OBVIOUS
<1>1. PICK o \in Offers : o = inflight[w].offer
    BY DEF FinishAccept, Asks, RaceInv, Tables, Request
<1>2. PICK from : WriteAccept(inflight[w].user, o, from)
    BY <1>1 DEF FinishAccept
<1>3. PICK l : l = offer[o].listing
    OBVIOUS
<1> DEFINE taken == [offer EXCEPT ![o].status = "accepted"]
<1>4. /\ listing' = [listing EXCEPT ![l].status = "sold"]
      /\ offer' = RejectPending(taken, l) /\ asks' = asks \ {l}
      /\ sales' = IF Realized(offer[o].amount) THEN sales \cup {l} ELSE sales
    BY <1>2, <1>3 DEF WriteAccept, Unasked
<1>5. Realized(offer[o].amount) => l \notin sales
    BY <1>1, <1>3 DEF FinishAccept, MaySell
<1>6. taken \in [Offers -> OfferRow]
    BY StatusType DEF RaceInv, Tables
<1>7. \A p \in Offers : /\ taken[p].listing = offer[p].listing /\ taken[p].amount = offer[p].amount
                        /\ taken[p].status = IF p = o THEN "accepted" ELSE offer[p].status
    BY DEF RaceInv, Tables, OfferRow
<1> HIDE DEF taken
<1>8. \A p \in Offers : /\ Accepted(p)' <=> p = o \/ Accepted(p)
                        /\ offer'[p].listing = offer[p].listing /\ offer'[p].amount = offer[p].amount
    BY <1>4, <1>6, <1>7, RejectPendingRows DEF Accepted
<1>9. listing' \in [Listings -> ListingRow]
    <2>1. CASE l \in Listings
      BY <1>4, <2>1, StatusType DEF RaceInv, Tables
    <2>2. CASE l \notin Listings
      BY <1>4, <2>2 DEF RaceInv, Tables
    <2> QED
      BY <2>1, <2>2
<1>10. Tables'
    BY <1>4, <1>6, <1>9, RejectPendingType, FinishKeeps DEF RaceInv, Tables, FinishAccept
<1>11. Recorded'
    BY <1>3, <1>4, <1>8 DEF RaceInv, Recorded
<1>12. RealisedOnce'
  <2>1. \A p \in Offers \ {o} : ~(/\ Accepted(p) /\ offer[p].listing = l
                                  /\ Realized(offer[p].amount) /\ Realized(offer[o].amount))
    BY <1>5 DEF RaceInv, Recorded
  <2> QED
    BY <1>3, <1>8, <2>1 DEF RaceInv, RealisedOnce
<1>13. ClosedLeavesNoAsk'
  <2>1. \A k \in Listings \ {l} : listing'[k] = listing[k]
    BY <1>4 DEF RaceInv, Tables
  <2> QED
    BY <1>4, <2>1 DEF RaceInv, ClosedLeavesNoAsk, Active, Exists
<1> QED
    BY <1>10, <1>11, <1>12, <1>13 DEF RaceInv

LEMMA RaceStep == RaceInv /\ [RaceNext]_raceVars => RaceInv'
<1> SUFFICES ASSUME RaceInv, [RaceNext]_raceVars PROVE RaceInv'
    OBVIOUS
<1>1. ASSUME NEW w \in Workers, NEW u \in Users, NEW i \in Items,
             NEW price \in AskingPrices \cup {NoPrice}, NEW trades \in BOOLEAN,
             StartListing(w, u, i, price, trades)
      PROVE  RaceInv'
  <2> DEFINE r == [kind |-> "list", user |-> u, item |-> i, price |-> price, trades |-> trades]
  <2>1. Request(r) /\ Start(w, r)
    BY <1>1 DEF StartListing, Request
  <2> QED
    BY <2>1, StartKeeps
<1>2. ASSUME NEW w \in Workers, NEW u \in Users, NEW l \in Listings, StartWithdraw(w, u, l)
      PROVE  RaceInv'
  <2> DEFINE r == [kind |-> "withdraw", user |-> u, listing |-> l]
  <2>1. Request(r) /\ Start(w, r)
    BY <1>2 DEF StartWithdraw, Request
  <2> QED
    BY <2>1, StartKeeps
<1>3. ASSUME NEW w \in Workers, NEW u \in Users, NEW l \in Listings,
             NEW amount \in Prices \cup {NoPrice}, NEW pieces \in SUBSET Items,
             StartOffer(w, u, l, amount, pieces)
      PROVE  RaceInv'
  <2> DEFINE r == [kind |-> "offer", user |-> u, listing |-> l, amount |-> amount,
                   pieces |-> pieces]
  <2>1. Request(r) /\ Start(w, r)
    BY <1>3 DEF StartOffer, Request
  <2> QED
    BY <2>1, StartKeeps
<1>4. ASSUME NEW w \in Workers, NEW u \in Users, NEW o \in Offers, NEW accept \in BOOLEAN,
             StartDecide(w, u, o, accept)
      PROVE  RaceInv'
  <2> DEFINE r == [kind |-> "decide", user |-> u, offer |-> o, accept |-> accept,
                   from |-> owner[listing[offer[o].listing].item]]
  <2>1. Request(r) /\ Start(w, r)
    BY <1>4 DEF StartDecide, Request
  <2> QED
    BY <2>1, StartKeeps
<1>5. ASSUME NEW w \in Workers, NEW u \in Users, NEW o \in Offers, StartRating(w, u, o)
      PROVE  RaceInv'
  <2> DEFINE r == [kind |-> "rate", user |-> u, offer |-> o]
  <2>1. Request(r) /\ Start(w, r)
    BY <1>5 DEF StartRating, Request
  <2> QED
    BY <2>1, StartKeeps
<1>6. ASSUME NEW w \in Workers, FinishRating(w) \/ Fail(w)
      PROVE  RaceInv'
  <2>1. Still /\ Finish(w)
    BY <1>6 DEF FinishRating, WriteRating, Fail, vars, marketVars, priceVars, Still
  <2> QED
    BY <2>1, FinishKeeps, StillKeeps DEF RaceInv
<1>7. CASE UNCHANGED raceVars
  <2>1. Still /\ inflight' = inflight
    BY <1>7 DEF raceVars, vars, marketVars, priceVars, Still
  <2> QED
    BY <2>1, StillKeeps DEF RaceInv, Tables
<1> QED
    BY <1>1, <1>2, <1>3, <1>4, <1>5, <1>6, <1>7, WholeKeeps, ListingKeeps, WithdrawKeeps,
       OfferKeeps, RejectKeeps, AcceptKeeps DEF RaceNext

LEMMA RaceStart == RaceInit => RaceInv
<1> SUFFICES ASSUME RaceInit PROVE RaceInv
    OBVIOUS
<1>1. BlankListing("unused") \in ListingRow /\ BlankOffer("unused") \in OfferRow
    BY DEF BlankListing, BlankOffer, ListingRow, OfferRow
<1>2. /\ listing = [l \in Listings |-> BlankListing("unused")]
      /\ offer = [o \in Offers |-> BlankOffer("unused")]
      /\ asks = {} /\ inflight = [w \in Workers |-> Idle]
    BY DEF RaceInit, Init
<1>3. Tables
    BY <1>1, <1>2 DEF Tables
<1>4. \A o \in Offers : ~Accepted(o)
    BY <1>2 DEF Accepted, BlankOffer
<1> QED
    BY <1>2, <1>3, <1>4 DEF RaceInv, Recorded, RealisedOnce, ClosedLeavesNoAsk

\* However many acceptances, withdrawals and removals overlap, of the offers on a listing at
\* most one is a realised sale.
THEOREM OneRealisedSale == RaceSpec => []RealisedOnce
<1>1. RaceInv => RealisedOnce
    BY DEF RaceInv
<1> QED
    BY <1>1, RaceStart, RaceStep, PTL DEF RaceSpec

\* However requests overlap, a closed listing asks no price any more.
THEOREM NoAskLeft == RaceSpec => []ClosedLeavesNoAsk
<1>1. RaceInv => ClosedLeavesNoAsk
    BY DEF RaceInv
<1> QED
    BY <1>1, RaceStart, RaceStep, PTL DEF RaceSpec
================================================================================
