------------------------------ MODULE MarketIntel ------------------------------
(***************************************************************************)
(* What the assistant makes of the observations of one coin:               *)
(*   pricing/reliability.py         how far a listing is trusted           *)
(*   pricing/market_intel.py        range, fair band, trend, advice        *)
(*   platform/market_assistant.py   the deals of a coin, its band's inputs *)
(*   platform/valuation.py          the value an alert compares with       *)
(* These are functions of the observations and the estimates, checked on    *)
(* the markets of MarketDesk.  Money is in cents, percentages in tenths, an *)
(* age in days; a value that may be missing is a set of at most one.        *)
(*                                                                         *)
(* Left out: the words of titles (a listing says what they decide), the     *)
(* bonus of certified pieces, the monthly history, the selling copy, the    *)
(* order of deals by rank, and the rounding of an exact half of a tenth of  *)
(* a percent.                                                               *)
(***************************************************************************)
EXTENDS Integers, Sequences, FiniteSets, SequencesExt

Face == 200
The(S) == CHOOSE x \in S : TRUE

Realized(o) == o.kind \in {"SOLD", "AUCTION_CLOSED"}
Asking(o) == o.kind \in {"ASKING", "AUCTION_OPEN"}

\* assess: the titles it refuses whatever else is said of the listing, with the words the
\* admin added to its own; altered pieces only of a type that is not itself coloured.
Refused(coloured) ==
    {"lot", "replica", "admin_replica"}
       \cup IF coloured THEN {} ELSE {"altered", "admin_altered"}
\* The same, asked without the type's colour and without the admin's words.
RefusedByMovers == {"lot", "replica", "altered"}
Readable(obs, refused) == { o \in obs : o.title \notin refused }

\* assess: the score in percent; 0 is "not usable".
Unusable(o) == o.match < 85 \/ (Realized(o) /\ o.price < Face)
Reliability(o) ==
    IF Unusable(o) THEN 0
    ELSE (IF o.match < 95 THEN 70 ELSE 100) \div (IF o.title = "misdated" THEN 2 ELSE 1)

\* listings_for_type, and the part of it snapshot works with.
Lookback == 400
Usable(obs) == { o \in obs : o.days <= Lookback /\ Reliability(o) > 0 }
Sold(obs) == { o \in Usable(obs) : Realized(o) }
Offers(obs) == { o \in Usable(obs) : Asking(o) }

-----------------------------------------------------------------------------
(* _stats: quartiles with linear interpolation, both ends included.         *)

\* The prices of a set of observations in order: the i-th has fewer than i below it.
Prices(S) ==
    LET upTo(p) == Cardinality({ o \in S : o.price <= p })
        below(p) == Cardinality({ o \in S : o.price < p })
    IN  [i \in 1..Cardinality(S) |->
            CHOOSE p \in { o.price : o \in S } : below(p) < i /\ i <= upTo(p)]

\* Mutant of Quartile: the position counts from one, not from zero.
QuartileFromOne(s, k) == s[Min({Len(s), 2 + ((Len(s) - 1) * k) \div 4})]
Quartile(s, k) ==
    LET j == ((Len(s) - 1) * k) \div 4
        r == ((Len(s) - 1) * k) % 4
        above == IF r = 0 THEN s[j + 1] ELSE s[j + 2]
    IN  (s[j + 1] * (4 - r) + above * r + 2) \div 4

RangeOf(S) == LET s == Prices(S)
              IN  [n |-> Len(s), min |-> s[1], p25 |-> Quartile(s, 1), p75 |-> Quartile(s, 3)]

\* The sales of the last 90 days if there are five, else those of the year if there are three.
Within(S, days) == { o \in S : o.days <= days }
Sample(sold) ==
    IF Cardinality(Within(sold, 90)) >= 5 THEN Within(sold, 90)
    ELSE IF Cardinality(Within(sold, 365)) >= 3 THEN Within(sold, 365)
    ELSE {}
RangeIn(S) == IF S = {} THEN {} ELSE {RangeOf(S)}

\* fair_band.  Factors of 0.70 and 0.80 and 1.20 round to the cent, half up.
Percent(x, p) == (x * p + 50) \div 100
FairBand(realized, catalog, model, asking) ==
    CASE realized # {} ->
            [low |-> The(realized).p25, high |-> The(realized).p75, basis |-> "sold"]
      [] realized = {} /\ \E v \in catalog : v > 0 ->
            [low |-> Percent(The(catalog), 80), high |-> Percent(The(catalog), 120),
             basis |-> "catalog"]
      [] OTHER ->
            IF \E a \in asking : a.n >= 2
            THEN [low |-> Percent(The(asking).min, 70), high |-> The(asking).min,
                  basis |-> "asking_only"]
            ELSE IF model # {}
            THEN [low |-> The(model).p25, high |-> The(model).p75, basis |-> "mintage_model"]
            ELSE [low |-> Face, high |-> Face, basis |-> "face_value"]

\* The last 90 days against the rest of the year, two sales each; twice the median stays whole.
TwiceMedian(S) ==
    LET s == Prices(S)  n == Len(s)
    IN  s[(n + 1) \div 2] + s[n \div 2 + 1]
Trend(sold) ==
    LET last == Within(sold, 90)
        before == Within(sold, 365) \ last
        change == TwiceMedian(last) - TwiceMedian(before)
    IN  IF Cardinality(last) < 2 \/ Cardinality(before) < 2 THEN {}
        ELSE {(2000 * change + TwiceMedian(before)) \div (2 * TwiceMedian(before))}

\* Where it sells best: the highest median among the marketplaces with three sales.
BestMarkets(S) ==
    LET at(m) == { o \in S : o.market = m }
        eligible == { m \in { o.market : o \in S } : Cardinality(at(m)) >= 3 }
    IN  { m \in eligible : \A k \in eligible : TwiceMedian(at(k)) <= TwiceMedian(at(m)) }

-----------------------------------------------------------------------------
(* The estimates of the coin: rows [grade, basis, median, p25, p75, n].     *)

\* catalog_value: the lowest for the uncirculated coin, else the lowest.
CatalogValue(est) ==
    LET rows == { e \in est : e.basis = "catalog" }
        unc == { e \in rows : e.grade = "UNC" }
    IN  IF rows = {} THEN {}
        ELSE {Min({ e.median : e \in IF unc = {} THEN rows ELSE unc })}

\* model_band_for: the row with the lowest p25.
ModelBand(est) ==
    LET rows == { e \in est : e.basis = "mintage_model" }
    IN  IF rows = {} THEN {} ELSE {CHOOSE e \in rows : \A f \in rows : e.p25 <= f.p25}

\* snapshot, of readable listings.
Snapshot(obs, est) ==
    LET realized == RangeIn(Sample(Sold(obs)))
        asking == RangeIn(Offers(obs))
    IN  [realized |-> realized, asking |-> asking, trend |-> Trend(Sold(obs)),
         offers |-> Offers(obs),
         best |-> BestMarkets(IF realized = {} THEN Sold(obs) ELSE Sample(Sold(obs))),
         band |-> FairBand(realized, CatalogValue(est), ModelBand(est), asking)]

\* market_for_type, of a market [obs, est, coloured].
Shown(m) == Readable(m.obs, Refused(m.coloured))
MarketForType(m) == Snapshot(Shown(m), m.est)

\* _pick: the strongest basis of the first grade in the order of fallback with a row.
GradeFallback == <<"UNKNOWN", "UNC", "CIRCULATED", "BU", "PROOF">>
BasisRank == [sold |-> 0, catalog |-> 1, asking_only |-> 2, mintage_model |-> 3]
\* The rows valuations_for may return for a piece of unknown grade; none: face value.
Valuation(est) ==
    LET graded(g) == { e \in est : e.grade = g }
        first == { i \in DOMAIN GradeFallback : graded(GradeFallback[i]) # {} }
        rows == graded(GradeFallback[Min(first)])
        beats(e, f) == \/ BasisRank[e.basis] < BasisRank[f.basis]
                       \/ BasisRank[e.basis] = BasisRank[f.basis] /\ e.n > f.n
    IN  IF first = {} THEN {} ELSE { e \in rows : \A f \in rows : ~beats(f, e) }

-----------------------------------------------------------------------------
(* Advice.                                                                  *)

\* The first of the offers, sorted by price, of equal ones the newest.
Cheapest(s) == { o \in s.offers : \A p \in s.offers :
                    o.price < p.price \/ (o.price = p.price /\ o.days <= p.days) }
\* buy_advice, considering the trend as market_for_type does.
BuyVerdict(s) ==
    LET price == The(Cheapest(s)).price
    IN  CASE s.offers = {} -> "no_offers"
          [] s.offers # {} /\ price <= s.band.low -> "buy_now"
          [] OTHER ->
                IF \E t \in s.trend : t <= -100 THEN "wait"
                ELSE IF price <= s.band.high THEN "fair" ELSE "overpriced"

\* sell_advice, per grade in percent: where to start, where to stop, what eBay leaves.
GradeFactor ==
    [g \in {"CIRCULATED", "UNKNOWN", "UNC", "BU", "PROOF"} |->
        CASE g = "CIRCULATED" -> 70 [] g = "UNKNOWN" -> 85 [] g = "UNC" -> 100
          [] g = "BU" -> 115 [] g = "PROOF" -> 150]
SellAdvice(s, grade) ==
    LET start == Percent(s.band.high, GradeFactor[grade])
        net == (start * 8675 - 350000 + 5000) \div 10000
    IN  [start |-> start, floor |-> Percent(s.band.low, GradeFactor[grade]),
         net_ebay |-> IF net < 0 THEN 0 ELSE net,
         hold |-> \E t \in s.trend : t >= 150, best |-> s.best]

\* deal_discount: tenths of a percent below the low end of the band.
Discount(price, band) ==
    IF band.low <= 0 \/ price >= band.low THEN 0
    ELSE (2000 * (band.low - price) + band.low) \div (2 * band.low)

\* deals: for a coin with an ask of the last 45 days and a real reference, the offers
\* well below its band.
Deals(obs, s, threshold) ==
    IF /\ \E o \in obs : Asking(o) /\ o.days <= 45
       /\ s.band.basis \notin {"face_value", "mintage_model", "asking_only"}
    THEN { o \in s.offers : Discount(o.price, s.band) >= threshold } ELSE {}

\* movers: four sales of the year, of whatever title, and a trend and a range in a snapshot
\* of its own.
ShownToMovers(m) == Readable(m.obs, RefusedByMovers)
Moves(m) ==
    LET s == Snapshot(ShownToMovers(m), {})
    IN  /\ Cardinality({ o \in m.obs : Realized(o) /\ o.days <= 365 }) >= 4
        /\ s.trend # {} /\ s.realized # {}
================================================================================
