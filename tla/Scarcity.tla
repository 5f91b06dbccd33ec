-------------------------------- MODULE Scarcity --------------------------------
(***************************************************************************)
(* What a coin's mintage says, with and without a market:                  *)
(*   pricing/mintage_model.py   a band of value from the mintage           *)
(*   pricing/recompute.py       the mintage a variant is judged by         *)
(*   rarity/scorer.py           a score of rarity from 0 to 100            *)
(*   rarity/recompute.py        the signals the score is made of           *)
(* Functions of the catalogue: when PriceEstimates' model row is written,   *)
(* its band is the one of Priced, and a score is written for every issue   *)
(* with a mintage.                                                         *)
(*                                                                         *)
(* Mintages are in thousands, money in cents, 0 is an unknown mintage.     *)
(* Logarithms are piecewise linear, a thousand to the decade; a score is a *)
(* whole number.  Left out: the geometric mean of a band, the rounding to  *)
(* the cent, and buckets with the same bound.                              *)
(***************************************************************************)
EXTENDS Integers, FiniteSets, SequencesExt

CONSTANTS
    Issues,
    Designs,      \* coin types
    DesignOf,     \* the type of an issue
    FinishOf,     \* its finish
    PlaceOf,      \* its country and year
    Base,         \* base_type_id of a type, or NoDesign
    Circulating,  \* types of kind CIRCULATION
    Special,      \* types whose title is a special edition's
    Buckets,      \* DEFAULT_BUCKETS: records [upper, low, high]
    Factor,       \* FINISH_FACTOR, in percent
    Common,       \* COMMON_DESIGN_MINTAGE
    MinSales,     \* MIN_SALES_TO_CALIBRATE
    MinClass,     \* MIN_CLASS_SIZE
    Mintages,     \* the mintages that occur (bound)
    Prices,       \* the prices that occur (bound)
    NoDesign, NoFigures

ASSUME ScarcityAssumption ==
    /\ IsFiniteSet(Issues) /\ DesignOf \in [Issues -> Designs]
    /\ Base \in [Designs -> Designs \cup {NoDesign}]
    /\ 0 \notin Prices /\ Mintages \subseteq Nat /\ Prices \subseteq Nat
    /\ MinSales \in Nat \ {0} /\ MinClass \in Nat \ {0, 1} /\ Common \in Nat
    /\ \A i \in Issues : Factor[FinishOf[i]] \in Nat \ {0}
    /\ IsFiniteSet(Buckets) /\ Buckets # {}
    /\ \A b \in Buckets : {b.upper, b.low, b.high} \subseteq Nat
    /\ \A b, c \in Buckets :
          /\ 0 < b.low /\ b.low <= b.high
          /\ b.upper = c.upper => b = c
          /\ b.upper < c.upper => b.low >= c.low /\ b.high >= c.high

VARIABLE mintages    \* mintage per issue, NoFigures before the catalogue has any

NoBand == [low |-> 0, high |-> 0]

-----------------------------------------------------------------------------
(* The mintage model.                                                       *)

\* parse_buckets: the administrator's table, or the default one if any of it is unusable.
Parsed(raw) == IF raw = {} \/ \E b \in raw : b.low <= 0 \/ b.high < b.low THEN Buckets ELSE raw

\* bucket_index: the first bucket whose bound is above the mintage, else the last one.
BucketOf(mintage, buckets) ==
    LET above == { b \in buckets : mintage < b.upper }
    IN  IF above = {} THEN CHOOSE b \in buckets : \A c \in buckets : c.upper <= b.upper
        ELSE CHOOSE b \in above : \A c \in above : b.upper <= c.upper

\* The k-th of values in order, counted from 0.
Ranked(S, value, k) ==
    CHOOSE v \in { value[s] : s \in S } :
       /\ Cardinality({ s \in S : value[s] < v }) <= k
       /\ k < Cardinality({ s \in S : value[s] <= v })

\* Mutant of Calibrated: the middle of the upper quartiles is one short.
CalibratedShort(sold, mintage, p25, p75, buckets, b) ==
    LET rows == { i \in sold : mintage[i] > 0 /\ BucketOf(mintage[i], buckets) = b }
        n == Cardinality(rows)
    IN  IF n < MinSales THEN [low |-> b.low, high |-> b.high]
        ELSE [low |-> Ranked(rows, p25, n \div 2), high |-> Ranked(rows, p75, (n - 1) \div 2)]
\* calibrate, and what model_band makes of it: the sales of enough coins replace the bucket.
Calibrated(sold, mintage, p25, p75, buckets, b) ==
    LET rows == { i \in sold : mintage[i] > 0 /\ BucketOf(mintage[i], buckets) = b }
        n == Cardinality(rows)
    IN  IF n < MinSales THEN [low |-> b.low, high |-> b.high]
        ELSE [low |-> Ranked(rows, p25, n \div 2), high |-> Ranked(rows, p75, n \div 2)]

\* Of the rows without a better basis: the emission's total, or the sum of its variants.
Total(d, mintage, total, rows) ==
    LET own == { i \in rows : DesignOf[i] = d }
        S[T \in SUBSET own] ==
            IF T = {} THEN 0 ELSE LET i == CHOOSE i \in T : TRUE IN mintage[i] + S[T \ {i}]
    IN  IF total[d] > 0 THEN total[d] ELSE S[own]

\* recompute_model_estimates: the mintage an issue is judged by.
Judged(i, mintage, total, rows) ==
    LET d == DesignOf[i]
    IN  IF d \in Circulating
        THEN IF FinishOf[i] = "CIRCULATION" /\ mintage[i] > 0 THEN mintage[i] ELSE Common
        ELSE IF Base[d] # NoDesign /\ total[Base[d]] > 0 THEN total[Base[d]]
        ELSE Total(d, mintage, total, rows)

\* The band of an issue without a better basis; none for an edition without a base.
Priced(i, mintage, total, rows, sold, p25, p75, buckets) ==
    LET judged == Judged(i, mintage, total, rows)
        band == Calibrated(sold, mintage, p25, p75, buckets, BucketOf(judged, buckets))
    IN  IF judged = 0 \/ (Base[DesignOf[i]] = NoDesign /\ DesignOf[i] \in Special) THEN NoBand
        ELSE [low |-> band.low * Factor[FinishOf[i]], high |-> band.high * Factor[FinishOf[i]]]

-----------------------------------------------------------------------------
(* Rarity.                                                                  *)

Lg(n) == LET L[k \in 1..n] == IF k < 10 THEN (1000 * (k - 1)) \div 9 ELSE 1000 + L[k \div 10]
         IN  L[n]
Clamp(x) == Max({0, Min({100, x})})

\* statistics.quantiles(n=100, inclusive): the first is k = 1, the last k = 99.
Quantile(S, value, k) ==
    LET j == (k * (Cardinality(S) - 1)) \div 100
        r == (k * (Cardinality(S) - 1)) % 100
        above == IF r = 0 THEN Ranked(S, value, j) ELSE Ranked(S, value, j + 1)
    IN  (Ranked(S, value, j) * (100 - r) + above * r) \div 100

\* _mintage_bounds_by_finish: rare and common within a class of some size, else the default.
Bounds(finish, mintage) ==
    LET class == { i \in Issues : FinishOf[i] = finish /\ mintage[i] > 0 }
        rare == Quantile(class, mintage, 1)
        common == Quantile(class, mintage, 99)
    IN  IF Cardinality(class) < MinClass \/ rare >= common THEN [rare |-> 10, common |-> 30000]
        ELSE [rare |-> rare, common |-> common]

\* _mintage_component.
Scarce(i, mintage) ==
    LET b == Bounds(FinishOf[i], mintage)
        width == Lg(Max({b.common, 2})) - Lg(Max({b.rare, 1}))
    IN  IF width <= 0 THEN 50
        ELSE Clamp((100 * (Lg(Max({b.common, 2})) - Lg(mintage[i]))) \div width)

\* _searched_country_years and per_million: no listing says something only where the market
\* was searched; seen is an observation of any age and kind, listed the asks of the month.
Searched(seen) == { PlaceOf[i] : i \in { j \in Issues : seen[j] } }
WithSupply(mintage, seen) == { i \in Issues : mintage[i] > 0 /\ PlaceOf[i] \in Searched(seen) }
PerMillion(i, mintage, listed) == (listed[i] * 1000000) \div mintage[i]

\* The catalogue's median of those above zero.
Baseline(mintage, seen, listed) ==
    LET offered == { i \in WithSupply(mintage, seen) : listed[i] > 0 }
        supply == [i \in offered |-> PerMillion(i, mintage, listed)]
        n == Cardinality(offered)
    IN  IF n = 0 THEN 0
        ELSE (Ranked(offered, supply, (n - 1) \div 2) + Ranked(offered, supply, n \div 2)) \div 2

\* _availability_component: as much supply as usual is 50, a decade more is 0; none if unknown.
Availability(i, mintage, seen, listed) ==
    LET usual == Baseline(mintage, seen, listed)
    IN  IF usual = 0 \/ i \notin WithSupply(mintage, seen) THEN {}
        ELSE {Clamp(50 - (50 * (Lg(Max({1, PerMillion(i, mintage, listed)})) - Lg(usual))) \div 1000)}

\* _sale_medians: of the grade with the largest sample; of equals the query's first.
SaleMedians(rows) == { e.median : e \in { r \in rows : \A s \in rows : s.n <= r.n } }

\* _premium_component: 500 times face value is 100.
Premium(median) ==
    IF median <= 200 THEN 0 ELSE Clamp((100 * (Lg(median) - Lg(200))) \div (Lg(100000) - Lg(200)))

\* score: the weights of the components that are known are scaled to the whole.
Score(scarce, availability, premium) ==
    (60 * scarce + (IF availability = {} THEN 0 ELSE 25 * CHOOSE x \in availability : TRUE)
                 + (IF premium = {} THEN 0 ELSE 15 * CHOOSE x \in premium : TRUE))
    \div (60 + 25 * Cardinality(availability) + 15 * Cardinality(premium))

\* recompute_all_rarity: the scores an issue may get.
Rated(i, mintage, seen, listed, rows) ==
    { Score(Scarce(i, mintage), Availability(i, mintage, seen, listed), premium) :
        premium \in IF rows[i] = {} THEN {{}} ELSE { {Premium(m)} : m \in SaleMedians(rows[i]) } }

-----------------------------------------------------------------------------
(* The catalogue's figures.                                                 *)

CatalogueInit == mintages = NoFigures
\* One catalogue after the other.
CatalogueNext ==
    \/ mintages = NoFigures /\ mintages' \in [Issues -> Mintages]
    \/ mintages # NoFigures /\ mintages' = NoFigures
CatalogueSpec == CatalogueInit /\ [][CatalogueNext]_mintages

-----------------------------------------------------------------------------
(* Properties.                                                              *)

\* The band of every issue is one, whatever was sold; without sales a smaller emission is never
\* worth less; and a variant of a commemorative passes for scarcer than its own print run only
\* by a total that a source gave (recompute.py: "a BU coincard of a 500 000-coin emission is not
\* a 10 000-coin rarity").
BandOf(m) == Calibrated({}, <<>>, <<>>, <<>>, Buckets, BucketOf(m, Buckets))
BandsTell(mintage) ==
    /\ \A i, j \in Issues : mintage[i] <= mintage[j] =>
          /\ BandOf(mintage[i]).low >= BandOf(mintage[j]).low
          /\ BandOf(mintage[i]).high >= BandOf(mintage[j]).high
    /\ \A rows \in SUBSET Issues :
       /\ \A total \in [Designs -> {0, Common}], i \in rows :
             DesignOf[i] \notin Circulating /\ Judged(i, mintage, total, rows) < mintage[i]
                => total[DesignOf[i]] > 0 \/ Base[DesignOf[i]] # NoDesign
       /\ \A p25, p75 \in [Issues \ rows -> Prices] :
             (\A i \in Issues \ rows : p25[i] <= p75[i]) =>
                \A i \in rows :
                   LET q == Priced(i, mintage, [d \in Designs |-> 0], rows, Issues \ rows,
                                   p25, p75, Parsed({}))
                   IN  q = NoBand \/ (0 < q.low /\ q.low <= q.high)

\* Of two issues of one finish the one with the smaller mintage never scores less, unless the
\* market knows more of one than of the other, has more of it on offer for every coin struck or
\* pays less for it; a score is one of 0 to 100.
RarityTells(mintage) ==
    \A seen \in [Issues -> BOOLEAN],
       listed \in [Issues -> {0, 1, 4}],
       rows \in [Issues -> {{}} \cup { {[n |-> 3, median |-> p]} : p \in Prices }] :
       (\A i \in Issues : listed[i] > 0 => seen[i]) =>
          \A i, j \in { k \in Issues : mintage[k] > 0 } :
             LET si == Rated(i, mintage, seen, listed, rows)
                 sj == Rated(j, mintage, seen, listed, rows)
                 known == WithSupply(mintage, seen)
             IN  /\ si \subseteq 0..100
                 /\ /\ FinishOf[i] = FinishOf[j] /\ mintage[i] <= mintage[j]
                    /\ (i \in known) = (j \in known)
                    /\ PerMillion(i, mintage, listed) <= PerMillion(j, mintage, listed)
                    /\ (rows[i] = {}) = (rows[j] = {})
                    /\ \A m \in SaleMedians(rows[i]), n \in SaleMedians(rows[j]) : m >= n
                    => \A x \in si, y \in sj : x >= y

\* Both, of whatever mintages the catalogue has.
ScarcityTells == mintages # NoFigures => BandsTell(mintages) /\ RarityTells(mintages)
================================================================================
