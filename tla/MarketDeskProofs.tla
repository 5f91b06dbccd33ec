---------------------------- MODULE MarketDeskProofs ----------------------------
(***************************************************************************)
(* What collectors are told, for any markets of finitely many observations  *)
(* and estimates, any number of users, alerts and runs.                     *)
(***************************************************************************)
EXTENDS MarketDesk, FiniteSetTheorems, WellFoundedInduction, TLAPS

-----------------------------------------------------------------------------
(* Finite sets.                                                             *)

\* Of finitely many one has the least value.
LEMMA LeastOf ==
    ASSUME NEW S, IsFiniteSet(S), S # {}, NEW f \in [S -> Int]
    PROVE  \E x \in S : \A y \in S : f[x] <= f[y]
<1> DEFINE D(x) == { y \in S : f[y] <= f[x] }
           T == { D(x) : x \in S }
<1>1. T # {} /\ T \subseteq SUBSET S
  <2>1. \A x \in S : D(x) \in SUBSET S
    OBVIOUS
  <2> HIDE DEF D
  <2> QED
    BY <2>1
<1>2. IsWellFoundedOn(StrictSubsetOrdering(S), FiniteSubsetsOf(S))
    BY FS_StrictSubsetOrderingWellFounded
<1>3. T \subseteq FiniteSubsetsOf(S)
    BY <1>1, FS_FiniteSubsetsOfFinite
<1> HIDE DEF T
<1>4. PICK d \in T : \A e \in T : ~ (<<e, d>> \in StrictSubsetOrdering(S))
    BY <1>1, <1>2, <1>3, WFMin
<1>5. PICK x \in S : d = D(x)
    BY DEF T
<1>6. ASSUME NEW y \in S, ~(f[x] <= f[y]) PROVE FALSE
  <2>1. f[y] \in Int /\ f[x] \in Int /\ f[y] < f[x]
    BY <1>6
  <2>2. D(y) \in T
    BY DEF T
  <2>3. D(y) \subseteq D(x)
    BY <2>1
  <2>4. x \in D(x) /\ x \notin D(y)
    BY <2>1
  <2>5. <<D(y), d>> \in StrictSubsetOrdering(S)
    BY <1>1, <1>5, <2>2, <2>3, <2>4 DEF StrictSubsetOrdering
  <2> QED
    BY <1>4, <2>2, <2>5
<1> QED
    BY <1>6

LEMMA GreatestOf ==
    ASSUME NEW S, IsFiniteSet(S), S # {}, NEW f \in [S -> Int]
    PROVE  \E x \in S : \A y \in S : f[y] <= f[x]
<1> DEFINE g == [x \in S |-> 0 - f[x]]
<1>1. g \in [S -> Int]
    OBVIOUS
<1> HIDE DEF g
<1>2. PICK x \in S : \A y \in S : g[x] <= g[y]
    BY <1>1, LeastOf
<1>3. \A y \in S : f[y] \in Int /\ g[y] = 0 - f[y]
    BY DEF g
<1> QED
    BY <1>2, <1>3

LEMMA Counted ==
    ASSUME NEW S, IsFiniteSet(S), NEW T \in SUBSET S, NEW U \in SUBSET T
    PROVE  /\ IsFiniteSet(T) /\ IsFiniteSet(U)
           /\ Cardinality(S) \in Nat /\ Cardinality(T) \in Nat /\ Cardinality(U) \in Nat
           /\ Cardinality(U) <= Cardinality(T) /\ Cardinality(T) <= Cardinality(S)
    BY FS_Subset, FS_CardinalityType

-----------------------------------------------------------------------------
(* Prices in order.                                                         *)

Priced(S) == IsFiniteSet(S) /\ \A o \in S : o.price \in Int
Below(S, p) == { o \in S : o.price < p }
UpTo(S, p) == { o \in S : o.price <= p }

\* The i-th price has fewer than i below it, and i up to it.
LEMMA InOrder ==
    ASSUME NEW S, Priced(S), NEW i \in 1..Cardinality(S)
    PROVE  /\ Prices(S)[i] \in Int
           /\ Cardinality(Below(S, Prices(S)[i])) < i
           /\ i <= Cardinality(UpTo(S, Prices(S)[i]))
<1> DEFINE f == [o \in S |-> o.price]
           T == { o \in S : i <= Cardinality(UpTo(S, o.price)) }
<1>1. /\ IsFiniteSet(S) /\ Cardinality(S) \in Nat /\ i \in Nat /\ 1 <= i /\ i <= Cardinality(S)
      /\ S # {} /\ f \in [S -> Int] /\ \A o \in S : f[o] = o.price
    BY FS_CardinalityType, FS_EmptySet DEF Priced
<1> HIDE DEF f
<1>2. T # {}
  <2>1. PICK o \in S : \A y \in S : f[y] <= f[o]
    BY <1>1, GreatestOf
  <2>2. UpTo(S, o.price) = S
    BY <1>1, <2>1 DEF UpTo
  <2> QED
    BY <1>1, <2>2
<1>3. T \in SUBSET S /\ IsFiniteSet(T) /\ [o \in T |-> f[o]] \in [T -> Int]
    BY <1>1, FS_Subset
<1>4. PICK o \in T : \A y \in T : f[o] <= f[y]
  <2> DEFINE g == [o \in T |-> f[o]]
  <2> HIDE DEF T
  <2>1. PICK x \in T : \A y \in T : g[x] <= g[y]
    <3> HIDE DEF g
    <3> QED
      BY <1>2, <1>3, LeastOf DEF g
  <2> QED
    BY <2>1
<1>5. Cardinality(Below(S, o.price)) < i
  <2>1. /\ Cardinality(Below(S, o.price)) \in Nat /\ IsFiniteSet(Below(S, o.price))
        /\ Below(S, o.price) \in SUBSET S
    BY <1>1, Counted DEF Below
  <2>2. ASSUME Cardinality(Below(S, o.price)) >= i PROVE FALSE
    <3> DEFINE B == Below(S, o.price)
               g == [x \in B |-> f[x]]
    <3>1. B # {} /\ g \in [B -> Int] /\ IsFiniteSet(B)
      BY <1>1, <2>1, <2>2, FS_EmptySet
    <3>2. PICK q \in B : \A y \in B : g[y] <= g[q]
      <4> HIDE DEF B, g
      <4> QED
        BY <3>1, GreatestOf
    <3>3. q \in S /\ q.price < o.price /\ \A y \in B : y.price <= q.price
      BY <1>1, <3>2 DEF Below
    <3>4. B \subseteq UpTo(S, q.price)
      BY <3>3 DEF UpTo, Below
    <3>5. UpTo(S, q.price) \in SUBSET S
      BY DEF UpTo
    <3>6. /\ Cardinality(B) <= Cardinality(UpTo(S, q.price))
          /\ Cardinality(UpTo(S, q.price)) \in Nat
      <4> HIDE DEF B
      <4> QED
        BY <1>1, <3>4, <3>5, Counted
    <3>7. q \in T
      BY <1>1, <2>1, <2>2, <3>3, <3>6
    <3>8. f[o] <= f[q]
      BY <1>4, <3>7
    <3> QED
      BY <1>1, <3>3, <3>8
  <2> QED
    BY <1>1, <2>1, <2>2
<1>6. /\ o.price \in { x.price : x \in S } /\ i <= Cardinality(UpTo(S, o.price))
    BY <1>4
<1>7. Prices(S)[i] = CHOOSE p \in { x.price : x \in S } :
         Cardinality(Below(S, p)) < i /\ i <= Cardinality(UpTo(S, p))
    BY DEF Prices, Below, UpTo
<1>8. /\ Prices(S)[i] \in { x.price : x \in S }
      /\ Cardinality(Below(S, Prices(S)[i])) < i
      /\ i <= Cardinality(UpTo(S, Prices(S)[i]))
    BY <1>5, <1>6, <1>7
<1> QED
    BY <1>8 DEF Priced

LEMMA PricesAreInts ==
    ASSUME NEW S, Priced(S)
    PROVE  /\ Prices(S) \in Seq(Int) /\ Len(Prices(S)) = Cardinality(S)
           /\ Cardinality(S) \in Nat
<1>1. Cardinality(S) \in Nat
    BY FS_CardinalityType DEF Priced
<1>2. \A i \in 1..Cardinality(S) : Prices(S)[i] \in Int
    BY InOrder
<1>3. Prices(S) = [i \in 1..Cardinality(S) |-> Prices(S)[i]]
  <2> DEFINE c(i) == CHOOSE p \in { o.price : o \in S } :
                        /\ Cardinality({ o \in S : o.price < p }) < i
                        /\ i <= Cardinality({ o \in S : o.price <= p })
  <2>1. Prices(S) = [i \in 1..Cardinality(S) |-> c(i)]
    BY DEF Prices
  <2> HIDE DEF c
  <2> QED
    BY <2>1
<1> QED
    BY <1>1, <1>2, <1>3

\* They do not fall, and more than n - i of n lie above what is below the i-th.
LEMMA Rising ==
    ASSUME NEW S, Priced(S), NEW i \in 1..Cardinality(S)
    PROVE  /\ \A k \in i..Cardinality(S) : Prices(S)[i] <= Prices(S)[k]
           /\ \A p \in Int : p < Prices(S)[i] =>
                 Cardinality({ x \in S : x.price > p }) > Cardinality(S) - i
<1> DEFINE s == Prices(S)
<1>1. /\ IsFiniteSet(S) /\ Cardinality(S) \in Nat
      /\ \A k \in 1..Cardinality(S) : /\ s[k] \in Int
                                      /\ Cardinality(Below(S, s[k])) < k
                                      /\ k <= Cardinality(UpTo(S, s[k]))
    BY InOrder, FS_CardinalityType DEF Priced
<1>2. \A p, q \in Int : p < q => /\ UpTo(S, p) \in SUBSET Below(S, q)
                                 /\ Below(S, q) \in SUBSET S
                                 /\ UpTo(S, p) \in SUBSET S
    BY DEF Below, UpTo, Priced
<1> HIDE DEF s
<1>3. \A p, q \in Int : p < q =>
         /\ IsFiniteSet(UpTo(S, p))
         /\ Cardinality(UpTo(S, p)) \in Nat /\ Cardinality(Below(S, q)) \in Nat
         /\ Cardinality(UpTo(S, p)) <= Cardinality(Below(S, q))
    BY <1>1, <1>2, Counted
<1>4. ASSUME NEW k \in i..Cardinality(S) PROVE s[i] <= s[k]
    BY <1>1, <1>3
<1>5. ASSUME NEW p \in Int, p < s[i]
      PROVE  Cardinality({ x \in S : x.price > p }) > Cardinality(S) - i
  <2>1. { x \in S : x.price > p } = S \ UpTo(S, p) /\ S \cap UpTo(S, p) = UpTo(S, p)
    BY DEF UpTo, Priced
  <2>2. Cardinality(S \ UpTo(S, p)) = Cardinality(S) - Cardinality(UpTo(S, p))
    BY <1>1, <2>1, FS_Difference
  <2>3. Cardinality(UpTo(S, p)) \in Nat /\ Cardinality(UpTo(S, p)) < i
    BY <1>1, <1>3, <1>5
  <2>4. Cardinality(S \ UpTo(S, p)) > Cardinality(S) - i
    BY <1>1, <2>2, <2>3
  <2> QED
    BY <2>1, <2>4
<1> QED
    BY <1>4, <1>5 DEF s

\* _stats: what costs less than the first quartile costs less than three quarters of all
\* but one.
LEMMA FirstQuartile ==
    ASSUME NEW S, Priced(S), S # {}
    PROVE  /\ RangeOf(S).p25 \in Int
           /\ \A p \in Int : p < RangeOf(S).p25 =>
                 4 * Cardinality({ x \in S : x.price > p }) > 3 * (Cardinality(S) - 1)
<1> DEFINE s == Prices(S)
           n == Cardinality(S)
           j == (n - 1) \div 4
           r == (n - 1) % 4
           m == IF r = 0 THEN j + 1 ELSE j + 2
           q == RangeOf(S).p25
<1>1. n \in Nat /\ n >= 1 /\ s \in Seq(Int) /\ Len(s) = n
    BY PricesAreInts, FS_EmptySet DEF Priced
<1> HIDE DEF n, s
<1>2. /\ j \in Nat /\ r \in 0..3 /\ n = 4 * j + r + 1
      /\ j + 1 \in 1..n /\ m \in (j + 1)..n
    BY <1>1
<1>3. s[j + 1] \in Int /\ s[m] \in Int /\ s[j + 1] <= s[m]
  <2>1. \A i \in 1..n : s[i] \in Int
    BY <1>1
  <2>2. \A k \in (j + 1)..n : s[j + 1] <= s[k]
    BY <1>2, Rising DEF s, n
  <2> QED
    BY <1>2, <2>1, <2>2
<1>4. q = (s[j + 1] * (4 - r) + s[m] * r + 2) \div 4
  <2>1. q = Quartile(s, 1)
    BY DEF RangeOf, s
  <2>2. (Len(s) - 1) * 1 = n - 1
    BY <1>1
  <2> QED
    BY <2>1, <2>2 DEF Quartile
<1> HIDE DEF q, j, r, m
<1>5. q \in Int /\ q <= s[m]
  <2>1. CASE r = 0
    BY <1>3, <1>4, <2>1
  <2>2. CASE r = 1
    BY <1>3, <1>4, <2>2
  <2>3. CASE r = 2
    BY <1>3, <1>4, <2>3
  <2>4. CASE r = 3
    BY <1>3, <1>4, <2>4
  <2> QED
    BY <1>2, <2>1, <2>2, <2>3, <2>4
<1>6. ASSUME NEW p \in Int, p < q
      PROVE  4 * Cardinality({ x \in S : x.price > p }) > 3 * (n - 1)
  <2>1. p < s[m]
    BY <1>3, <1>5, <1>6
  <2>2. Cardinality({ x \in S : x.price > p }) > n - m
    <3>1. m \in 1..n
      BY <1>1, <1>2
    <3> QED
      BY <2>1, <3>1, Rising DEF s, n
  <2>3. Cardinality({ x \in S : x.price > p }) \in Nat
    BY FS_Subset, FS_CardinalityType DEF Priced
  <2>4. m \in Nat /\ 4 * (n - m + 1) > 3 * (n - 1)
    BY <1>1, <1>2 DEF m
  <2> QED
    BY <1>1, <2>2, <2>3, <2>4
<1> QED
    BY <1>5, <1>6 DEF q, n

-----------------------------------------------------------------------------
(* What the assistant says of one market.                                   *)

Rows(m) == /\ IsFiniteSet(m.obs) /\ IsFiniteSet(m.est)
           /\ \A o \in m.obs : o.price \in Int /\ o.days \in Int
           /\ \A e \in m.est : e.median \in Int /\ e.p25 \in Int

LEMMA SomePriced ==
    ASSUME NEW m, Rows(m), NEW S \in SUBSET m.obs
    PROVE  Priced(S) /\ S \in SUBSET m.obs
    BY FS_Subset DEF Rows, Priced

\* The first offer after sorting: there is one, and none is cheaper.
LEMMA CheapestOffer ==
    ASSUME NEW m, Rows(m), NEW s, s.offers \in SUBSET m.obs, s.offers # {}
    PROVE  /\ The(Cheapest(s)) \in s.offers
           /\ \A o \in s.offers : The(Cheapest(s)).price <= o.price
<1> DEFINE S == s.offers
           f == [o \in S |-> o.price]
<1>1. IsFiniteSet(S) /\ f \in [S -> Int] /\ \A o \in S : o.price \in Int /\ o.days \in Int
    BY FS_Subset DEF Rows
<1>2. PICK c \in S : \A o \in S : f[c] <= f[o]
  <2> HIDE DEF S, f
  <2> QED
    BY <1>1, LeastOf DEF S
<1> DEFINE T == { o \in S : o.price = c.price }
           g == [o \in T |-> o.days]
<1>3. IsFiniteSet(T) /\ T # {} /\ g \in [T -> Int]
    BY <1>1, FS_Subset
<1>4. PICK d \in T : \A o \in T : g[d] <= g[o]
  <2> HIDE DEF T, g
  <2> QED
    BY <1>3, LeastOf
<1>5. d \in Cheapest(s)
  <2>1. \A p \in S : c.price <= p.price
    BY <1>2
  <2>2. d \in S /\ d.price = c.price
    OBVIOUS
  <2>3. \A p \in S : p.price = c.price => d.days <= p.days
    BY <1>4
  <2>4. \A p \in S : d.price < p.price \/ (d.price = p.price /\ d.days <= p.days)
    <3> HIDE DEF S, T
    <3> QED
      BY <1>1, <2>1, <2>2, <2>3
  <2> QED
    BY <2>2, <2>4 DEF Cheapest
<1>6. The(Cheapest(s)) \in Cheapest(s)
    BY <1>5 DEF The
<1> DEFINE o == The(Cheapest(s))
<1> HIDE DEF o
<1>7. o \in S /\ \A p \in S : o.price < p.price \/ (o.price = p.price /\ o.days <= p.days)
    BY <1>6 DEF Cheapest, o
<1>8. \A p \in S : o.price <= p.price
  <2> HIDE DEF S
  <2> QED
    BY <1>1, <1>7
<1> QED
    BY <1>7, <1>8 DEF o

\* buy_advice says to buy when the cheapest offer is no dearer than the band's low end.
LEMMA BuyNow ==
    ASSUME NEW s
    PROVE  BuyVerdict(s) = "buy_now" <=>
              s.offers # {} /\ The(Cheapest(s)).price <= s.band.low
<1> DEFINE rest == IF \E t \in s.trend : t <= -100 THEN "wait"
                   ELSE IF The(Cheapest(s)).price <= s.band.high THEN "fair" ELSE "overpriced"
<1>1. CASE s.offers = {}
    BY <1>1 DEF BuyVerdict
<1>2. CASE s.offers # {} /\ The(Cheapest(s)).price <= s.band.low
    BY <1>2 DEF BuyVerdict
<1>3. CASE s.offers # {} /\ ~(The(Cheapest(s)).price <= s.band.low)
  <2>1. BuyVerdict(s) = rest
    BY <1>3 DEF BuyVerdict
  <2>2. rest # "buy_now"
    OBVIOUS
  <2> QED
    BY <1>3, <2>1, <2>2
<1> QED
    BY <1>1, <1>2, <1>3

\* The lowest catalogue value is one of the rows'.
LEMMA CatalogRow ==
    ASSUME NEW m, Rows(m), CatalogValue(m.est) # {}
    PROVE  \E e \in m.est : e.basis = "catalog" /\ The(CatalogValue(m.est)) = e.median
<1> DEFINE R == { e \in m.est : e.basis = "catalog" }
           U == { e \in R : e.grade = "UNC" }
           V == IF U = {} THEN R ELSE U
           f == [e \in V |-> e.median]
<1>1. R # {} /\ CatalogValue(m.est) = {Min({ e.median : e \in V })}
    BY DEF CatalogValue
<1>2. V \subseteq R /\ V # {} /\ IsFiniteSet(V) /\ f \in [V -> Int]
    BY <1>1, FS_Subset DEF Rows
<1>3. PICK e \in V : \A x \in V : f[e] <= f[x]
  <2> HIDE DEF V, f
  <2> QED
    BY <1>2, LeastOf
<1>4. Min({ x.median : x \in V }) \in { x.median : x \in V }
    BY <1>3 DEF Min
<1>5. The(CatalogValue(m.est)) = Min({ e1.median : e1 \in V })
    BY <1>1 DEF The
<1> HIDE DEF V
<1>6. PICK e1 \in V : The(CatalogValue(m.est)) = e1.median
    BY <1>4, <1>5
<1> QED
    BY <1>2, <1>6

LEMMA ModelRow ==
    ASSUME NEW m, Rows(m), ModelBand(m.est) # {}
    PROVE  The(ModelBand(m.est)).p25 \in Int
<1> DEFINE R == { e \in m.est : e.basis = "mintage_model" }
           f == [e \in R |-> e.p25]
           b == CHOOSE e \in R : \A x \in R : e.p25 <= x.p25
<1>1. R # {} /\ ModelBand(m.est) = {b}
    BY DEF ModelBand
<1>2. IsFiniteSet(R) /\ f \in [R -> Int]
    BY FS_Subset DEF Rows
<1>3. PICK e \in R : \A x \in R : f[e] <= f[x]
  <2> HIDE DEF R, f
  <2> QED
    BY <1>1, <1>2, LeastOf
<1>4. b \in R
    BY <1>3
<1>5. The(ModelBand(m.est)) = b
    BY <1>1 DEF The
<1> QED
    BY <1>4, <1>5 DEF Rows

LEMMA SampleOf ==
    ASSUME NEW S, Sample(S) # {}
    PROVE  \E days \in {90, 365} : Sample(S) = Within(S, days) /\
              (IsFiniteSet(S) => Cardinality(Sample(S)) >= 3)
<1>1. CASE Cardinality(Within(S, 90)) >= 5
  <2>1. Sample(S) = Within(S, 90)
    BY <1>1 DEF Sample
  <2>2. IsFiniteSet(S) => Cardinality(Within(S, 90)) \in Nat
    BY FS_Subset, FS_CardinalityType DEF Within
  <2> QED
    BY <1>1, <2>1, <2>2
<1>2. CASE ~(Cardinality(Within(S, 90)) >= 5)
  <2>1. Cardinality(Within(S, 365)) >= 3 /\ Sample(S) = Within(S, 365)
    BY <1>2 DEF Sample
  <2> QED
    BY <2>1
<1> QED
    BY <1>1, <1>2

LEMMA UsableRows ==
    ASSUME NEW m
    PROVE  /\ Sold(m.obs) \in SUBSET m.obs /\ Offers(m.obs) \in SUBSET m.obs
           /\ Sample(Sold(m.obs)) \in SUBSET m.obs
<1>1. Sold(m.obs) \in SUBSET m.obs /\ Offers(m.obs) \in SUBSET m.obs
    BY DEF Sold, Offers, Usable
<1>2. \A S, days : Within(S, days) \in SUBSET S
    BY DEF Within
<1>3. \A S : Sample(S) \in SUBSET S
  <2> TAKE S
  <2>1. Within(S, 90) \in SUBSET S /\ Within(S, 365) \in SUBSET S
    BY <1>2
  <2> QED
    BY <2>1 DEF Sample
<1> QED
    BY <1>1, <1>2, <1>3

LEMMA Views ==
    ASSUME NEW m
    PROVE  LET s == Snapshot(m.obs, m.est)
           IN  /\ s.offers = Offers(m.obs) /\ s.trend = Trend(Sold(m.obs))
               /\ s.realized = RangeIn(Sample(Sold(m.obs)))
               /\ s.asking = RangeIn(Offers(m.obs))
               /\ s.band = FairBand(s.realized, CatalogValue(m.est), ModelBand(m.est), s.asking)
    BY DEF Snapshot

LEMMA TheRange ==
    ASSUME NEW S, RangeIn(S) # {}
    PROVE  S # {} /\ The(RangeIn(S)) = RangeOf(S)
    BY DEF RangeIn, The

LEMMA WholeCents ==
    ASSUME NEW x \in Int, NEW p \in Int
    PROVE  /\ Percent(x, p) \in Int
           /\ Percent(x, 100) = x
           /\ \A y \in Int : y < Percent(x, 80) => 5 * y < 4 * x
    BY DEF Percent

\* fair_band: its low end is whole, and where it comes from.
LEMMA BandLow ==
    ASSUME NEW m, Rows(m), NEW s, s = Snapshot(m.obs, m.est)
    PROVE  /\ s.band.low \in Int
           /\ s.band.basis \in {"sold", "catalog", "asking_only", "mintage_model", "face_value"}
           /\ s.band.basis = "sold" =>
                 /\ Sample(Sold(m.obs)) # {}
                 /\ s.band.low = RangeOf(Sample(Sold(m.obs))).p25
           /\ s.band.basis = "catalog" =>
                 \E e \in m.est : e.basis = "catalog" /\ s.band.low = Percent(e.median, 80)
<1> DEFINE R == RangeIn(Sample(Sold(m.obs)))
           C == CatalogValue(m.est)
           M == ModelBand(m.est)
           A == RangeIn(Offers(m.obs))
           b == FairBand(R, C, M, A)
<1>1. s.band = b
    BY Views
<1>2. CASE R # {}
  <2>1. b.low = The(R).p25 /\ b.basis = "sold"
    BY <1>2 DEF FairBand
  <2>2. Sample(Sold(m.obs)) # {} /\ The(R) = RangeOf(Sample(Sold(m.obs)))
    BY <1>2, TheRange
  <2>3. Priced(Sample(Sold(m.obs)))
    BY UsableRows, SomePriced
  <2>4. RangeOf(Sample(Sold(m.obs))).p25 \in Int
    BY <2>2, <2>3, FirstQuartile
  <2> HIDE DEF b, R
  <2> QED
    BY <1>1, <2>1, <2>2, <2>4
<1>3. CASE R = {} /\ \E v \in C : v > 0
  <2>1. b.low = Percent(The(C), 80) /\ b.basis = "catalog"
    BY <1>3 DEF FairBand
  <2>2. PICK e \in m.est : e.basis = "catalog" /\ The(C) = e.median
    BY <1>3, CatalogRow
  <2>3. e.median \in Int
    BY DEF Rows
  <2>4. Percent(e.median, 80) \in Int
    BY <2>3 DEF Percent
  <2> HIDE DEF b, C
  <2> QED
    BY <1>1, <2>1, <2>2, <2>4
<1>4. CASE R = {} /\ ~(\E v \in C : v > 0) /\ \E a \in A : a.n >= 2
  <2>1. b.low = Percent(The(A).min, 70) /\ b.basis = "asking_only"
    BY <1>4 DEF FairBand
  <2>2. Offers(m.obs) # {} /\ The(A) = RangeOf(Offers(m.obs))
    BY <1>4, TheRange
  <2>3. Priced(Offers(m.obs))
    BY UsableRows, SomePriced
  <2>4. 1 \in 1..Cardinality(Offers(m.obs))
    BY <2>2, <2>3, FS_EmptySet, FS_CardinalityType DEF Priced
  <2>5. The(A).min \in Int
    BY <2>2, <2>3, <2>4, InOrder DEF RangeOf
  <2>6. Percent(The(A).min, 70) \in Int
    <3> HIDE DEF A
    <3> QED
      BY <2>5 DEF Percent
  <2> HIDE DEF b, A
  <2> QED
    BY <1>1, <2>1, <2>6
<1>5. CASE R = {} /\ ~(\E v \in C : v > 0) /\ ~(\E a \in A : a.n >= 2) /\ M # {}
  <2>1. b.low = The(M).p25 /\ b.basis = "mintage_model"
    BY <1>5 DEF FairBand
  <2>2. The(M).p25 \in Int
    BY <1>5, ModelRow
  <2> HIDE DEF b, M
  <2> QED
    BY <1>1, <2>1, <2>2
<1>6. CASE R = {} /\ ~(\E v \in C : v > 0) /\ ~(\E a \in A : a.n >= 2) /\ M = {}
  <2>1. b.low = Face /\ b.basis = "face_value"
    BY <1>6 DEF FairBand
  <2> HIDE DEF b
  <2> QED
    BY <1>1, <2>1 DEF Face
<1> QED
    BY <1>2, <1>3, <1>4, <1>5, <1>6

\* movers: a trend takes two recent and two earlier sales.
LEMMA TrendMoves ==
    ASSUME NEW m, Rows(m), Trend(Sold(m.obs)) # {}
    PROVE  /\ Cardinality({ o \in m.obs : Realized(o) /\ o.days <= 365 }) >= 4
           /\ RangeIn(Sample(Sold(m.obs))) # {}
<1> DEFINE S == Sold(m.obs)
           last == Within(S, 90)
           before == Within(S, 365) \ last
           year == { o \in m.obs : Realized(o) /\ o.days <= 365 }
<1>1. \/ Cardinality(last) >= 2 /\ Cardinality(before) >= 2
      \/ Cardinality(last) < 2 \/ Cardinality(before) < 2
  <2>1. S \in SUBSET m.obs /\ IsFiniteSet(S)
    BY UsableRows, FS_Subset DEF Rows
  <2>2. last \in SUBSET S /\ before \in SUBSET S
    BY DEF Within
  <2>3. Cardinality(last) \in Nat /\ Cardinality(before) \in Nat
    BY <2>1, <2>2, FS_Subset, FS_CardinalityType
  <2> QED
    BY <2>3
<1>2. ~(Cardinality(last) < 2) /\ ~(Cardinality(before) < 2)
  <2>1. SUFFICES ASSUME Cardinality(last) < 2 \/ Cardinality(before) < 2
                 PROVE  Trend(S) = {}
    OBVIOUS
  <2> QED
    BY <2>1 DEF Trend
<1>3. S \in SUBSET m.obs /\ IsFiniteSet(m.obs)
    BY UsableRows DEF Rows
<1>4. last \cup before = Within(S, 365) /\ last \cap before = {}
    BY <1>3 DEF Within, Rows
<1>5. Within(S, 365) \in SUBSET year /\ year \in SUBSET m.obs
    BY DEF Within, Sold, Usable
<1>6. IsFiniteSet(last) /\ IsFiniteSet(before)
  <2>1. last \in SUBSET m.obs /\ before \in SUBSET m.obs
    BY <1>3 DEF Within
  <2> QED
    BY <1>3, <2>1, FS_Subset
<1> HIDE DEF last, before, year
<1>7. Cardinality(Within(S, 365)) = Cardinality(last) + Cardinality(before) - Cardinality({})
    BY <1>4, <1>6, FS_Union
<1>8. /\ Cardinality(last) \in Nat /\ Cardinality(before) \in Nat /\ Cardinality({}) = 0
    BY <1>6, FS_CardinalityType, FS_EmptySet
<1>9. Cardinality(Within(S, 365)) >= 4
    BY <1>1, <1>2, <1>7, <1>8
<1>10. Cardinality(year) >= Cardinality(Within(S, 365)) /\ Cardinality(year) \in Nat
    BY <1>3, <1>5, Counted
<1>11. Sample(S) # {}
  <2>1. \A T : Cardinality(T) >= 3 => T # {}
    BY FS_EmptySet
  <2>2. Cardinality(Within(S, 90)) >= 5 => Within(S, 90) # {}
    <3>1. ~(0 >= 5)
      OBVIOUS
    <3> QED
      BY <3>1, FS_EmptySet
  <2>3. Cardinality(Within(S, 365)) >= 3 /\ Within(S, 365) # {}
    BY <1>7, <1>8, <1>9, <2>1
  <2> QED
    BY <2>2, <2>3 DEF Sample
<1> QED
    BY <1>7, <1>8, <1>9, <1>10, <1>11 DEF RangeIn, year

\* What DealsBacked says of an offer, of a page and of the rows it was made of.
BackedBy(o, s, obs, est) ==
    /\ BuyVerdict(s) = "buy_now"
    /\ \/ \E e \in est : e.basis = "catalog" /\ 5 * o.price < 4 * e.median
       \/ \E days \in {90, 365} :
             LET sold == Within(Sold(obs), days)
             IN  /\ Cardinality(sold) >= 3
                 /\ 4 * Cardinality({ x \in sold : x.price > o.price })
                       > 3 * (Cardinality(sold) - 1)

LEMMA DealOf ==
    ASSUME NEW m, Rows(m), NEW o, NEW s, NEW all, s = Snapshot(m.obs, m.est),
           o \in Deals(all, s, Threshold)
    PROVE  BackedBy(o, s, m.obs, m.est)
<1> USE DEF BackedBy
<1>1. /\ s.band.basis \notin {"face_value", "mintage_model", "asking_only"}
      /\ o \in s.offers /\ Discount(o.price, s.band) >= Threshold
    BY DEF Deals
<1>2. s.offers \in SUBSET m.obs /\ o.price \in Int /\ s.band.low \in Int
    BY <1>1, Views, UsableRows, BandLow DEF Rows
<1>3. o.price < s.band.low
  <2>1. Threshold \in Nat /\ Threshold # 0
    BY DeskAssumption
  <2>2. CASE s.band.low <= 0 \/ o.price >= s.band.low
    BY <1>1, <2>1, <2>2 DEF Discount
  <2> QED
    BY <1>2, <2>2
<1>4. BuyVerdict(s) = "buy_now"
  <2>1. /\ The(Cheapest(s)) \in m.obs /\ The(Cheapest(s)).price <= o.price
    BY <1>1, <1>2, CheapestOffer
  <2>2. The(Cheapest(s)).price \in Int
    BY <2>1 DEF Rows
  <2>3. The(Cheapest(s)).price <= s.band.low
    BY <1>2, <1>3, <2>1, <2>2
  <2> QED
    BY <1>1, <2>3, BuyNow
<1>5. CASE s.band.basis = "catalog"
  <2>1. PICK e \in m.est : e.basis = "catalog" /\ s.band.low = Percent(e.median, 80)
    BY <1>5, BandLow
  <2>2. e.median \in Int
    BY DEF Rows
  <2>3. 5 * o.price < 4 * e.median
    BY <1>2, <1>3, <2>1, <2>2 DEF Percent
  <2> QED
    BY <1>4, <2>1, <2>3
<1>6. CASE s.band.basis = "sold"
  <2> DEFINE T == Sample(Sold(m.obs))
  <2>1. T # {} /\ s.band.low = RangeOf(T).p25
    BY <1>6, BandLow
  <2>2. PICK days \in {90, 365} : T = Within(Sold(m.obs), days) /\
           (IsFiniteSet(Sold(m.obs)) => Cardinality(T) >= 3)
    BY <2>1, SampleOf
  <2>3. IsFiniteSet(Sold(m.obs)) /\ Priced(T)
    <3>1. Sold(m.obs) \in SUBSET m.obs
      BY DEF Sold, Usable
    <3>2. T \in SUBSET m.obs
      BY <2>2, <3>1 DEF Within
    <3> HIDE DEF T
    <3>3. Priced(Sold(m.obs)) /\ Priced(T)
      BY <3>1, <3>2, SomePriced
    <3> QED
      BY <3>3 DEF Priced
  <2> HIDE DEF T
  <2>4. 4 * Cardinality({ x \in T : x.price > o.price }) > 3 * (Cardinality(T) - 1)
    BY <1>2, <1>3, <2>1, <2>3, FirstQuartile
  <2> QED
    BY <1>4, <2>2, <2>3, <2>4
<1> QED
  <2>1. s.band.basis \in {"catalog", "sold"}
    BY <1>1, BandLow
  <2> QED
    BY <1>5, <1>6, <2>1

\* The part of a market the page of its coin reads has whole cents and days like all of it.
LEMMA ShownRows ==
    ASSUME NEW m \in Markets, NEW n, n = [obs |-> Shown(m), est |-> m.est]
    PROVE  /\ Rows(m) /\ Rows(n) /\ n.obs = Shown(m) /\ n.est = m.est
           /\ Shown(m) \in SUBSET m.obs
           /\ View[m] = Snapshot(n.obs, n.est)
           /\ OnDeals[m] = Deals(m.obs, View[m], Threshold)
<1>1. /\ IsFiniteSet(m.obs) /\ IsFiniteSet(m.est)
      /\ \A o \in m.obs : o.price \in Int /\ o.days \in Int
      /\ \A e \in m.est : e.median \in Int /\ e.p25 \in Int
    BY MarketsAssumption
<1>2. Shown(m) \in SUBSET m.obs
    BY DEF Shown, Readable
<1>3. IsFiniteSet(Shown(m))
    BY <1>1, <1>2, FS_Subset
<1>4. n.obs = Shown(m) /\ n.est = m.est
    OBVIOUS
<1>5. Rows(m) /\ Rows(n)
    BY <1>1, <1>2, <1>3, <1>4 DEF Rows
<1>6. View[m] = Snapshot(n.obs, n.est)
    BY <1>4, Zenon DEF View, MarketForType
<1>7. OnDeals[m] = Deals(m.obs, View[m], Threshold)
    BY Zenon DEF OnDeals
<1> QED
    BY <1>2, <1>4, <1>5, <1>6, <1>7

\* Sales whose titles both read alike are the same sales.
LEMMA SameSales ==
    ASSUME NEW m \in Markets, ReadAlike(m)
    PROVE  Sold(ShownToMovers(m)) = Sold(Shown(m))
    BY DEF ReadAlike, Sold, Usable, ShownToMovers, Shown, Readable

\* The three claims of DealsBacked hold of every market the database may hold.
LEMMA BackedIn ==
    ASSUME market \in Markets
    PROVE  DealsBacked
<1> DEFINE s == View[market]
           n == [obs |-> Shown(market), est |-> market.est]
<1>1. /\ Rows(market) /\ Rows(n) /\ n.obs = Shown(market) /\ n.est = market.est
      /\ Shown(market) \in SUBSET market.obs
      /\ s = Snapshot(n.obs, n.est)
      /\ OnDeals[market] = Deals(market.obs, s, Threshold)
    BY ShownRows
<1> HIDE DEF s, n
<1>2. ASSUME NEW o \in OnDeals[market]
      PROVE  BackedBy(o, s, Shown(market), market.est)
  <2>1. o \in Deals(market.obs, s, Threshold)
    BY <1>1
  <2>2. Rows(n) /\ s = Snapshot(n.obs, n.est)
    BY <1>1
  <2>3. BackedBy(o, s, n.obs, n.est)
    BY ONLY <2>1, <2>2, DealOf, Zenon
  <2> QED
    BY <1>1, <2>3
<1>3. BuyVerdict(s) = "buy_now" => The(Cheapest(s)).price <= SellAdvice(s, "UNC").floor
  <2>1. SellAdvice(s, "UNC").floor = Percent(s.band.low, GradeFactor["UNC"])
    BY DEF SellAdvice
  <2>4. GradeFactor["UNC"] = 100
    BY DEF GradeFactor
  <2>2. s.band.low \in Int
    BY <1>1, BandLow
  <2>3. Percent(s.band.low, 100) = s.band.low
    BY <2>2 DEF Percent
  <2> QED
    BY <2>1, <2>3, <2>4, BuyNow
<1>4. ASSUME NEW u \in Users, Swings(u) # {}, ReadAlike(market)
      PROVE  Moves(market) /\ Snapshot(ShownToMovers(market), {}).trend = s.trend
  <2> DEFINE own == Snapshot(ShownToMovers(market), {})
             k == [obs |-> ShownToMovers(market), est |-> {}]
  <2>1. s.trend # {}
    BY <1>4 DEF Swings, s
  <2>2. s.trend = Trend(Sold(Shown(market)))
    <3>1. s.trend = Trend(Sold(n.obs))
      BY <1>1, Views
    <3> QED
      BY <1>1, <3>1
  <2>3. /\ own.trend = Trend(Sold(ShownToMovers(market)))
        /\ own.realized = RangeIn(Sample(Sold(ShownToMovers(market))))
    <3>1. k.obs = ShownToMovers(market) /\ k.est = {}
      OBVIOUS
    <3> HIDE DEF k
    <3>2. LET t == Snapshot(k.obs, k.est)
          IN  t.trend = Trend(Sold(k.obs)) /\ t.realized = RangeIn(Sample(Sold(k.obs)))
      BY Views
    <3> QED
      BY <3>1, <3>2
  <2> HIDE DEF own, k
  <2>4. own.trend = s.trend /\ own.realized = RangeIn(Sample(Sold(Shown(market))))
    BY <1>4, <2>2, <2>3, SameSales
  <2>5. /\ Cardinality({ o \in Shown(market) : Realized(o) /\ o.days <= 365 }) >= 4
        /\ RangeIn(Sample(Sold(Shown(market)))) # {}
    <3>1. /\ Cardinality({ o \in n.obs : Realized(o) /\ o.days <= 365 }) >= 4
          /\ RangeIn(Sample(Sold(n.obs))) # {}
      BY <1>1, <2>1, <2>2, TrendMoves
    <3> QED
      BY <1>1, <3>1
  <2>6. Cardinality({ o \in market.obs : Realized(o) /\ o.days <= 365 }) >= 4
    <3> DEFINE some == { o \in Shown(market) : Realized(o) /\ o.days <= 365 }
               every == { o \in market.obs : Realized(o) /\ o.days <= 365 }
    <3>1. some \in SUBSET every /\ every \in SUBSET market.obs /\ IsFiniteSet(market.obs)
      BY <1>1 DEF Rows
    <3>2. Cardinality(some) >= 4
      BY <2>5
    <3> HIDE DEF some, every
    <3>3. /\ Cardinality(every) >= Cardinality(some) /\ Cardinality(every) \in Nat
          /\ Cardinality(some) \in Nat
      <4>1. IsFiniteSet(every)
        BY <3>1, FS_Subset
      <4> QED
        BY <3>1, <4>1, FS_Subset, FS_CardinalityType
    <3>4. Cardinality(every) >= 4
      BY <3>2, <3>3
    <3> QED
      BY <3>4 DEF every
  <2>7. Moves(market)
    BY <2>1, <2>4, <2>5, <2>6 DEF Moves, own
  <2> QED
    BY <2>4, <2>7 DEF own
<1> QED
    BY <1>2, <1>3, <1>4 DEF DealsBacked, BackedBy, s

-----------------------------------------------------------------------------
(* The state.                                                               *)

LEMMA NoOneActive ==
    /\ None.state = "none" /\ Deleted.state = "gone" /\ None # Deleted
    /\ Idle.phase = "idle" /\ Idle.alone = TRUE
    BY DEF None, Deleted, Idle

\* The observations announced are of the markets.
LEMMA Announced ==
    ASSUME TypeOK, NEW r \in Runs
    PROVE  ToTell(r) \in SUBSET News
<1>1. run[r].hits \in SUBSET Alerts
    BY DEF TypeOK
<1>2. ASSUME NEW u \in watches PROVE Bargains(u) \in SUBSET News /\ Swings(u) \in SUBSET News
  <2>1. u \in Users /\ month \in 1..Months /\ market \in Markets
    BY <1>2 DEF TypeOK
  <2>2. Swings(u) \in SUBSET News
    BY <2>1 DEF Swings, News
  <2>3. View[market].offers \in SUBSET market.obs
    <3> DEFINE n == [obs |-> Shown(market), est |-> market.est]
    <3>1. /\ n.obs = Shown(market) /\ Shown(market) \in SUBSET market.obs
          /\ View[market] = Snapshot(n.obs, n.est)
      BY <2>1, ShownRows
    <3> HIDE DEF n
    <3>2. View[market].offers = Offers(n.obs)
      BY <3>1, Views
    <3> QED
      BY <3>1, <3>2 DEF Offers, Usable
  <2>4. \A o \in Cheapest(View[market]) : o.id \in Ids
    BY <2>1, <2>3 DEF Cheapest, Ids
  <2>5. Bargains(u) \in SUBSET News
    BY <2>1, <2>4 DEF Bargains, News
  <2> QED
    BY <2>2, <2>5
<1>3. \A a \in run[r].hits : [kind |-> "price_alert", alert |-> a] \in News
    BY <1>1 DEF News
<1> QED
    BY <1>2, <1>3 DEF ToTell

\* The rows a run means to update are there: created before it read them, and held once
\* it has written.
Chosen == \A r \in Runs : \A a \in run[r].hits :
              /\ run[r].phase # "idle" /\ alert[a] # None
              /\ run[r].phase = "noted" => alert[a] # Deleted

Run == [phase : {"idle", "read", "noted"}, hits : SUBSET Alerts,
        news : SUBSET News, alone : BOOLEAN]

\* What a reading run finds, and what the others know of it.
LEMMA ReadStep ==
    ASSUME TypeOK, NEW r \in Runs, Read(r)
    PROVE  /\ UNCHANGED <<market, month, alert, watches, sent>>
           /\ run[r].phase = "idle" /\ run' \in [Runs -> Run]
           /\ run'[r].phase = "read" /\ run'[r].news = {}
           /\ \A a \in run'[r].hits : Active(a)
           /\ run'[r].alone => \A k \in Runs \ {r} : run[k].phase = "idle"
           /\ \A k \in Runs \ {r} :
                 /\ run'[k].phase = run[k].phase
                 /\ run'[k].hits = run[k].hits /\ run'[k].news = run[k].news
                 /\ run'[k].alone => run[k].alone /\ run[k].phase = "idle"
<1>1. /\ UNCHANGED <<market, month, alert, watches, sent>>
      /\ run[r].phase = "idle" /\ run \in [Runs -> Run]
    BY DEF Read, TypeOK, Run
<1>2. PICK e \in (IF Worth[market] = {} THEN {[median |-> 0]} ELSE Worth[market]) :
         run' = [k \in Runs |->
            IF k = r THEN [phase |-> "read", news |-> {}, alone |-> Others(r) = {},
               hits |-> { a \in Alerts : Worth[market] # {} /\ Active(a) /\ Hit(a, e) }]
            ELSE [run[k] EXCEPT !.alone = @ /\ run[k].phase = "idle"]]
    BY DEF Read
<1> DEFINE H == { a \in Alerts : Worth[market] # {} /\ Active(a) /\ Hit(a, e) }
           L == Others(r) = {}
<1>3. /\ H \in SUBSET Alerts /\ L \in BOOLEAN /\ \A a \in H : Active(a)
      /\ L => \A k \in Runs \ {r} : run[k].phase = "idle"
    BY DEF Others
<1>4. run'[r] = [phase |-> "read", news |-> {}, alone |-> L, hits |-> H]
    BY <1>2
<1>5. \A k \in Runs \ {r} : run'[k] = [run[k] EXCEPT !.alone = run[k].alone /\ run[k].phase = "idle"]
    BY <1>2
<1>6. DOMAIN run' = Runs /\ run' = [k \in Runs |-> run'[k]]
    BY <1>2
<1> HIDE DEF H, L
<1>7. run'[r] \in Run
    BY <1>3, <1>4 DEF Run
<1>8. ASSUME NEW k \in Runs \ {r}
      PROVE  /\ run'[k] \in Run
             /\ run'[k].phase = run[k].phase
             /\ run'[k].hits = run[k].hits /\ run'[k].news = run[k].news
             /\ run'[k].alone => run[k].alone /\ run[k].phase = "idle"
  <2>1. run[k] \in Run
    BY <1>1
  <2> QED
    BY <1>5, <2>1 DEF Run
<1>9. run' \in [Runs -> Run]
    BY <1>6, <1>7, <1>8
<1> QED
    BY <1>1, <1>3, <1>4, <1>8, <1>9

\* Who fires.
LEMMA CommitStep ==
    ASSUME TypeOK, Chosen, NEW r \in Runs, Commit(r)
    PROVE  /\ alert' \in [Alerts -> {None, Deleted} \cup
                             [state : {"active", "fired"}, wants : Thresholds]]
           /\ \A a \in Alerts : IF a \in run[r].hits THEN alert'[a].state = "fired"
                                ELSE alert'[a] = alert[a]
<1>1. alert' = [a \in Alerts |-> IF a \in run[r].hits THEN Quiet(a) ELSE alert[a]]
    BY DEF Commit
<1>2. ASSUME NEW a \in Alerts
      PROVE  /\ alert'[a] \in {None, Deleted} \cup
                                 [state : {"active", "fired"}, wants : Thresholds]
             /\ IF a \in run[r].hits THEN alert'[a].state = "fired" ELSE alert'[a] = alert[a]
  <2>1. CASE a \in run[r].hits
    <3>1. alert[a] # None /\ alert[a] # Deleted
      BY <2>1 DEF Chosen, Commit
    <3>2. alert[a] \in [state : {"active", "fired"}, wants : Thresholds]
      BY <3>1 DEF TypeOK
    <3>3. alert'[a] = [alert[a] EXCEPT !.state = "fired"]
      BY <1>1, <2>1 DEF Quiet
    <3> QED
      BY <2>1, <3>2, <3>3
  <2>2. CASE a \notin run[r].hits
    BY <1>1, <2>2 DEF TypeOK
  <2> QED
    BY <2>1, <2>2
<1> QED
    BY <1>1, <1>2

LEMMA ChosenStep ==
    ASSUME TypeOK, Chosen, [Next]_vars
    PROVE  TypeOK' /\ Chosen'
<1> USE DEF TypeOK
<1>0. None # Deleted /\ Idle.hits = {} /\ Idle \in Run
    BY DEF None, Deleted, Idle, Run
<1>1. ASSUME NEW a \in Alerts, NEW t \in Thresholds, Create(a, t) PROVE TypeOK' /\ Chosen'
  <2>1. TypeOK'
    BY <1>1 DEF Create
  <2>2. alert'[a] # None /\ alert'[a] # Deleted /\ \A b \in Alerts \ {a} : alert'[b] = alert[b]
    BY <1>1 DEF Create, None, Deleted
  <2>3. run' = run
    BY <1>1 DEF Create
  <2> QED
    BY <2>1, <2>2, <2>3 DEF Chosen
<1>2. ASSUME NEW a \in Alerts, Delete(a) PROVE TypeOK' /\ Chosen'
  <2>1. /\ alert'[a] = Deleted /\ (\A b \in Alerts \ {a} : alert'[b] = alert[b])
        /\ run' = run /\ ~Held(a)
    BY <1>2 DEF Delete
  <2>2. TypeOK'
    BY <1>2 DEF Delete
  <2> QED
    BY <1>0, <2>1, <2>2 DEF Chosen, Held
<1>3. ASSUME NEW u \in Users, Watch(u) \/ Unwatch(u) PROVE TypeOK' /\ Chosen'
    BY <1>3 DEF Watch, Unwatch, Chosen
<1>4. ASSUME NEW m \in Markets, Drift(m) PROVE TypeOK' /\ Chosen'
    BY <1>4 DEF Drift, Chosen
<1>5. ASSUME NewMonth PROVE TypeOK' /\ Chosen'
    BY <1>5, DeskAssumption DEF NewMonth, Chosen
<1>6. ASSUME NEW r \in Runs, Read(r) PROVE TypeOK' /\ Chosen'
  <2>1. /\ UNCHANGED <<market, month, alert, watches, sent>> /\ run' \in [Runs -> Run]
        /\ run'[r].phase = "read" /\ \A a \in run'[r].hits : Active(a)
        /\ \A k \in Runs \ {r} : run'[k].phase = run[k].phase /\ run'[k].hits = run[k].hits
    BY <1>6, ReadStep
  <2>2. \A a : Active(a) => alert[a] # None /\ alert[a] # Deleted
    BY NoOneActive DEF Active
  <2>3. TypeOK'
    BY <2>1 DEF Run
  <2> QED
    BY <2>1, <2>2, <2>3 DEF Chosen
<1>7. ASSUME NEW r \in Runs, FailRead(r) PROVE TypeOK' /\ Chosen'
  <2>1. /\ run' = [run EXCEPT ![r] = Idle]
        /\ UNCHANGED <<market, month, alert, watches, sent>>
    BY <1>7 DEF FailRead
  <2>2. TypeOK'
    BY <1>0, <2>1 DEF Run
  <2> QED
    BY <1>0, <2>1, <2>2 DEF Chosen
<1>8. ASSUME NEW r \in Runs, Note(r) PROVE TypeOK' /\ Chosen'
  <2>1. /\ run' = [run EXCEPT ![r].phase = "noted", ![r].news = ToTell(r)]
        /\ UNCHANGED <<market, month, alert, watches, sent>> /\ ~Lost(r)
    BY <1>8 DEF Note
  <2>2. ToTell(r) \in SUBSET News
    BY Announced
  <2>3. TypeOK'
    BY <2>1, <2>2, ZenonT(60)
  <2>4. \A k \in Runs : run'[k].hits = run[k].hits /\ (k # r => run'[k] = run[k])
    BY <2>1
  <2> QED
    BY <2>1, <2>3, <2>4 DEF Chosen, Lost
<1>9. ASSUME NEW r \in Runs, Commit(r) PROVE TypeOK' /\ Chosen'
  <2>1. /\ alert' \in [Alerts -> {None, Deleted} \cup
                          [state : {"active", "fired"}, wants : Thresholds]]
        /\ \A a \in Alerts : IF a \in run[r].hits THEN alert'[a].state = "fired"
                             ELSE alert'[a] = alert[a]
    BY <1>9, CommitStep
  <2>2. /\ run' = [run EXCEPT ![r] = Idle] /\ UNCHANGED <<market, month, watches>>
        /\ sent' \in [News -> Nat]
    BY <1>9 DEF Commit
  <2>3. TypeOK'
    BY <1>0, <2>1, <2>2 DEF Run
  <2>4. \A a \in Alerts : alert'[a].state = "fired" => alert'[a] # None /\ alert'[a] # Deleted
    BY NoOneActive
  <2>5. \A k \in Runs : run'[k].hits = {} \/ run'[k] = run[k]
    BY <1>0, <2>2
  <2> QED
    BY <2>1, <2>3, <2>4, <2>5, ZenonT(80) DEF Chosen
<1>10. CASE UNCHANGED vars
    BY <1>10 DEF vars, Chosen
<1> QED
    BY <1>1, <1>2, <1>3, <1>4, <1>5, <1>6, <1>7, <1>8, <1>9, <1>10 DEF Next, RunStep

\* Facts a step keeps that make an undisturbed run repeat nothing: it is the only one, its
\* alerts are still waiting, a notified alert is not, and what it tells is new.
Alone == \A r \in Runs : run[r].alone /\ run[r].phase # "idle" =>
            \A k \in Runs \ {r} : run[k].phase = "idle"
Fired == \A a \in Alerts : sent[[kind |-> "price_alert", alert |-> a]] > 0 =>
            alert[a].state \in {"fired", "gone"}
Waiting == \A r \in Runs : run[r].alone => \A a \in run[r].hits :
              Active(a) \/ (run[r].phase = "read" /\ alert[a] = Deleted)
Unsaid == \A r \in Runs : run[r].alone /\ run[r].phase = "noted" =>
             \A n \in run[r].news : sent[n] = 0
Named == \A r \in Runs : \A a \in Alerts :
            [kind |-> "price_alert", alert |-> a] \in run[r].news => a \in run[r].hits
ToldInv == Alone /\ Fired /\ Waiting /\ Unsaid /\ Named

\* Only an alert's row decides whether it waits.
LEMMA SameAlert ==
    ASSUME NEW a, alert'[a] = alert[a]
    PROVE  Active(a)' <=> Active(a)
    BY DEF Active

\* A step that leaves the runs and the notifications alone, and no alert worse than it
\* was unless it deletes one that no run holds.
LEMMA UserStep ==
    ASSUME TypeOK, Chosen, ToldInv, run' = run, sent' = sent,
           \A a \in Alerts : \/ alert'[a] = alert[a]
                             \/ alert[a] = None
                             \/ alert'[a] = Deleted /\ ~Held(a)
    PROVE  ToldInv'
<1>1. Alone'
    BY DEF Alone, ToldInv
<1>2. Fired'
  <2> SUFFICES ASSUME NEW a \in Alerts, sent'[[kind |-> "price_alert", alert |-> a]] > 0
               PROVE  alert'[a].state \in {"fired", "gone"}
    BY DEF Fired
  <2>1. alert[a].state \in {"fired", "gone"}
    BY DEF Fired, ToldInv
  <2> QED
    BY <2>1, NoOneActive
<1>3. Waiting'
  <2> SUFFICES ASSUME NEW r \in Runs, run[r].alone, NEW a \in run[r].hits
               PROVE  Active(a)' \/ (run[r].phase = "read" /\ alert'[a] = Deleted)
    BY DEF Waiting
  <2>1. /\ Active(a) \/ (run[r].phase = "read" /\ alert[a] = Deleted)
        /\ alert[a] # None /\ a \in Alerts
    BY DEF Waiting, ToldInv, Chosen, TypeOK
  <2>2. CASE alert'[a] = alert[a]
    BY <2>1, <2>2, SameAlert
  <2>3. CASE alert'[a] = Deleted /\ ~Held(a)
    <3>1. run[r].phase # "noted" /\ run[r].phase \in {"idle", "read", "noted"}
      BY <2>3 DEF Held, TypeOK
    <3>2. run[r].phase # "idle"
      BY DEF Chosen
    <3> QED
      BY <2>3, <3>1, <3>2
  <2> QED
    BY <2>1, <2>2, <2>3
<1>4. Unsaid' /\ Named'
    BY DEF Unsaid, Named, ToldInv
<1> QED
    BY <1>1, <1>2, <1>3, <1>4 DEF ToldInv

\* An alert's announcement comes from its hit.
LEMMA ToTellAlerts ==
    ASSUME NEW r, NEW n \in ToTell(r)
    PROVE  \/ \E a \in run[r].hits : n = [kind |-> "price_alert", alert |-> a]
           \/ Fresh(n) /\ n.kind # "price_alert"
<1>1. \A u : \A x \in Bargains(u) \cup Swings(u) : x.kind # "price_alert"
    BY DEF Bargains, Swings
<1> QED
    BY <1>1 DEF ToTell

LEMMA ToldStep ==
    ASSUME TypeOK, Chosen, Chosen', ToldInv, [Next]_vars
    PROVE  ToldInv'
<1> USE DEF ToldInv
<1>0. /\ Idle.phase = "idle" /\ Idle.hits = {} /\ Idle.news = {}
      /\ run \in [Runs -> Run] /\ sent \in [News -> Nat]
      /\ \A a \in Alerts : [kind |-> "price_alert", alert |-> a] \in News
    BY DEF Idle, TypeOK, Run, News
<1>1. ASSUME NEW a \in Alerts, NEW t \in Thresholds, Create(a, t) PROVE ToldInv'
  <2>1. /\ run' = run /\ sent' = sent /\ alert[a] = None
        /\ \A b \in Alerts \ {a} : alert'[b] = alert[b]
    BY <1>1 DEF Create, TypeOK
  <2> QED
    BY <2>1, UserStep
<1>2. ASSUME NEW a \in Alerts, Delete(a) PROVE ToldInv'
  <2>1. /\ run' = run /\ sent' = sent /\ alert'[a] = Deleted /\ ~Held(a)
        /\ \A b \in Alerts \ {a} : alert'[b] = alert[b]
    BY <1>2 DEF Delete, TypeOK
  <2> QED
    BY <2>1, UserStep
<1>3. ASSUME NEW u \in Users, Watch(u) \/ Unwatch(u) PROVE ToldInv'
    BY <1>3, UserStep DEF Watch, Unwatch
<1>4. ASSUME NEW m \in Markets, Drift(m) PROVE ToldInv'
    BY <1>4, UserStep DEF Drift
<1>5. ASSUME NewMonth PROVE ToldInv'
    BY <1>5, UserStep DEF NewMonth
<1>6. ASSUME NEW r \in Runs, Read(r) PROVE ToldInv'
  <2>1. /\ UNCHANGED <<alert, sent>>
        /\ run[r].phase = "idle"
        /\ run'[r].phase = "read" /\ run'[r].news = {}
        /\ \A a \in run'[r].hits : Active(a)
        /\ run'[r].alone => \A k \in Runs \ {r} : run[k].phase = "idle"
        /\ \A k \in Runs \ {r} :
              /\ run'[k].phase = run[k].phase
              /\ run'[k].hits = run[k].hits /\ run'[k].news = run[k].news
              /\ run'[k].alone => run[k].alone /\ run[k].phase = "idle"
    BY <1>6, ReadStep
  <2>2. \A a : Active(a)' <=> Active(a)
    BY <2>1 DEF Active
  <2>3. Alone'
    BY <2>1 DEF Alone
  <2>4. Waiting'
    BY <2>1, <2>2 DEF Waiting, Chosen
  <2>5. Fired' /\ Unsaid' /\ Named'
    BY <2>1 DEF Fired, Unsaid, Named
  <2> QED
    BY <2>3, <2>4, <2>5
<1>7. ASSUME NEW r \in Runs, FailRead(r) PROVE ToldInv'
  <2>1. /\ run'[r] = Idle /\ \A k \in Runs \ {r} : run'[k] = run[k]
        /\ UNCHANGED <<alert, sent>>
    BY <1>0, <1>7 DEF FailRead
  <2>2. \A a : Active(a)' <=> Active(a)
    BY <2>1 DEF Active
  <2>3. Alone' /\ Fired'
    BY <1>0, <2>1 DEF Alone, Fired
  <2>4. Waiting'
    BY <1>0, <2>1, <2>2 DEF Waiting
  <2>5. Unsaid' /\ Named'
    BY <1>0, <2>1 DEF Unsaid, Named
  <2> QED
    BY <2>3, <2>4, <2>5
<1>8. ASSUME NEW r \in Runs, Note(r) PROVE ToldInv'
  <2>1. /\ run[r].phase = "read" /\ ~Lost(r) /\ UNCHANGED <<alert, sent>>
        /\ run'[r].phase = "noted" /\ run'[r].news = ToTell(r)
        /\ run'[r].hits = run[r].hits /\ run'[r].alone = run[r].alone
        /\ \A k \in Runs \ {r} : run'[k] = run[k]
    BY <1>0, <1>8 DEF Note, Run
  <2>2. \A a : Active(a)' <=> Active(a)
    BY <2>1 DEF Active
  <2>3. Alone' /\ Fired'
    BY <2>1 DEF Alone, Fired
  <2>4. Waiting'
    BY <2>1, <2>2 DEF Waiting, Lost
  <2>5. ASSUME run[r].alone, NEW n \in ToTell(r) PROVE sent[n] = 0
    <3>1. CASE Fresh(n)
      BY <3>1 DEF Fresh
    <3>2. ASSUME NEW a \in run[r].hits, n = [kind |-> "price_alert", alert |-> a]
          PROVE  sent[n] = 0
      <4>1. a \in Alerts /\ Active(a)
        BY <1>0, <2>1, <2>5 DEF Waiting, Lost, Run
      <4>2. ~(sent[n] > 0)
        BY <3>2, <4>1 DEF Fired, Active
      <4> QED
        BY <1>0, <3>2, <4>1, <4>2
    <3> QED
      BY <3>1, <3>2, ToTellAlerts
  <2>6. Unsaid'
    BY <2>1, <2>5 DEF Unsaid
  <2>7. ASSUME NEW a \in Alerts, [kind |-> "price_alert", alert |-> a] \in ToTell(r)
        PROVE  a \in run[r].hits
    <3> DEFINE n == [kind |-> "price_alert", alert |-> a]
    <3>1. n.kind = "price_alert" /\ n.alert = a
      OBVIOUS
    <3>2. PICK b \in run[r].hits : n = [kind |-> "price_alert", alert |-> b]
      BY <2>7, <3>1, ToTellAlerts
    <3> QED
      BY <3>1, <3>2
  <2>8. Named'
    BY <2>1, <2>7 DEF Named
  <2> QED
    BY <2>3, <2>4, <2>6, <2>8
<1>9. ASSUME NEW r \in Runs, Commit(r) PROVE ToldInv'
  <2>1. /\ run[r].phase = "noted" /\ run'[r] = Idle
        /\ \A k \in Runs \ {r} : run'[k] = run[k]
        /\ \A n \in News : sent'[n] = IF n \in run[r].news THEN sent[n] + 1 ELSE sent[n]
    BY <1>0, <1>9 DEF Commit
  <2>2. \A a \in Alerts : IF a \in run[r].hits THEN alert'[a].state = "fired"
                          ELSE alert'[a] = alert[a]
    BY <1>9, CommitStep
  <2>3. \A k \in Runs \ {r} : run[k].alone => run[k].phase = "idle"
    BY <2>1 DEF Alone
  <2>4. Alone' /\ Unsaid' /\ Named'
    BY <1>0, <2>1, <2>3 DEF Alone, Unsaid, Named
  <2>5. Waiting'
    BY <1>0, <2>1, <2>3 DEF Waiting, Chosen
  <2>6. Fired'
    BY <1>0, <2>1, <2>2 DEF Fired, Named
  <2> QED
    BY <2>4, <2>5, <2>6
<1>10. CASE UNCHANGED vars
    BY <1>10, UserStep DEF vars
<1> QED
    BY <1>1, <1>2, <1>3, <1>4, <1>5, <1>6, <1>7, <1>8, <1>9, <1>10 DEF Next, RunStep

LEMMA ChosenInit == Init => TypeOK /\ Chosen
    BY DeskAssumption DEF Init, TypeOK, Idle, None, Chosen

\* The rows are of their types, and a run updates only rows that are there.
THEOREM Types == Spec => [](TypeOK /\ Chosen)
    BY ChosenInit, ChosenStep, PTL DEF Spec

\* The deals of the assistant have a real reference, and its pages agree.
THEOREM Backed == Spec => []DealsBacked
<1>1. TypeOK => DealsBacked
    BY BackedIn DEF TypeOK
<1> QED
    BY <1>1, Types, PTL

\* A run that no other overlapped repeats no announcement.
THEOREM Told == Spec => ToldOnce
<1> DEFINE Once == \A r \in Runs : Commit(r) /\ run[r].alone => \A n \in run[r].news : sent[n] = 0
<1>1. Init => ToldInv
  <2>1. ASSUME Init PROVE ToldInv
    <3>1. \A r \in Runs : run[r].phase = "idle" /\ run[r].hits = {} /\ run[r].news = {}
      BY <2>1 DEF Init, Idle
    <3>2. \A a \in Alerts : sent[[kind |-> "price_alert", alert |-> a]] = 0
      BY <2>1 DEF Init, News
    <3> QED
      BY <3>1, <3>2 DEF ToldInv, Alone, Fired, Waiting, Unsaid, Named
  <2> QED
    BY <2>1
<1>2. TypeOK /\ Chosen /\ Chosen' /\ ToldInv /\ [Next]_vars => ToldInv'
    BY ToldStep
<1>3. Unsaid => Once
    BY DEF Unsaid, Commit
<1>4. ToldInv => Unsaid
    BY DEF ToldInv
<1>5. Spec => []ToldInv
  <2>1. TypeOK /\ Chosen /\ (TypeOK /\ Chosen)' /\ ToldInv /\ [Next]_vars => ToldInv'
    BY <1>2
  <2> QED
    BY <1>1, <2>1, Types, PTL DEF Spec
<1>6. Spec => [][Once]_vars
  <2>1. ToldInv /\ [Next]_vars => [Once]_vars
    BY <1>3, <1>4
  <2> QED
    BY <1>5, <2>1, PTL DEF Spec
<1> QED
    BY <1>6 DEF ToldOnce
=================================================================================
