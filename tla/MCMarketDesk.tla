------------------------------ MODULE MCMarketDesk ------------------------------
\* MarketDesk on a small instance: two shop pages, up to nine sales, six markets, one of a
\* coloured type.
EXTENDS MarketDesk

CONSTANTS near, far, ebay, web

Sale(i, price, days) ==
    [id |-> ebay, n |-> i, kind |-> "SOLD", price |-> price, days |-> days,
     market |-> ebay, title |-> "plain", match |-> 100]
Shop(id, price, days, title) ==
    [id |-> id, n |-> 0, kind |-> "ASKING", price |-> price, days |-> days,
     market |-> web, title |-> title, match |-> 90]
Row(grade, basis, median, n) ==
    [grade |-> grade, basis |-> basis, median |-> median, p25 |-> median - 100,
     p75 |-> median + 100, n |-> n]

Altered(o) == [o EXCEPT !.title = "altered"]
Catalog == Row("UNC", "catalog", 500, 1)
Recent == {Sale(1, 300, 10), Sale(2, 420, 20), Sale(3, 500, 30), Sale(4, 520, 80), Sale(5, 190, 5), Sale(10, 250, 60)}
Earlier == {Sale(6, 260, 100), Sale(7, 300, 200), Sale(8, 310, 300)}

MCMarkets ==
    { [coloured |-> FALSE,
       obs |-> {Shop(near, 200, 3, "plain")}, est |-> {}],
      [coloured |-> FALSE,
       obs |-> {Shop(near, 260, 3, "plain"), Shop(far, 150, 3, "replica")},
       est |-> {Catalog, Row("UNKNOWN", "mintage_model", 400, 0)}],
      [coloured |-> FALSE,
       obs |-> Recent \cup Earlier \cup {Shop(near, 410, 3, "plain"), Shop(far, 280, 399, "plain")},
       est |-> {Row("CIRCULATED", "sold", 460, 4), Catalog}],
      [coloured |-> FALSE,
       obs |-> Recent \cup {Sale(9, 310, 40), Shop(near, 290, 3, "plain")},
       est |-> {Row("UNC", "sold", 400, 5), Catalog}],
      [coloured |-> TRUE,
       obs |-> {Altered(o) : o \in Earlier} \cup
                 {Sale(1, 300, 10), Sale(4, 520, 80),
                  Shop(near, 262, 60, "plain"), Shop(far, 240, 2, "misdated")},
       est |-> {Row("UNC", "asking_only", 480, 3), Row("BU", "sold", 900, 3)}],
      [coloured |-> FALSE,
       obs |-> {Shop(near, 400, 3, "plain"), Shop(far, 300, 2, "plain")},
       est |-> {Row("CIRCULATED", "asking_only", 350, 3)}] }

MCThresholds == {[direction |-> "above", threshold |-> 500], [direction |-> "below", threshold |-> 400]}
=================================================================================
