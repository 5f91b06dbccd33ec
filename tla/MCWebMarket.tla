------------------------------ MODULE MCWebMarket ------------------------------
\* WebMarket on a small instance: a watched coin and another, two hosts, one visitor.
EXTENDS WebMarket

CONSTANTS c1, c2, h1, h2

MCByYear == <<c2, c1>>
MCSells == {c1} \X {h1} \X {"ASKING", "SOLD"} \cup {<<c1, h2, "refused">>, <<c2, h2, "ASKING">>}
================================================================================
