------------------------------- MODULE MCVariants -------------------------------
\* Variants on a small instance: Numista knows two issues of one variant (the plain one,
\* which the placeholder stands for) and one of another.
EXTENDS Variants, Linking

CONSTANTS plain, proof, n1, n2, n3

Symmetry == Permutations(Observations)
MCPlaceholders == <<plain>>
MCVariantOf == [n \in {n1, n2, n3} |-> IF n = n2 THEN proof ELSE plain]
MCAnswers == << <<>>, <<n2>>, <<n1, n3>>, <<n1, n2>> >>

\* Two coins of one year, their listings, one of them a classic version, a stray and an edition.
CONSTANTS coin1, coin2, list1, list2
MCTruth == (coin1 :> list1) @@ (coin2 :> list2)
\* Below, between and above the thresholds, by topic or by title; extra words of a classic
\* version can make its title agree less.
MCLevels ==
    { [coming |-> l[1], base |-> l[2]] :
        l \in {<<20, 20>>, <<90, 20>>, <<30, 30>>, <<50, 50>>, <<80, 50>>, <<60, 80>>, <<90, 80>>} }

\* Either moves while the other has not begun.
MCInit == Init /\ LinkInit
MCNext ==
    \/ Next /\ LinkInit /\ UNCHANGED titles
    \/ Init /\ LinkNext /\ UNCHANGED vars
MCSpec == MCInit /\ [][MCNext]_<<vars, titles>>
=================================================================================
