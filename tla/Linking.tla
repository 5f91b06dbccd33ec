--------------------------------- MODULE Linking ---------------------------------
(***************************************************************************)
(* Which Numista type is which coin of the ECB, within one country and     *)
(* year:                                                                   *)
(*   sources/linker.py            how well two titles agree                *)
(*   catalog/ingest_numista.py    a link when Numista's type comes in      *)
(*   catalog/reconcile.py         links by elimination, afterwards         *)
(*   catalog/editions.py          the coin an edition is of                *)
(* What Variants takes as given: the type Numista's issues go to and the   *)
(* pair that is merged.                                                    *)
(*                                                                         *)
(* Titles are given by their scores (link_score), of which each listing    *)
(* has two with every coin: that of its full title or the commemorated     *)
(* topic, the better one, when it comes in, and that of its base title     *)
(* alone ever after.  Rows come in no order the queries ask for: where the *)
(* code takes the first of equals, any may be, and the operators return    *)
(* the set of possible results.                                            *)
(***************************************************************************)
EXTENDS Naturals, FiniteSets, SequencesExt

CONSTANTS
    Coins,              \* ECB types of the country and year
    Listings,           \* Numista's commemorative types of the country and year
    Editions,           \* those whose title says coloured or hologram (variant_kind)
    Classics,           \* others whose title says "- classic version" (is_special_edition)
    LinkThreshold,      \* linker.LINK_THRESHOLD
    PairThreshold,      \* reconcile.PAIR_THRESHOLD
    LeftoverThreshold,  \* reconcile.LEFTOVER_THRESHOLD
    DuplicateThreshold, \* editions.DUPLICATE_THRESHOLD
    Truth,              \* reference: the listing of each coin
    Levels,             \* what a listing may score with a coin: [coming, base] (bound)
    NoCoin, NoTitles

ASSUME LinkingAssumption ==
    /\ Editions \subseteq Listings /\ Classics \subseteq Listings \ Editions
    /\ IsFiniteSet(Coins) /\ IsFiniteSet(Listings)
    /\ {LinkThreshold, PairThreshold, LeftoverThreshold, DuplicateThreshold} \subseteq 1..100
    /\ LeftoverThreshold <= PairThreshold /\ PairThreshold <= LinkThreshold
    /\ PairThreshold <= DuplicateThreshold
    /\ NoCoin \notin Coins /\ Levels \subseteq [coming : 0..100, base : 0..100]
    /\ Truth \in [Coins -> Listings \ Editions]
    /\ \A c, d \in Coins : c # d => Truth[c] # Truth[d]

VARIABLE titles    \* the scores of the group, NoTitles before the sources gave its titles

Pairs == Coins \X Listings

\* What is linked so far: pairs that are one type now.
CoinsOf(links) == { p[1] : p \in links }
ListingsOf(links) == { p[2] : p \in links }

\* The best of the candidates, if it reaches the threshold; a score of nothing is none.
BestOf(score, candidates, n, threshold) ==
    LET good == { c \in candidates : score[c, n] > 0 /\ score[c, n] >= threshold }
        best == { c \in good : \A d \in candidates : score[d, n] <= score[c, n] }
    IN  IF good = {} THEN {NoCoin} ELSE best

-----------------------------------------------------------------------------
(* Ingestion, by the full title or the topic.                               *)

\* _link_to_ecb looks among the coins Numista has not taken yet.
Open(coins, links) == coins \ CoinsOf(links)

\* _attach_or_create: a plain commemorative is linked if it can be, an edition never.
Ingested(score, coins, links, n) ==
    IF n \in Editions THEN {links}
    ELSE { IF c = NoCoin THEN links ELSE links \cup {<<c, n>>} :
             c \in BestOf(score, Open(coins, links), n, LinkThreshold) }

\* Numista's types come in an order of their own.
IngestedAll(score, coins, order) ==
    LET A[i \in 0..Len(order)] ==
            IF i = 0 THEN {{}}
            ELSE UNION { Ingested(score, coins, links, order[i]) : links \in A[i - 1] }
    IN  A[Len(order)]

-----------------------------------------------------------------------------
(* link_by_elimination, by the base title.                                  *)

\* The two sides of the group: coins and listings that are not linked.
LeftCoins(coins, links) == coins \ CoinsOf(links)
LeftListings(listings, links) == (listings \ Editions) \ ListingsOf(links)

\* Mutant of Clash: only the listing of a pair is taken.
ClashOfListings(p, q) == p[2] = q[2]
\* Two pairs that cannot both be.
Clash(p, q) == p[1] = q[1] \/ p[2] = q[2]

\* _pair_by_similarity: the best pairs first, each coin and each listing once.
PairBySimilarity(score, coins, listings) ==
    LET all  == { p \in coins \X listings : score[p] >= PairThreshold }
        F[done \in SUBSET all] ==
            LET free == { p \in all : \A q \in done : ~Clash(p, q) /\ p # q }
                best == { p \in free : \A q \in free : score[q] <= score[p] }
            IN  IF free = {} THEN {done} ELSE UNION { F[done \cup {p}] : p \in best }
    IN  F[{}]

\* A lone leftover on each side is the same coin; out of a bigger group it must look related.
Lone(score, p, crowded) ==
    IF ~crowded \/ score[p] >= LeftoverThreshold THEN {{p}} ELSE {{}}

\* _link_pass over the group: the sets of pairs it may merge, and whether it was crowded.
LinkPass(score, coins, listings, g) ==
    LET es == LeftCoins(coins, g.links)
        ns == LeftListings(listings, g.links)
        lone == Cardinality(es) = 1 /\ Cardinality(ns) = 1
        merged == IF es = {} \/ ns = {} THEN {{}}
                  ELSE IF lone THEN Lone(score, CHOOSE p \in es \X ns : TRUE, g.crowded)
                  ELSE PairBySimilarity(score, es, ns)
    IN  { [links |-> g.links \cup m,
           crowded |-> g.crowded \/ (es # {} /\ ns # {} /\ ~lone)] : m \in merged }

\* Passes until one merges nothing; "crowded" is forgotten between calls.
Eliminated(score, coins, listings, links) ==
    LET P[g \in [links : SUBSET (coins \X listings), crowded : BOOLEAN]] ==
            LET next == LinkPass(score, coins, listings, g)
            IN  UNION { IF h.links = g.links THEN {h.links} ELSE P[h] : h \in next }
    IN  P[[links |-> links, crowded |-> FALSE]]

-----------------------------------------------------------------------------
(* Editions and second listings, by the base title.                         *)

\* link_editions_to_base, for a listing that is not linked; linked coins count as well.
\* _find_base_type does the same for an error, with LinkThreshold, among all types and by the
\* full title or the topic.
BaseOf(score, coins, n) ==
    BestOf(score, coins, n,
           IF n \in Editions \cup Classics THEN PairThreshold ELSE DuplicateThreshold)

-----------------------------------------------------------------------------
(* The group.                                                               *)

\* An edition agrees with every coin as well as a title can.  The base title of a listing is its
\* title unless it is a classic version, and a topic can only add to what that scores.
Agreement(plain, classic) ==
    [p \in Pairs |-> IF p \in DOMAIN plain THEN plain[p]
                     ELSE IF p \in DOMAIN classic THEN classic[p]
                     ELSE [coming |-> LinkThreshold, base |-> LinkThreshold]]
Agreements ==
    LET ordinary  == Coins \X ((Listings \ Editions) \ Classics)
        ofPlain   == [ordinary -> { l \in Levels : l.coming >= l.base }]
        ofClassic == [Coins \X Classics -> Levels]
    IN  { Agreement(x[1], x[2]) : x \in ofPlain \X ofClassic }
Groups ==
    { [coming |-> [p \in Pairs |-> a[p].coming], base |-> [p \in Pairs |-> a[p].base]] :
        a \in Agreements }

LinkInit == titles = NoTitles
\* One group after the other.
LinkNext ==
    \/ titles = NoTitles /\ titles' \in Groups
    \/ titles # NoTitles /\ titles' = NoTitles
LinkSpec == LinkInit /\ [][LinkNext]_titles

-----------------------------------------------------------------------------
(* Properties.                                                              *)

\* A listing that is no coin's.
Stray(n) == n \in Listings \ Editions /\ \A c \in Coins : n # Truth[c]

\* The titles bear the truth out.  When it comes in, a listing agrees best with its coin, and
\* one without a coin with none well enough to be linked: before the coin's own listing is
\* there, the coin would be taken ...
TellsComing(score) ==
    \A c \in Coins :
       /\ \A d \in Coins \ {c} : score[c, Truth[c]] > score[d, Truth[c]]
       /\ \A n \in Listings : Stray(n) => score[c, n] < LinkThreshold
\* ... and among what is left over, a coin agrees best with its listing.
TellsLeft(score) ==
    \A c \in Coins : \A n \in (Listings \ Editions) \ {Truth[c]} :
       score[c, Truth[c]] > score[c, n]
Telling(t) == TellsComing(t.coming) /\ TellsLeft(t.base)

\* What becomes of the group once both sources are complete.
Settled(t, order) ==
    UNION { Eliminated(t.base, Coins, Listings, links) :
              links \in IngestedAll(t.coming, Coins, order) }

\* The listing of a coin agrees well enough to be linked with it, sooner or later.
Agrees(t, c) == t.coming[c, Truth[c]] >= LinkThreshold \/ t.base[c, Truth[c]] >= PairThreshold

\* A coin is taken for another, one whose listing agrees with it is not linked, or a listing
\* left over becomes a second one of a coin that has no first.
Mistaken(t, links) ==
    \E c \in Coins, n \in Listings :
       \/ <<c, n>> \in links /\ n # Truth[c]
       \/ n = Truth[c] /\ Agrees(t, c) /\ <<c, n>> \notin links
       \/ /\ n \in LeftListings(Listings, links) /\ c \in BaseOf(t.base, Coins, n)
          /\ c \in LeftCoins(Coins, links)

\* Where titles tell, every coin gets its listing and no other, in whatever order Numista's types
\* come in and rows are read, and whatever listings without a coin are about; those become
\* second listings of linked coins only.  (While a source is incomplete it is different: a coin
\* and a listing left over alone are merged however little they agree.)
TitlesDecide ==
    titles # NoTitles /\ Telling(titles) =>
       \A order \in SetToSeqs(Listings) : \A links \in Settled(titles, order) :
          ~Mistaken(titles, links)
================================================================================
