-------------------------- MODULE MarketDataProofs --------------------------
(***************************************************************************)
(* Market data, for any observations, auctions, hosts, runs and thresholds: *)
(* what the prices of PriceEstimates rest on, what EbayAuctions and         *)
(* EbayBudget do with eBay, and the sessions of WebMarket.                  *)
(***************************************************************************)
EXTENDS PriceEstimates, Scarcity, EbayAuctions, EbayBudget, WebMarket,
        FiniteSetTheorems, WellFoundedInduction, TLAPS

-----------------------------------------------------------------------------
(* Estimates.                                                               *)

\* _pick_window leaves observations out, and none of the last 90 days.
LEMMA WindowPart ==
    ASSUME NEW obs
    PROVE  /\ Window(obs) \subseteq obs
           /\ {o \in obs : age[o] = "fresh"} \subseteq Window(obs)
  BY DEF Window

\* A window that is too small for an estimate is the whole year: the 90 days are preferred
\* only when they hold more than an estimate needs.
LEMMA WindowWhole ==
    ASSUME NEW obs, IsFiniteSet(obs), Cardinality(Window(obs)) < MinSample
    PROVE  Window(obs) = obs
  <1> DEFINE young == {o \in obs : age[o] = "fresh"}
  <1>1. IsFiniteSet(young)
    BY FS_Subset
  <1>2. Cardinality(young) \in Nat
    BY <1>1, FS_CardinalityType
  <1>3. MinSample \in Nat /\ WidenBelow \in Nat /\ MinSample <= WidenBelow
    BY PricesAssumption
  <1>4. ~(Cardinality(young) >= WidenBelow)
    <2>1. SUFFICES ASSUME Cardinality(young) >= WidenBelow PROVE FALSE
      OBVIOUS
    <2>2. Window(obs) = young
      BY <2>1 DEF Window
    <2>3. Cardinality(young) < MinSample
      BY <2>2
    <2> HIDE DEF young
    <2> QED BY <1>2, <1>3, <2>1, <2>3
  <1> QED BY <1>4 DEF Window

SalesOf(g) == {o \in Sales : Valid(o, g)}
AsksOf(g) == {o \in Asks : Valid(o, g)}

\* The three outcomes of an estimate.
LEMMA Outcomes ==
    ASSUME NEW g \in Grades
    PROVE  \/ /\ Cardinality(Window(SalesOf(g))) >= MinSample
              /\ Estimate(g) = [basis |-> "sold", sample |-> Window(SalesOf(g))]
           \/ /\ ~(Cardinality(Window(SalesOf(g))) >= MinSample)
              /\ Cardinality(Window(AsksOf(g))) >= MinSample
              /\ Estimate(g) = [basis |-> "asking_only", sample |-> Window(AsksOf(g))]
           \/ Estimate(g) = NoEstimate
  BY DEF Estimate, SalesOf, AsksOf

\* An estimate is a row of the table.
LEMMA EstimateTyped ==
    ASSUME NEW g \in Grades
    PROVE  Estimate(g) \in [basis : {"none", "sold", "asking_only"},
                            sample : SUBSET Observations]
  <1>1. Window(SalesOf(g)) \subseteq Observations /\ Window(AsksOf(g)) \subseteq Observations
    BY WindowPart DEF Observations, SalesOf, AsksOf
  <1> QED BY <1>1, Outcomes DEF NoEstimate

\* What an estimate says of its sample: it is large enough, of one kind, of the grade and
\* of the year, and asks are used only where the year's sales are too few.
LEMMA EstimateEvidence ==
    ASSUME NEW g \in Grades, Estimate(g) # NoEstimate
    PROVE  /\ Cardinality(Estimate(g).sample) >= MinSample
           /\ \A o \in Estimate(g).sample : Valid(o, g)
           /\ Estimate(g).basis = "sold" =>
                  /\ Estimate(g).sample \subseteq Sales
                  /\ {o \in SalesOf(g) : age[o] = "fresh"} \subseteq Estimate(g).sample
           /\ Estimate(g).basis = "asking_only" =>
                  /\ Estimate(g).sample \subseteq Asks
                  /\ Cardinality(SalesOf(g)) < MinSample
  <1>1. /\ Window(SalesOf(g)) \subseteq SalesOf(g)
        /\ {o \in SalesOf(g) : age[o] = "fresh"} \subseteq Window(SalesOf(g))
        /\ Window(AsksOf(g)) \subseteq AsksOf(g)
    BY WindowPart
  <1>2. CASE /\ Cardinality(Window(SalesOf(g))) >= MinSample
             /\ Estimate(g) = [basis |-> "sold", sample |-> Window(SalesOf(g))]
    BY <1>1, <1>2 DEF SalesOf
  <1>3. CASE /\ ~(Cardinality(Window(SalesOf(g))) >= MinSample)
             /\ Cardinality(Window(AsksOf(g))) >= MinSample
             /\ Estimate(g) = [basis |-> "asking_only", sample |-> Window(AsksOf(g))]
    <2>1. IsFiniteSet(SalesOf(g))
      BY PricesAssumption, FS_Subset DEF SalesOf
    <2>2. IsFiniteSet(Window(SalesOf(g)))
      BY <1>1, <2>1, FS_Subset
    <2>3. Cardinality(Window(SalesOf(g))) \in Nat /\ MinSample \in Nat
      BY <2>2, FS_CardinalityType, PricesAssumption
    <2>4. Cardinality(Window(SalesOf(g))) < MinSample
      BY <1>3, <2>3
    <2>5. Window(SalesOf(g)) = SalesOf(g)
      BY <2>1, <2>4, WindowWhole
    <2> QED BY <1>1, <1>3, <2>4, <2>5 DEF AsksOf
  <1> QED BY <1>2, <1>3, Outcomes

-----------------------------------------------------------------------------
(* The theorems.                                                            *)

\* Every reachable state is well typed.
THEOREM PricesTyped == Spec => []TypeOK
  <1>1. Init => TypeOK
    <2> SUFFICES ASSUME Init PROVE TypeOK
      OBVIOUS
    <2>1. AnyGrade \in Grades
      BY PricesAssumption DEF AnyGrade
    <2>2. age \in [Observations -> Ages] /\ grade \in [Observations -> Grades]
      BY <2>1 DEF Init, Ages
    <2>3. est \in [Grades -> [basis : {"none", "sold", "asking_only"},
                             sample : SUBSET Observations]]
      BY DEF Init, NoEstimate
    <2>4. /\ catalog \in BOOLEAN /\ model \in BOOLEAN /\ counted \in BOOLEAN
          /\ held \in BOOLEAN /\ offer \in {"better", "band", "none"}
      BY DEF Init
    <2>5. /\ job \in {"idle", "listed", "priced", "held", "weighed"}
          /\ faults \in 0..MaxFaults /\ outlived \in 0..2
      BY PricesAssumption DEF Init
    <2> QED BY <2>2, <2>3, <2>4, <2>5 DEF TypeOK
  <1>2. TypeOK /\ [Next]_vars => TypeOK'
    <2> SUFFICES ASSUME TypeOK, [Next]_vars PROVE TypeOK'
      OBVIOUS
    <2> USE DEF TypeOK
    <2>1. ASSUME NEW o \in Observations, NEW g \in Grades, NEW a \in Ages, Observed(o, g, a)
          PROVE  TypeOK'
      <3>1. /\ UNCHANGED <<est, catalog, model, counted>> /\ UNCHANGED <<held, offer>>
            /\ UNCHANGED <<job, faults, outlived>>
        BY <2>1 DEF Observed, priceVars, heldVars
      <3>2. age' \in [Observations -> Ages] /\ grade' \in [Observations -> Grades]
        BY <2>1 DEF Observed
      <3> QED BY <3>1, <3>2
    <2>2. ASSUME NEW o \in Observations, NEW g \in Grades,
                 NEW a \in {"future", "fresh", "year", "old"}, Sell(o, g, a)
          PROVE  TypeOK'
      BY <2>1, <2>2 DEF Sell, Ages
    <2>3. ASSUME NEW o \in Observations, NEW g \in Grades, Ask(o, g) PROVE TypeOK'
      BY <2>1, <2>3 DEF Ask, Ages
    <2>4. ASSUME NEW o \in Observations, Leave(o) PROVE TypeOK'
      <3>1. AnyGrade \in Grades
        BY PricesAssumption DEF AnyGrade
      <3> QED BY <2>1, <2>4, <3>1 DEF Leave, Ages
    <2>5. ASSUME NEW o \in Observations, Age(o) PROVE TypeOK'
      <3>1. grade[o] \in Grades
        OBVIOUS
      <3>2. Later[age[o]] \in Ages
        BY <2>5 DEF Age, Later, Ages
      <3> QED BY <2>1, <2>5, <3>1, <3>2 DEF Age
    <2>6. CASE PriceFromCatalog \/ Count \/ StartRun
      <3>1. UNCHANGED <<age, grade>> /\ UNCHANGED <<held, offer>> /\ UNCHANGED <<faults, outlived>>
        BY <2>6 DEF PriceFromCatalog, Count, StartRun, obsVars, heldVars
      <3>2. UNCHANGED <<est, model>> /\ catalog' \in BOOLEAN /\ counted' \in BOOLEAN
        BY <2>6 DEF PriceFromCatalog, Count, StartRun, priceVars
      <3>3. job' \in {"idle", "listed", "priced", "held", "weighed"}
        BY <2>6 DEF PriceFromCatalog, Count, StartRun
      <3> QED BY <3>1, <3>2, <3>3
    <2>7. CASE PriceIssue
      <3>1. est' \in [Grades -> [basis : {"none", "sold", "asking_only"},
                                 sample : SUBSET Observations]]
        BY <2>7, EstimateTyped DEF PriceIssue, Recomputed
      <3>2. UNCHANGED <<age, grade>> /\ UNCHANGED <<held, offer>>
        BY <2>7 DEF PriceIssue, obsVars, heldVars
      <3> QED BY <2>7, <3>1, <3>2 DEF PriceIssue
    <2>8. CASE ReadHeld \/ Weigh
      BY <2>8 DEF ReadHeld, Weigh, obsVars, priceVars
    <2>9. CASE WriteModel
      <3>1. model' \in BOOLEAN
        BY <2>9 DEF WriteModel, Add, Refresh, Pass, DeleteUnbanded, DeleteStale
      <3>2. outlived' \in 0..2
        BY <2>9 DEF WriteModel
      <3> QED BY <2>9, <3>1, <3>2 DEF WriteModel, obsVars
    <2>10. CASE FailRun
      <3>1. faults' \in 0..MaxFaults
        BY <2>10, PricesAssumption DEF FailRun
      <3> QED BY <2>10, <3>1 DEF FailRun, obsVars, priceVars
    <2>11. CASE UNCHANGED vars
      <3>1. UNCHANGED <<age, grade>> /\ UNCHANGED <<est, catalog, model, counted>>
        BY <2>11 DEF vars, obsVars, priceVars
      <3>2. UNCHANGED <<held, offer>> /\ UNCHANGED <<job, faults, outlived>>
        BY <2>11 DEF vars, heldVars
      <3> QED BY <3>1, <3>2
    <2> QED BY <2>2, <2>3, <2>4, <2>5, <2>6, <2>7, <2>8, <2>9, <2>10, <2>11 DEF Next
  <1> QED BY <1>1, <1>2, PTL DEF Spec

\* No recomputed price is without evidence.
THEOREM Evidence == Spec => RestsOnEvidence
  <1> DEFINE Rested ==
        job = "listed" /\ job' = "priced" =>
          \A g \in Grades :
              LET e    == est'[g]
                  year == {o \in Sales : Valid(o, g)}
              IN  e # NoEstimate =>
                      /\ Cardinality(e.sample) >= MinSample
                      /\ \A o \in e.sample : Valid(o, g)
                      /\ e.basis = "sold" => /\ e.sample \subseteq Sales
                                             /\ {o \in year : age[o] = "fresh"} \subseteq e.sample
                      /\ e.basis = "asking_only" => /\ e.sample \subseteq Asks
                                                    /\ Cardinality(year) < MinSample
  <1>1. [Next]_vars => [Rested]_vars
    <2> SUFFICES ASSUME Next, job = "listed", job' = "priced"
                 PROVE  Rested
      BY DEF vars
    <2>1. PriceIssue
      BY DEF Next, Sell, Ask, Leave, Age, Observed, PriceFromCatalog, Count, StartRun,
             ReadHeld, Weigh, WriteModel, FailRun
    <2>2. ASSUME NEW g \in Grades PROVE est'[g] = Estimate(g)
      BY <2>1 DEF PriceIssue, Recomputed
    <2> QED BY <2>2, EstimateEvidence DEF SalesOf
  <1> QED BY <1>1, PTL DEF Spec, RestsOnEvidence

SoldBasis == \E g \in Grades : est[g].basis = "sold"

\* Why a run removes what the one before it left: what it found held is what is there, it
\* offers no band against a realised price, and a row was left only beside a catalogue value,
\* which nobody takes back and the next weighing sees.
Yields ==
    /\ outlived \in {0, 1}
    /\ outlived = 1 => catalog = TRUE
    /\ job \in {"held", "weighed"} => held = model
    /\ job = "weighed" /\ offer # "better" => ~SoldBasis
    /\ job = "weighed" /\ outlived = 1 => offer = "better"

\* Two runs in a row do not leave a model row beside a better basis.
THEOREM ModelYields == Spec => []OutlivesOneRun
  <1>1. Init => Yields
    BY DEF Init, Yields
  <1>2. Yields /\ [Next]_vars => Yields'
    <2> SUFFICES ASSUME Yields, [Next]_vars PROVE Yields'
      OBVIOUS
    <2> USE DEF Yields
    <2>1. ASSUME job' = job, UNCHANGED <<est, catalog, model, held, offer, outlived>> PROVE Yields'
      BY <2>1 DEF SoldBasis
    <2>2. ASSUME NEW o \in Observations, NEW g, NEW a, Observed(o, g, a) PROVE Yields'
      <3>1. /\ UNCHANGED <<est, catalog, model, counted>> /\ UNCHANGED <<held, offer>>
            /\ UNCHANGED <<job, faults, outlived>>
        BY <2>2 DEF Observed, priceVars, heldVars
      <3> QED BY <2>1, <3>1
    <2>3. CASE PriceFromCatalog
      <3>1. /\ UNCHANGED <<held, offer>> /\ UNCHANGED <<est, model, job, outlived>>
            /\ catalog' = TRUE
        BY <2>3 DEF PriceFromCatalog, heldVars
      <3>2. SoldBasis' <=> SoldBasis
        BY <3>1 DEF SoldBasis
      <3> QED BY <3>1, <3>2
    <2>4. CASE Count
      <3>1. UNCHANGED <<held, offer>> /\ UNCHANGED <<est, catalog, model, job, outlived>>
        BY <2>4 DEF Count, heldVars
      <3> QED BY <2>1, <3>1
    <2>5. CASE StartRun
      BY <2>5 DEF StartRun, priceVars, heldVars
    <2>6. CASE PriceIssue
      BY <2>6 DEF PriceIssue, heldVars
    <2>7. CASE ReadHeld
      BY <2>7 DEF ReadHeld, priceVars
    <2>8. CASE Weigh
      <3>1. /\ job = "held" /\ job' = "weighed"
            /\ UNCHANGED <<est, catalog, model, held, outlived>>
        BY <2>8 DEF Weigh, priceVars
      <3>2. (catalog = TRUE \/ SoldBasis) => offer' = "better"
        BY <2>8 DEF Weigh, Better, SoldBasis
      <3>3. SoldBasis' <=> SoldBasis
        BY <3>1 DEF SoldBasis
      <3> QED BY <3>1, <3>2, <3>3
    <2>9. CASE WriteModel
      <3>1. /\ job = "weighed" /\ job' = "idle" /\ held = model
            /\ UNCHANGED <<est, catalog>>
        BY <2>9 DEF WriteModel
      <3>2. offer = "better" => ~model'
        BY <2>9, <3>1 DEF WriteModel, Add, Refresh, Pass, DeleteUnbanded, DeleteStale
      <3>3. offer # "better" /\ Better => catalog = TRUE
        BY <3>1 DEF Better, SoldBasis
      <3>4. outlived' = IF model' /\ Better THEN IF outlived = 0 THEN 1 ELSE 2 ELSE 0
        BY <2>9 DEF WriteModel
      <3>5. CASE model' /\ Better
        <4>1. offer # "better" /\ catalog = TRUE /\ outlived = 0
          BY <3>1, <3>2, <3>3, <3>5
        <4> QED BY <3>1, <3>4, <3>5, <4>1
      <3>6. CASE ~(model' /\ Better)
        BY <3>1, <3>4, <3>6
      <3> QED BY <3>5, <3>6
    <2>10. CASE FailRun
      BY <2>10 DEF FailRun, priceVars
    <2>11. CASE UNCHANGED vars
      <3>1. UNCHANGED <<est, catalog, model, counted>> /\ UNCHANGED <<held, offer>>
        BY <2>11 DEF vars, priceVars, heldVars
      <3>2. UNCHANGED <<job, outlived>>
        BY <2>11 DEF vars
      <3> QED BY <2>1, <3>1, <3>2
    <2> QED BY <2>2, <2>3, <2>4, <2>5, <2>6, <2>7, <2>8, <2>9, <2>10, <2>11
            DEF Next, Sell, Ask, Leave, Age
  <1>3. Yields => OutlivesOneRun
    BY DEF Yields, OutlivesOneRun
  <1> QED BY <1>1, <1>2, <1>3, PTL DEF Spec

-----------------------------------------------------------------------------
(* Auctions.                                                                *)

\* What eBay answered stays true: an auction that ended does not run again, and a sale
\* remains one until eBay forgets it.
AnswerHolds ==
    /\ ebay \in [Listings -> States]
    /\ Answered =>
          /\ asked \in Listings
          /\ answer = "gone" => ebay[asked] = "gone"
          /\ answer = "unsold" => ebay[asked] \in {"unsold", "gone"}
          /\ answer = "sold" => ebay[asked] \in {"sold", "gone"}

LEMMA AnswerInit == AuctionInit => AnswerHolds
  BY DEF AuctionInit, Answered, AnswerHolds, States

LEMMA AnswerStep == AnswerHolds /\ [AuctionNext]_auctionVars => AnswerHolds'
  <1> SUFFICES ASSUME AnswerHolds, [AuctionNext]_auctionVars PROVE AnswerHolds'
    OBVIOUS
  <1> USE DEF AnswerHolds, Answered, States, Results
  <1>1. ASSUME NEW l \in Listings,
               \/ Offered(l) \/ Ended(l) \/ Forgotten(l)
        PROVE  AnswerHolds'
    BY <1>1 DEF Offered, Ended, Forgotten, Becomes, checkVars
  <1>2. ASSUME NEW l \in Listings, Passes(l) PROVE AnswerHolds'
    BY <1>2 DEF Passes, checkVars
  <1>3. ASSUME NEW j \in Searches,
               SearchEbay(j) \/ Store(j) \/ StoreFails(j)
        PROVE  AnswerHolds'
    BY <1>3 DEF SearchEbay, Store, StoreFails, checkVars
  <1>4. CASE StartCheck
    BY <1>4 DEF StartCheck
  <1>5. ASSUME NEW l \in Listings, AskAbout(l) PROVE AnswerHolds'
    BY <1>5 DEF AskAbout
  <1>6. CASE \/ DropUnsold \/ KeepOpen \/ Close
             \/ CloseTwice \/ EndCheck \/ CheckFails
    BY <1>6 DEF DropUnsold, KeepOpen, Close, CloseTwice, EndCheck, CheckFails, Drop, Stop,
                NextOne
  <1>7. CASE UNCHANGED auctionVars
    BY <1>7 DEF auctionVars, checkVars
  <1> QED BY <1>1, <1>2, <1>3, <1>4, <1>5, <1>6, <1>7 DEF AuctionNext, Check

\* An auction leaves the watch only for good, and a sold one with the record of its sale,
\* however late answers are stored and whatever fails (close_auction, run_auction_close_check).
THEOREM LeavesForGood == AuctionSpec => DroppedForGood
  <1> DEFINE ForGood == \A l \in open \ open' : /\ ebay[l] # "live"
                                                /\ ebay[l] = "sold" => l \in closed'
  <1>1. AnswerHolds /\ [AuctionNext]_auctionVars => [ForGood]_auctionVars
    <2> SUFFICES ASSUME AnswerHolds, AuctionNext, NEW l \in open \ open'
                 PROVE  ebay[l] # "live" /\ (ebay[l] = "sold" => l \in closed')
      OBVIOUS
    <2>1. DropUnsold \/ Close
      BY DEF AuctionNext, Check, Offered, Ended, Forgotten, Becomes, Passes, SearchEbay,
             Store, StoreFails, StartCheck, AskAbout, KeepOpen, CloseTwice, EndCheck,
             CheckFails
    <2>2. l = asked
      BY <2>1 DEF DropUnsold, Close, Drop
    <2>3. CASE DropUnsold
      BY <2>2, <2>3 DEF DropUnsold, Over, AnswerHolds
    <2>4. CASE Close
      BY <2>2, <2>4 DEF Close, AnswerHolds
    <2> QED BY <2>1, <2>3, <2>4
  <1> QED BY <1>1, AnswerInit, AnswerStep, PTL DEF AuctionSpec, DroppedForGood

\* The watch is well formed: what is due is watched, also after an auction was dropped or its
\* end was moved by a search that began before (ingest_listings, run_auction_close_check).
THEOREM WatchTyped == AuctionSpec => []AuctionTypeOK
  <1>1. AuctionInit => AuctionTypeOK
    <2> SUFFICES ASSUME AuctionInit PROVE AuctionTypeOK
      OBVIOUS
    <2> USE DEF States
    <2>1. failures \in 0..MaxFailures
      BY AuctionsAssumption DEF AuctionInit
    <2>2. /\ ebay \in [Listings -> States]
          /\ open \subseteq Listings /\ due \subseteq open /\ closed \subseteq Listings
          /\ found \in [Searches -> SUBSET Listings]
      BY DEF AuctionInit
    <2>3. queue = Nothing /\ asked = Nothing /\ answer = "unlisted"
      BY Zenon DEF AuctionInit
    <2>4. /\ queue \in (SUBSET Listings) \cup {Nothing} /\ asked \in Listings \cup {Nothing}
          /\ answer \in States
      BY <2>3
    <2> QED BY <2>1, <2>2, <2>4, Zenon DEF AuctionTypeOK
  <1>2. AuctionTypeOK /\ [AuctionNext]_auctionVars => AuctionTypeOK'
    <2> SUFFICES ASSUME AuctionTypeOK, [AuctionNext]_auctionVars PROVE AuctionTypeOK'
      OBVIOUS
    <2>1. ASSUME NEW l \in Listings, NEW state \in States,
                 Becomes(l, state)
          PROVE  AuctionTypeOK'
      BY <2>1 DEF Becomes, checkVars, AuctionTypeOK
    <2>2. ASSUME NEW l \in Listings, Offered(l) \/ Ended(l) \/ Forgotten(l)
          PROVE  AuctionTypeOK'
      BY <2>1, <2>2 DEF Offered, Ended, Forgotten, States, Results
    <2>3. ASSUME NEW l \in Listings, Passes(l) PROVE AuctionTypeOK'
      BY <2>3 DEF Passes, checkVars, AuctionTypeOK
    <2>4. ASSUME NEW j \in Searches, SearchEbay(j) PROVE AuctionTypeOK'
      BY <2>4 DEF SearchEbay, checkVars, AuctionTypeOK
    <2>5. ASSUME NEW j \in Searches, Store(j) PROVE AuctionTypeOK'
      <3>1. found[j] \in SUBSET Listings /\ open' = open \cup found[j] /\ due' = due \ found[j]
        BY <2>5 DEF Store, StillDue, AuctionTypeOK
      <3> QED BY <2>5, <3>1 DEF Store, checkVars, AuctionTypeOK
    <2>6. ASSUME NEW j \in Searches, StoreFails(j) PROVE AuctionTypeOK'
      BY <2>6, AuctionsAssumption DEF StoreFails, checkVars, AuctionTypeOK
    <2>7. CASE StartCheck
      BY <2>7 DEF StartCheck, AuctionTypeOK
    <2>8. ASSUME NEW l \in Listings, AskAbout(l) PROVE AuctionTypeOK'
      BY <2>8 DEF AskAbout, Running, AuctionTypeOK
    <2>9. CASE DropUnsold \/ Close
      BY <2>9 DEF DropUnsold, Close, Drop, NextOne, Answered, AuctionTypeOK, States
    <2>10. CASE KeepOpen \/ CloseTwice \/ EndCheck \/ CheckFails
      <3>1. /\ ebay' = ebay /\ open' = open /\ due' = due /\ closed' = closed /\ found' = found
            /\ queue' \in {queue, Nothing} /\ asked' = Nothing /\ answer' = "unlisted"
        BY <2>10, Zenon DEF KeepOpen, CloseTwice, EndCheck, CheckFails, Stop, NextOne
      <3>2. failures' \in 0..MaxFailures
        <4>1. CASE CheckFails
          BY <4>1, AuctionsAssumption DEF CheckFails, AuctionTypeOK
        <4>2. CASE KeepOpen \/ CloseTwice \/ EndCheck
          BY <4>2, Zenon DEF KeepOpen, CloseTwice, EndCheck, AuctionTypeOK
        <4> QED BY <2>10, <4>1, <4>2
      <3>3. queue' \in (SUBSET Listings) \cup {Nothing}
        <4>1. queue \in (SUBSET Listings) \cup {Nothing}
          BY Zenon DEF AuctionTypeOK
        <4>2. queue' = queue \/ queue' = Nothing
          BY <3>1
        <4>3. CASE queue' = queue
          BY <4>1, <4>3
        <4>4. CASE queue' = Nothing
          BY <4>4
        <4> QED BY <4>2, <4>3, <4>4
      <3>4. asked' \in Listings \cup {Nothing} /\ answer' \in States
        BY <3>1 DEF States
      <3> QED BY <3>1, <3>2, <3>3, <3>4, Zenon DEF AuctionTypeOK
    <2>11. CASE UNCHANGED auctionVars
      BY <2>11 DEF auctionVars, AuctionTypeOK
    <2> QED BY <2>2, <2>3, <2>4, <2>5, <2>6, <2>7, <2>8, <2>9, <2>10, <2>11 DEF AuctionNext, Check
  <1> QED BY <1>1, <1>2, PTL DEF AuctionSpec

-----------------------------------------------------------------------------
(* What rows have spent: a sum over a finite set, in the order CHOOSE takes. *)

First(T) == CHOOSE r \in T : TRUE

\* g is the sum of st over the subsets of U.
Adds(st, g, U) ==
    g = [T \in SUBSET U |-> IF T = {} THEN 0 ELSE st[First(T)] + g[T \ {First(T)}]]

Sum(st, U) == (CHOOSE g : Adds(st, g, U))[U]

\* A set of subsets of a finite set has one no other is smaller than.
LEMMA Smallest ==
    ASSUME NEW U, IsFiniteSet(U), NEW B, B \subseteq SUBSET U, B # {}
    PROVE  \E T \in B : \A V \in B : V \subseteq T => V = T
  <1>1. IsWellFoundedOn(StrictSubsetOrdering(U), SUBSET U)
    BY FS_StrictSubsetOrderingWellFounded, FS_FiniteSubsetsOfFinite
  <1>2. PICK T \in B : \A V \in B : ~(<<V, T>> \in StrictSubsetOrdering(U))
    BY <1>1, WFMin
  <1>3. \A V \in B : V \subseteq T => V = T
    BY <1>2 DEF StrictSubsetOrdering
  <1> QED BY <1>3

LEMMA FirstIn == ASSUME NEW T, T # {} PROVE First(T) \in T
  BY DEF First

LEMMA AddsAt ==
    ASSUME NEW st, NEW g, NEW U, Adds(st, g, U), NEW T \in SUBSET U
    PROVE  g[T] = IF T = {} THEN 0 ELSE st[First(T)] + g[T \ {First(T)}]
  BY DEF Adds

\* Sums of what agrees are the same.
LEMMA AddsSame ==
    ASSUME NEW st, NEW u, NEW g, NEW h, NEW U, NEW V, IsFiniteSet(U),
           Adds(st, g, U), Adds(u, h, V), U \subseteq V, \A r \in U : st[r] = u[r]
    PROVE  g[U] = h[U]
  <1> DEFINE B == {W \in SUBSET U : g[W] # h[W]}
  <1>1. SUFFICES ASSUME B # {} PROVE FALSE
    OBVIOUS
  <1>2. PICK W \in B : \A X \in B : X \subseteq W => X = W
    <2> HIDE DEF B
    <2>1. B \subseteq SUBSET U
      BY DEF B
    <2> QED BY <1>1, <2>1, Smallest
  <1>3. g[W] = (IF W = {} THEN 0 ELSE st[First(W)] + g[W \ {First(W)}])
    BY AddsAt
  <1>4. h[W] = (IF W = {} THEN 0 ELSE u[First(W)] + h[W \ {First(W)}])
    <2>1. W \in SUBSET V
      OBVIOUS
    <2> QED BY <2>1, AddsAt, SMTT(30)
  <1>5. W # {}
    BY <1>3, <1>4
  <1>6. First(W) \in W
    BY <1>5, FirstIn
  <1>7. W \ {First(W)} \notin B
    BY <1>2, <1>6
  <1>8. g[W \ {First(W)}] = h[W \ {First(W)}] /\ st[First(W)] = u[First(W)]
    BY <1>6, <1>7
  <1> QED BY <1>3, <1>4, <1>5, <1>8

LEMMA AddsExists ==
    ASSUME NEW st, NEW U, IsFiniteSet(U)
    PROVE  \E g : Adds(st, g, U)
  <1> DEFINE B == {W \in SUBSET U : ~ \E g : Adds(st, g, W)}
  <1>1. SUFFICES ASSUME B # {} PROVE FALSE
    OBVIOUS
  <1>2. PICK W \in B : \A X \in B : X \subseteq W => X = W
    <2> HIDE DEF B
    <2>1. B \subseteq SUBSET U
      BY DEF B
    <2> QED BY <1>1, <2>1, Smallest
  <1> DEFINE G(X) == CHOOSE g : Adds(st, g, X)
             Less(X) == X \ {First(X)}
  <1>3. ASSUME NEW X \in SUBSET W, X # W PROVE Adds(st, G(X), X) /\ IsFiniteSet(X)
    <2>1. X \notin B
      BY <1>2, <1>3
    <2>2. \E g : Adds(st, g, X)
      BY <2>1
    <2>3. IsFiniteSet(X)
      BY FS_Subset
    <2> QED BY <2>2, <2>3
  <1>4. ASSUME NEW X \in SUBSET W, X # {}
        PROVE  /\ First(X) \in X /\ Less(X) \in SUBSET W /\ Less(X) # W
               /\ Less(X) \subseteq X
    BY <1>4, FirstIn
  <1> DEFINE g == [X \in SUBSET W |->
                     IF X = {} THEN 0 ELSE st[First(X)] + G(Less(X))[Less(X)]]
  <1> HIDE DEF G, B
  <1>5. ASSUME NEW X \in SUBSET W, X # {} PROVE g[Less(X)] = G(Less(X))[Less(X)]
    <2> DEFINE Y == Less(X)
    <2>1. Y \in SUBSET W /\ Y # W
      BY <1>4, <1>5
    <2>2. Adds(st, G(Y), Y) /\ IsFiniteSet(Y)
      BY <1>3, <2>1
    <2>3. G(Y)[Y] = IF Y = {} THEN 0 ELSE st[First(Y)] + G(Y)[Less(Y)]
      <3> HIDE DEF Y
      <3> QED BY <2>2, AddsAt
    <2>4. CASE Y = {}
      BY <2>1, <2>3, <2>4
    <2>5. CASE Y # {}
      <3>1. Less(Y) \in SUBSET W /\ Less(Y) # W /\ Less(Y) \subseteq Y
        BY <1>4, <2>1, <2>5
      <3>2. Adds(st, G(Less(Y)), Less(Y)) /\ IsFiniteSet(Less(Y))
        BY <1>3, <3>1
      <3>3. G(Y)[Less(Y)] = G(Less(Y))[Less(Y)]
        <4> HIDE DEF Y, Less
        <4> QED BY <2>2, <3>1, <3>2, AddsSame
      <3>4. g[Y] = st[First(Y)] + G(Less(Y))[Less(Y)]
        BY <2>1, <2>5
      <3> QED BY <2>3, <2>5, <3>3, <3>4
    <2> QED BY <2>4, <2>5
  <1>6. g = [X \in SUBSET W |-> IF X = {} THEN 0 ELSE st[First(X)] + g[Less(X)]]
    BY <1>5
  <1>7. Adds(st, g, W)
    BY <1>6 DEF Adds
  <1> QED BY <1>2, <1>7 DEF B

\* A sum of what agrees is the same, and that of a smaller set is found on the way.
LEMMA SumIs ==
    ASSUME NEW st, NEW U, IsFiniteSet(U), NEW g, NEW V, U \subseteq V, Adds(st, g, V)
    PROVE  Sum(st, U) = g[U]
  <1> DEFINE h == CHOOSE f : Adds(st, f, U)
  <1>1. Adds(st, h, U)
    BY AddsExists
  <1> HIDE DEF h
  <1>3. h[U] = g[U]
    BY <1>1, AddsSame
  <1> QED BY <1>3 DEF Sum, h

LEMMA SumSame ==
    ASSUME NEW st, NEW u, NEW U, IsFiniteSet(U), \A r \in U : st[r] = u[r]
    PROVE  Sum(st, U) = Sum(u, U)
  <1>1. PICK g : Adds(st, g, U)
    BY AddsExists
  <1>2. PICK h : Adds(u, h, U)
    BY AddsExists
  <1>3. Sum(st, U) = g[U] /\ Sum(u, U) = h[U]
    BY <1>1, <1>2, SumIs
  <1>5. g[U] = h[U]
    BY <1>1, <1>2, AddsSame
  <1> QED BY <1>3, <1>5

LEMMA SumStep ==
    ASSUME NEW st, NEW U, IsFiniteSet(U)
    PROVE  /\ Sum(st, {}) = 0
           /\ U # {} => Sum(st, U) = st[First(U)] + Sum(st, U \ {First(U)})
  <1>1. PICK g : Adds(st, g, U)
    BY AddsExists
  <1>2. IsFiniteSet({}) /\ IsFiniteSet(U \ {First(U)})
    BY FS_EmptySet, FS_Subset
  <1>3. Sum(st, {}) = g[{}] /\ Sum(st, U \ {First(U)}) = g[U \ {First(U)}]
    BY <1>1, <1>2, SumIs
  <1>4. Sum(st, U) = g[U]
    BY <1>1, SumIs
  <1>5. U \in SUBSET U /\ {} \in SUBSET U
    OBVIOUS
  <1>6. g[{}] = 0
    BY <1>1, <1>5, AddsAt
  <1>7. g[U] = IF U = {} THEN 0 ELSE st[First(U)] + g[U \ {First(U)}]
    BY <1>1, <1>5, AddsAt
  <1> QED BY <1>3, <1>4, <1>6, <1>7

LEMMA SumNat ==
    ASSUME NEW st, NEW U, IsFiniteSet(U), \A r \in U : st[r] \in Nat
    PROVE  Sum(st, U) \in Nat
  <1> DEFINE B == {W \in SUBSET U : Sum(st, W) \notin Nat}
  <1>1. SUFFICES ASSUME B # {} PROVE FALSE
    OBVIOUS
  <1>2. PICK W \in B : \A X \in B : X \subseteq W => X = W
    <2> HIDE DEF B
    <2>1. B \subseteq SUBSET U
      BY DEF B
    <2> QED BY <1>1, <2>1, Smallest
  <1>3. IsFiniteSet(W)
    BY FS_Subset
  <1>4. Sum(st, {}) = 0 /\ (W # {} => Sum(st, W) = st[First(W)] + Sum(st, W \ {First(W)}))
    BY <1>3, SumStep
  <1>5. W # {}
    <2>1. Sum(st, W) \notin Nat
      BY <1>2
    <2> HIDE DEF B
    <2>2. CASE W = {}
      <3>1. Sum(st, W) = 0
        BY <1>4, <2>2, Zenon
      <3> QED BY <2>1, <3>1
    <2> QED BY <2>2
  <1>8. First(W) \in W
    BY <1>5, FirstIn
  <1>6. W \ {First(W)} \notin B
    BY <1>2, <1>8
  <1>7. Sum(st, W \ {First(W)}) \in Nat /\ st[First(W)] \in Nat
    BY <1>6, <1>8
  <1> QED BY <1>2, <1>4, <1>5, <1>7

\* The order makes no difference: any row can be taken out.
LEMMA SumTake ==
    ASSUME NEW st, NEW U, IsFiniteSet(U), \A r \in U : st[r] \in Nat, NEW x \in U
    PROVE  Sum(st, U) = st[x] + Sum(st, U \ {x})
  <1> DEFINE B == {W \in SUBSET U : \E y \in W : Sum(st, W) # st[y] + Sum(st, W \ {y})}
  <1>1. SUFFICES ASSUME B # {} PROVE FALSE
    <2>1. U \notin B
      BY <1>1
    <2> QED BY <2>1
  <1>2. PICK W \in B : \A X \in B : X \subseteq W => X = W
    <2> HIDE DEF B
    <2>1. B \subseteq SUBSET U
      BY DEF B
    <2> QED BY <1>1, <2>1, Smallest
  <1>3. PICK y \in W : Sum(st, W) # st[y] + Sum(st, W \ {y})
    BY <1>2
  <1> DEFINE f == First(W)
             D == (W \ {f}) \ {y}
  <1>4. IsFiniteSet(W) /\ IsFiniteSet(D) /\ f \in W
    BY FS_Subset, FirstIn
  <1>5. Sum(st, W) = st[f] + Sum(st, W \ {f})
    BY <1>4, SumStep
  <1> HIDE DEF f
  <1>6. y # f
    BY <1>3, <1>5
  <1>7. W \ {f} \notin B /\ W \ {y} \notin B
    BY <1>2, <1>3, <1>4
  <1>8. Sum(st, W \ {f}) = st[y] + Sum(st, D)
    BY <1>3, <1>6, <1>7
  <1>9. Sum(st, W \ {y}) = st[f] + Sum(st, D)
    <2>1. (W \ {y}) \ {f} = D
      OBVIOUS
    <2> QED BY <1>4, <1>6, <1>7, <2>1
  <1>10. st[f] \in Nat /\ st[y] \in Nat /\ Sum(st, D) \in Nat
    <2>1. \A r \in D : st[r] \in Nat
      OBVIOUS
    <2> QED BY <1>4, <2>1, SumNat
  <1> QED BY <1>3, <1>5, <1>8, <1>9, <1>10

\* Rows that have spent nothing make no difference.
LEMMA SumZeros ==
    ASSUME NEW st, NEW U, IsFiniteSet(U), \A r \in U : st[r] \in Nat,
           NEW R \in SUBSET U, \A r \in U \ R : st[r] = 0
    PROVE  Sum(st, U) = Sum(st, R)
  <1> DEFINE B == {W \in SUBSET U : R \subseteq W /\ Sum(st, W) # Sum(st, R)}
  <1>1. SUFFICES ASSUME B # {} PROVE FALSE
    <2>1. U \notin B
      BY <1>1
    <2> QED BY <2>1
  <1>2. PICK W \in B : \A X \in B : X \subseteq W => X = W
    <2> HIDE DEF B
    <2>1. B \subseteq SUBSET U
      BY DEF B
    <2> QED BY <1>1, <2>1, Smallest
  <1>3. PICK y \in W : y \notin R
    <2>1. W # R /\ R \subseteq W
      BY <1>2
    <2> QED BY <2>1
  <1>4. W \ {y} \notin B
    BY <1>2, <1>3
  <1>5. Sum(st, W \ {y}) = Sum(st, R)
    BY <1>3, <1>4
  <1>6. Sum(st, W) = st[y] + Sum(st, W \ {y})
    <2>1. IsFiniteSet(W) /\ \A r \in W : st[r] \in Nat
      BY FS_Subset
    <2> QED BY <2>1, SumTake
  <1>7. Sum(st, R) \in Nat /\ st[y] = 0
    <2>1. IsFiniteSet(R)
      BY FS_Subset
    <2> QED BY <1>3, <2>1, SumNat
  <1> QED BY <1>2, <1>5, <1>6, <1>7

\* What one row spends is what all together spend.
LEMMA SumChange ==
    ASSUME NEW U, IsFiniteSet(U), NEW st, NEW u, NEW x \in U,
           \A r \in U : st[r] \in Nat /\ u[r] \in Nat, \A r \in U \ {x} : u[r] = st[r]
    PROVE  /\ Sum(st, U) \in Nat /\ Sum(u, U) \in Nat
           /\ Sum(u, U) + st[x] = Sum(st, U) + u[x]
  <1> DEFINE V == U \ {x}
  <1>1. Sum(st, U) = st[x] + Sum(st, V) /\ Sum(u, U) = u[x] + Sum(u, V)
    BY SumTake
  <1>2. IsFiniteSet(V)
    BY FS_Subset
  <1>3. Sum(st, V) = Sum(u, V)
    <2> HIDE DEF V
    <2>1. \A r \in V : st[r] = u[r]
      BY DEF V
    <2> QED BY <1>2, <2>1, SumSame
  <1>4. Sum(st, V) \in Nat
    BY <1>2, SumNat
  <1> QED BY <1>1, <1>3, <1>4

-----------------------------------------------------------------------------
(* The eBay budget.                                                         *)

Stats == [r \in Runs |-> run[r].stats]

\* What _ebay_calls_today counts is the sum of the statistics of the rows.
LEMMA SpentIs ==
    ASSUME NEW R \in SUBSET Runs, IsFiniteSet(R)
    PROVE  Spent(R) = Sum(Stats, R)
  <1> DEFINE g == CHOOSE S : S = [T \in SUBSET R |->
                     IF T = {} THEN 0 ELSE run[First(T)].stats + S[T \ {First(T)}]]
  <1>1. Spent(R) = g[R]
    BY DEF Spent, First
  <1>2. \A T \in SUBSET R : T # {} => run[First(T)].stats = Stats[First(T)]
    BY FirstIn DEF Stats
  <1>3. \A f : Adds(Stats, f, R) <=>
               f = [T \in SUBSET R |->
                      IF T = {} THEN 0 ELSE run[First(T)].stats + f[T \ {First(T)}]]
    BY <1>2 DEF Adds
  <1>4. Adds(Stats, g, R)
    <2>1. \E f : Adds(Stats, f, R)
      BY AddsExists
    <2> QED BY <1>3, <2>1
  <1> HIDE DEF g
  <1>5. Sum(Stats, R) = g[R]
    BY <1>4, SumIs
  <1> QED BY <1>1, <1>5

Rows == [state : {"new", "waiting", "working", "ended", "lost"}, job : Jobs, today : BOOLEAN,
         left : 0..MaxWork, stats : Nat, client : [today : BOOLEAN, spent : Nat]]

On(x) == x.state \in {"waiting", "working"}

\* A row of a plain day on which eBay served n requests.
Plainly(x, n) ==
    /\ x.state # "lost"
    /\ x.state \in {"new", "waiting"} => x.stats = 0
    /\ x.state = "waiting" => x.client.today /\ x.client.spent = 0
    /\ x.state = "ended" => x.today
    /\ x.state = "working" => x.today /\ x.client.today /\ (x.job # Checks => n <= x.client.spent)

\* On a plain day eBay served no more than the rows account for, and the search in progress,
\* if there is one, knows of all of it.
DayInv ==
    /\ calls \in Nat /\ plain \in BOOLEAN /\ run \in [Runs -> Rows]
    /\ plain => /\ \A r, k \in Runs : On(run[r]) /\ On(run[k]) => r = k
                /\ \A r \in Runs : Plainly(run[r], calls)
                /\ calls <= Sum(Stats, Runs)

LEMMA FreshRow ==
    /\ Fresh \in Rows /\ ~On(Fresh) /\ Fresh.stats = 0
    /\ \A n : Plainly(Fresh, n)
  BY BudgetAssumption DEF Rows, Fresh, Client, On, Plainly

LEMMA DayInvInit == BudgetInit => DayInv
  <1> SUFFICES ASSUME BudgetInit PROVE DayInv
    OBVIOUS
  <1>1. calls = 0 /\ plain \in BOOLEAN /\ run \in [Runs -> Rows]
    BY FreshRow DEF BudgetInit
  <1>2. \A r \in Runs : run[r] = Fresh
    BY DEF BudgetInit
  <1>3. Sum(Stats, Runs) \in Nat
    <2>1. \A r \in Runs : Stats[r] \in Nat
      BY <1>2, FreshRow DEF Stats
    <2> QED BY <2>1, SumNat, BudgetAssumption
  <1> QED BY <1>1, <1>2, <1>3, FreshRow DEF DayInv

\* One row changes, and no other run is on.
LEMMA RowStep ==
    ASSUME DayInv, NEW r \in Runs, NEW x \in Rows, run' = [run EXCEPT ![r] = x],
           calls' \in Nat, plain' \in BOOLEAN,
           plain' => /\ plain
                     /\ \A k \in Runs : On(run[k]) => k = r
                     /\ Plainly(x, calls')
                     /\ calls' + run[r].stats <= calls + x.stats
    PROVE  DayInv'
  <1>1. /\ run' \in [Runs -> Rows] /\ run'[r] = x
        /\ \A k \in Runs \ {r} : run'[k] = run[k]
    BY DEF DayInv
  <1>2. ASSUME plain' PROVE calls' <= Sum(Stats', Runs)
    <2> DEFINE st == Stats
               u == Stats'
    <2>1. /\ \A k \in Runs : st[k] = run[k].stats /\ u[k] = run'[k].stats
          /\ \A k \in Runs : st[k] \in Nat /\ u[k] \in Nat
      BY <1>1 DEF Stats, DayInv, Rows
    <2>2. \A k \in Runs \ {r} : u[k] = st[k]
      BY <1>1, <2>1
    <2>3. st[r] = run[r].stats /\ u[r] = x.stats /\ st[r] \in Nat /\ u[r] \in Nat
      BY <1>1, <2>1
    <2>4. calls <= Sum(st, Runs) /\ calls \in Nat
      BY <1>2 DEF DayInv
    <2> HIDE DEF st, u
    <2>5. /\ Sum(st, Runs) \in Nat /\ Sum(u, Runs) \in Nat
          /\ Sum(u, Runs) + st[r] = Sum(st, Runs) + u[r]
      BY <2>1, <2>2, SumChange, SMTT(30), BudgetAssumption
    <2>6. calls' + st[r] <= calls + u[r]
      BY <1>2, <2>3
    <2>7. calls' <= Sum(u, Runs)
      BY <2>3, <2>4, <2>5, <2>6
    <2> QED BY <2>7 DEF u
  <1>3. ASSUME plain' PROVE /\ \A q, k \in Runs : On(run'[q]) /\ On(run'[k]) => q = k
                            /\ \A k \in Runs : Plainly(run'[k], calls')
    <2>1. \A k \in Runs \ {r} : ~On(run'[k]) /\ Plainly(run[k], calls)
      BY <1>1, <1>3 DEF DayInv
    <2>2. \A k \in Runs \ {r} : Plainly(run'[k], calls')
      BY <1>1, <2>1 DEF Plainly, On
    <2> QED BY <1>1, <1>3, <2>1, <2>2
  <1> QED BY <1>1, <1>2, <1>3 DEF DayInv

LEMMA BudgetBegin ==
    ASSUME DayInv, NEW r \in Runs, NEW b \in Jobs, BeginRun(r, b)
    PROVE  DayInv'
  <1> DEFINE x == [Fresh EXCEPT !.state = "waiting", !.job = b]
  <1>1. /\ run' = [run EXCEPT ![r] = x] /\ calls' = calls /\ run[r].state = "new"
        /\ plain' = (plain /\ Active = {})
    BY DEF BeginRun
  <1>2. x = [state |-> "waiting", job |-> b, today |-> TRUE, left |-> 0, stats |-> 0,
             client |-> Client]
    <2> DEFINE y == Fresh
    <2>1. x = [f \in DOMAIN y |->
                 IF f = "state" THEN "waiting" ELSE IF f = "job" THEN b ELSE y[f]]
      BY DEF Fresh
    <2>2. y = [state |-> "new", job |-> Checks, today |-> TRUE, left |-> 0, stats |-> 0,
               client |-> Client]
      BY DEF Fresh
    <2> HIDE DEF x, y
    <2>3. DOMAIN y = {"state", "job", "today", "left", "stats", "client"}
      BY <2>2
    <2> QED BY <2>1, <2>2, <2>3
  <1> HIDE DEF x
  <1>3. x \in Rows /\ Plainly(x, calls) /\ x.stats = 0
    BY <1>2, BudgetAssumption DEF Rows, Plainly, Client
  <1>4. plain' => plain /\ (\A k \in Runs : ~On(run[k])) /\ run[r].stats = 0
    BY <1>1 DEF DayInv, Active, InState, On, Plainly
  <1>5. plain' \in BOOLEAN /\ calls \in Nat /\ run[r].stats \in Nat
    BY <1>1 DEF DayInv, Rows
  <1>6. plain' => calls' + run[r].stats <= calls + x.stats
    BY <1>1, <1>3, <1>4, <1>5
  <1> QED BY <1>1, <1>3, <1>4, <1>5, <1>6, RowStep

\* On a plain day the earlier runs account for everything.
LEMMA AllEarlier ==
    ASSUME DayInv, plain, NEW r \in Runs, run[r].state = "waiting"
    PROVE  Spent(Earlier) = Sum(Stats, Runs)
  <1> DEFINE R == Earlier
  <1>1. R \in SUBSET Runs
    BY DEF Earlier, InState
  <1>2. \A k \in Runs \ R : Stats[k] = 0
    <2> SUFFICES ASSUME NEW k \in Runs, k \notin R PROVE run[k].stats = 0
      BY DEF Stats
    <2>1. Plainly(run[k], calls) /\ run[k] \in Rows
      BY DEF DayInv
    <2>2. run[k].state # "ended"
      BY <2>1 DEF Earlier, InState, Plainly
    <2>3. run[k].state # "working"
      BY DEF DayInv, On
    <2> QED BY <2>1, <2>2, <2>3 DEF Plainly, Rows
  <1>3. \A k \in Runs : Stats[k] \in Nat
    BY DEF Stats, DayInv, Rows
  <1> HIDE DEF R
  <1>4. IsFiniteSet(R) /\ IsFiniteSet(Runs)
    BY <1>1, FS_Subset, BudgetAssumption
  <1>5. Sum(Stats, Runs) = Sum(Stats, R)
    BY <1>1, <1>2, <1>3, <1>4, SumZeros
  <1>6. Spent(R) = Sum(Stats, R)
    BY <1>1, <1>4, SpentIs
  <1> QED BY <1>5, <1>6 DEF R

LEMMA BudgetPlan ==
    ASSUME DayInv, NEW r \in Runs, NEW work \in 0..MaxWork, Plan(r, work)
    PROVE  DayInv'
  <1> DEFINE y == run[r]
             n == Spent(Earlier)
             s == IF y.job = Checks THEN y.client.spent ELSE y.client.spent + n
             x == [state |-> "working", job |-> y.job, today |-> TRUE, left |-> work,
                   stats |-> y.stats, client |-> [today |-> y.client.today, spent |-> s]]
  <1>1. y.state = "waiting" /\ calls' = calls /\ plain' = plain
    BY DEF Plan
  <1>2. run \in [Runs -> Rows] /\ y \in Rows /\ calls \in Nat /\ plain \in BOOLEAN
    BY DEF DayInv
  <1>3. run' = [run EXCEPT ![r].state = "working", ![r].today = TRUE, ![r].left = work,
          ![r].client.spent = IF y.job = Checks THEN @ ELSE @ + n]
    BY DEF Plan
  <1>4. run' = [run EXCEPT ![r] = x]
    <2> DEFINE z == [y EXCEPT !.state = "working", !.today = TRUE, !.left = work,
                              !.client.spent = s]
               c == [today |-> y.client.today, spent |-> s]
    <2>1. run' = [run EXCEPT ![r] = z]
      BY <1>2, <1>3, ZenonT(40)
    <2>2. [y.client EXCEPT !.spent = s] = c
      BY <1>2 DEF Rows
    <2>3. z = [y EXCEPT !.state = "working", !.today = TRUE, !.left = work, !.client = c]
      BY <1>2, <2>2 DEF Rows
    <2> HIDE DEF c
    <2>4. z = [f \in DOMAIN y |->
                 IF f = "state" THEN "working" ELSE IF f = "today" THEN TRUE
                 ELSE IF f = "left" THEN work ELSE IF f = "client" THEN c ELSE y[f]]
      BY <1>2, <2>3 DEF Rows
    <2>5. DOMAIN y = {"state", "job", "today", "left", "stats", "client"}
      BY <1>2 DEF Rows
    <2> HIDE DEF z
    <2>6. z = [state |-> "working", job |-> y.job, today |-> TRUE, left |-> work,
               stats |-> y.stats, client |-> c]
      BY <2>4, <2>5
    <2> QED BY <2>1, <2>6 DEF c
  <1>5. n \in Nat
    <2>1. Earlier \in SUBSET Runs
      BY DEF Earlier, InState
    <2>2. \A k \in Earlier : Stats[k] \in Nat
      BY <2>1 DEF Stats, DayInv, Rows
    <2>3. IsFiniteSet(Earlier)
      BY <2>1, FS_Subset, BudgetAssumption
    <2> QED BY <2>1, <2>2, <2>3, SpentIs, SumNat
  <1>6. plain => calls <= n
    BY <1>1, AllEarlier DEF DayInv
  <1>7. plain => (\A k \in Runs : On(run[k]) => k = r) /\ Plainly(y, calls)
    BY <1>1 DEF DayInv, On
  <1> HIDE DEF n, y
  <1>8. s \in Nat /\ (y.job # Checks => s = y.client.spent + n)
    BY <1>2, <1>5 DEF Rows
  <1> HIDE DEF s
  <1>9. x \in Rows /\ x.stats = y.stats /\ y.stats \in Nat
    BY <1>2, <1>8 DEF Rows
  <1>10. plain => Plainly(x, calls)
    BY <1>1, <1>2, <1>5, <1>6, <1>7, <1>8 DEF Plainly
  <1> HIDE DEF x
  <1>11. calls' + y.stats <= calls + x.stats
    BY <1>1, <1>2, <1>9
  <1> QED BY <1>1, <1>2, <1>4, <1>7, <1>9, <1>10, <1>11, RowStep DEF y

\* A request is made: what eBay served, what the client knows and what the row will show grow
\* together, unless the day is no plain one any more.
LEMMA BudgetCall ==
    ASSUME DayInv, NEW r \in Runs, NEW last \in BOOLEAN, NEW repeated \in BOOLEAN,
           Call(r, last, repeated)
    PROVE  DayInv'
  <1> DEFINE y == run[r]
             c == [today |-> TRUE, spent |-> SpentToday(r) + 1]
             z == [state |-> "working", job |-> y.job, today |-> y.today, left |-> y.left,
                   stats |-> y.stats, client |-> c]
             x == [state |-> "working", job |-> y.job, today |-> y.today,
                   left |-> IF last THEN y.left - 1 ELSE y.left,
                   stats |-> IF last THEN y.stats + 1 ELSE y.stats, client |-> c]
  <1>1. /\ y.state = "working" /\ y.left > 0
        /\ calls' = calls + (IF repeated THEN 2 ELSE 1)
        /\ run' = [run EXCEPT ![r] = IF last THEN [Paid(r) EXCEPT !.left = @ - 1,
                                                                          !.stats = @ + 1]
                                     ELSE Paid(r)]
        /\ plain' = (plain /\ last /\ ~repeated)
    BY DEF Call, Working
  <1>2. run \in [Runs -> Rows] /\ y \in Rows /\ calls \in Nat /\ plain \in BOOLEAN
    BY DEF DayInv
  <1>3. DOMAIN y = {"state", "job", "today", "left", "stats", "client"}
    BY <1>2 DEF Rows
  <1>4. Paid(r) = z
    <2>1. Paid(r) = [y EXCEPT !.client = c]
      BY DEF Paid
    <2> HIDE DEF c
    <2>2. Paid(r) = [f \in DOMAIN y |-> IF f = "client" THEN c ELSE y[f]]
      BY <2>1
    <2> HIDE DEF y
    <2> QED BY <1>1, <1>3, <2>2 DEF y
  <1>5. run' = [run EXCEPT ![r] = x]
    <2>1. CASE ~last
      <3>1. x = z
        BY <2>1
      <3> HIDE DEF x, z
      <3> QED BY <1>1, <1>4, <2>1, <3>1
    <2>2. CASE last
      <3>1. run' = [run EXCEPT ![r] = [z EXCEPT !.left = z.left - 1, !.stats = z.stats + 1]]
        <4> HIDE DEF z
        <4> QED BY <1>1, <1>4, <2>2
      <3>2. [z EXCEPT !.left = z.left - 1, !.stats = z.stats + 1] = x
        <4> DEFINE w == [z EXCEPT !.left = z.left - 1, !.stats = z.stats + 1]
        <4> HIDE DEF c
        <4>1. w = [f \in DOMAIN z |-> IF f = "left" THEN z.left - 1
                                      ELSE IF f = "stats" THEN z.stats + 1 ELSE z[f]]
          OBVIOUS
        <4>2. DOMAIN z = {"state", "job", "today", "left", "stats", "client"}
          OBVIOUS
        <4>3. x = [state |-> "working", job |-> y.job, today |-> y.today, left |-> y.left - 1,
                   stats |-> y.stats + 1, client |-> c]
          BY <2>2
        <4>4. z.left = y.left /\ z.stats = y.stats
          OBVIOUS
        <4>5. /\ z["state"] = "working" /\ z["job"] = y.job /\ z["today"] = y.today
              /\ z["client"] = c
          OBVIOUS
        <4> HIDE DEF w, x, y, z
        <4>6. w = x
          BY <4>1, <4>2, <4>3, <4>4, <4>5
        <4> QED BY <4>6 DEF w
      <3> QED BY <3>1, <3>2
    <2> QED BY <2>1, <2>2
  <1>6. SpentToday(r) \in Nat
        /\ (y.client.today => SpentToday(r) = y.client.spent)
    BY <1>2 DEF SpentToday, Rows
  <1> HIDE DEF z
  <1>7. x \in Rows
    <2>1. /\ y.job \in Jobs /\ y.today \in BOOLEAN /\ y.left \in 0..MaxWork /\ y.stats \in Nat
          /\ c \in [today : BOOLEAN, spent : Nat]
      BY <1>2, <1>6 DEF Rows
    <2>2. (IF last THEN y.left - 1 ELSE y.left) \in 0..MaxWork
      BY <1>1, <2>1, BudgetAssumption
    <2>3. (IF last THEN y.stats + 1 ELSE y.stats) \in Nat
      BY <2>1
    <2> HIDE DEF c
    <2> QED BY <2>1, <2>2, <2>3 DEF Rows
  <1>8. plain' => plain /\ (\A k \in Runs : On(run[k]) => k = r) /\ Plainly(y, calls)
    BY <1>1 DEF DayInv, On
  <1>9. plain' => calls' = calls + 1 /\ x.stats = y.stats + 1
    BY <1>1
  <1>10. /\ x.state = "working" /\ x.job = y.job /\ x.today = y.today /\ x.client.today
         /\ x.client.spent = SpentToday(r) + 1
    OBVIOUS
  <1>11. y.stats \in Nat /\ y.client.spent \in Nat /\ calls' \in Nat /\ plain' \in BOOLEAN
    BY <1>1, <1>2 DEF Rows
  <1> HIDE DEF x
  <1>12. plain' => Plainly(x, calls')
    BY <1>1, <1>2, <1>6, <1>8, <1>9, <1>10, <1>11 DEF Plainly
  <1>13. plain' => calls' + y.stats <= calls + x.stats
    BY <1>2, <1>9, <1>11
  <1> HIDE DEF y
  <1> QED BY <1>5, <1>7, <1>8, <1>11, <1>12, <1>13, RowStep DEF y

\* A run that ends writes what it counted.
LEMMA BudgetRow ==
    ASSUME DayInv, NEW r \in Runs, NEW n \in Nat, run[r].state = "working",
           run' = [run EXCEPT ![r] = Row(r, "ended", n)],
           calls' \in Nat, plain' \in BOOLEAN,
           plain' => plain /\ calls' + run[r].stats <= calls + n
    PROVE  DayInv'
  <1> DEFINE y == run[r]
             x == [state |-> "ended", job |-> y.job, today |-> y.today, left |-> 0,
                   stats |-> n, client |-> Client]
  <1>1. y \in Rows
    BY DEF DayInv
  <1>2. Row(r, "ended", n) = x
    <2> DEFINE z == Row(r, "ended", n)
    <2>1. z = [f \in DOMAIN y |->
                 IF f = "state" THEN "ended" ELSE IF f = "left" THEN 0
                 ELSE IF f = "stats" THEN n ELSE IF f = "client" THEN Client
                 ELSE y[f]]
      BY DEF Row
    <2>2. DOMAIN y = {"state", "job", "today", "left", "stats", "client"}
      BY <1>1 DEF Rows
    <2> HIDE DEF z, y
    <2>3. z = x
      BY <2>1, <2>2
    <2> QED BY <2>3 DEF z
  <1>3. x \in Rows
    BY <1>1, BudgetAssumption DEF Rows, Client
  <1>4. plain' => Plainly(x, calls') /\ x.stats = n
    BY DEF DayInv, Plainly
  <1>5. plain' => \A k \in Runs : On(run[k]) => k = r
    BY DEF DayInv, On
  <1> HIDE DEF x
  <1> QED BY <1>2, <1>3, <1>4, <1>5, RowStep

LEMMA BudgetEnd ==
    ASSUME DayInv, NEW r \in Runs, End(r) \/ CallFails(r)
    PROVE  DayInv'
  <1>1. run[r].stats \in Nat /\ calls \in Nat /\ plain \in BOOLEAN
    BY DEF DayInv, Rows
  <1>2. run[r].state = "working"
    BY DEF End, CallFails, Refused, Working
  <1>3. CASE CallFails(r)
    <2> DEFINE m == run[r].stats + (IF run[r].job = Checks THEN 1 ELSE 0)
    <2>1. /\ run' = [run EXCEPT ![r] = Row(r, "ended", m)]
          /\ calls' = calls + 1 /\ plain' = (plain /\ run[r].job = Checks)
      BY <1>3 DEF CallFails
    <2>2. m \in Nat /\ (run[r].job = Checks => m = run[r].stats + 1)
      BY <1>1
    <2> HIDE DEF m
    <2>5. plain' \in BOOLEAN /\ (plain' => plain /\ run[r].job = Checks)
      BY <2>1, Zenon
    <2>3. calls' \in Nat
      BY <1>1, <2>1
    <2>4. plain' => calls' + run[r].stats <= calls + m
      BY <1>1, <2>1, <2>2, <2>5
    <2> QED BY <1>2, <2>1, <2>2, <2>3, <2>4, <2>5, BudgetRow
  <1>4. CASE End(r)
    <2> DEFINE m == Counted(r)
    <2>1. /\ run' = [run EXCEPT ![r] = Row(r, "ended", m)]
          /\ calls' = calls /\ plain' = plain
      BY <1>4 DEF End
    <2>2. m \in Nat /\ run[r].stats <= m
      BY <1>1 DEF Counted
    <2> HIDE DEF m
    <2>3. plain' => calls' + run[r].stats <= calls + m
      BY <1>1, <2>1, <2>2
    <2> QED BY <1>1, <1>2, <2>1, <2>2, <2>3, BudgetRow
  <1> QED BY <1>3, <1>4

\* Days that are not plain, and midnight.
LEMMA BudgetCrash == ASSUME DayInv, Crash PROVE DayInv'
  <1>1. ASSUME NEW r \in Runs PROVE Row(r, "lost", 0) \in Rows
    <2> DEFINE y == run[r]
               z == Row(r, "lost", 0)
    <2>1. y \in Rows
      BY DEF DayInv
    <2>2. z = [f \in DOMAIN y |->
                 IF f = "state" THEN "lost" ELSE IF f = "left" THEN 0
                 ELSE IF f = "stats" THEN 0 ELSE IF f = "client" THEN Client
                 ELSE y[f]]
      BY DEF Row
    <2>3. DOMAIN y = {"state", "job", "today", "left", "stats", "client"}
      BY <2>1 DEF Rows
    <2> HIDE DEF z, y
    <2>4. z = [state |-> "lost", job |-> y.job, today |-> y.today, left |-> 0, stats |-> 0,
               client |-> Client]
      BY <2>2, <2>3
    <2>5. z \in Rows
      BY <2>1, <2>4, BudgetAssumption DEF Rows, Client
    <2> QED BY <2>5 DEF z
  <1>2. run' \in [Runs -> Rows] /\ ~plain' /\ calls' = calls /\ plain' \in BOOLEAN
    BY <1>1 DEF Crash, DayInv
  <1> QED BY <1>2 DEF DayInv

LEMMA BudgetMidnight == ASSUME DayInv, Midnight PROVE DayInv'
  <1>1. ASSUME NEW r \in Runs PROVE [run[r] EXCEPT !.today = FALSE, !.client.today = FALSE] \in Rows
    <2>1. run[r] \in Rows
      BY DEF DayInv
    <2> QED BY <2>1 DEF Rows
  <1>2. run' \in [Runs -> Rows] /\ calls' = 0 /\ plain' \in BOOLEAN
    BY <1>1, FreshRow DEF Midnight
  <1>3. plain' => \A r \in Runs : run'[r] = Fresh
    BY DEF Midnight
  <1>4. Sum(Stats', Runs) \in Nat
    <2> DEFINE u == Stats'
    <2>1. \A r \in Runs : u[r] \in Nat
      BY <1>2 DEF Stats, Rows
    <2> HIDE DEF u
    <2>2. Sum(u, Runs) \in Nat
      BY <2>1, SumNat, BudgetAssumption
    <2> QED BY <2>2 DEF u
  <1> QED BY <1>2, <1>3, <1>4, FreshRow DEF DayInv

LEMMA DayInvStep == DayInv /\ [BudgetNext]_budgetVars => DayInv'
  <1> SUFFICES ASSUME DayInv, [BudgetNext]_budgetVars PROVE DayInv'
    OBVIOUS
  <1>1. CASE UNCHANGED budgetVars
    <2>1. run' = run /\ calls' = calls /\ plain' = plain
      BY <1>1 DEF budgetVars
    <2>2. Stats' = Stats
      BY <2>1 DEF Stats
    <2> QED BY <2>1, <2>2 DEF DayInv
  <1>2. CASE BudgetNext
    BY <1>2, BudgetEnd, BudgetBegin, BudgetPlan, BudgetCall, BudgetCrash, BudgetMidnight
    DEF BudgetNext
  <1> QED BY <1>1, <1>2

\* A search that asks eBay on a plain day is within the budget, by whichever jobs it was spent.
LEMMA WithinBudget ==
    ASSUME DayInv, BudgetNext, plain, NEW r \in Runs, run[r].job # Checks,
           calls' > calls, run'[r] # run[r]
    PROVE  calls < Budget
  <1>1. calls \in Nat /\ run \in [Runs -> Rows]
    BY ZenonT(60) DEF DayInv
  <1>2. PICK q \in Runs : \/ CallFails(q)
                          \/ \E last, repeated \in BOOLEAN : Call(q, last, repeated)
    <2>1. calls' # calls /\ ~(calls' = 0)
      BY <1>1
    <2> QED BY <2>1, ZenonT(40) DEF BudgetNext, End, BeginRun, Plan, Crash, Midnight
  <1>3. Working(q) /\ Affordable(q) /\ q = r
    <2>1. Working(q) /\ Affordable(q)
      BY <1>2 DEF Call, CallFails
    <2>2. q # r => run'[r] = run[r]
      BY <1>1, <1>2 DEF Call, CallFails
    <2> QED BY <2>1, <2>2
  <1>4. run[r].state = "working" /\ SpentToday(r) < Budget
    BY <1>3 DEF Working, Affordable
  <1>5. run[r].client.today /\ calls <= run[r].client.spent
    BY <1>4 DEF DayInv, Plainly
  <1>6. run[r].client.spent < Budget /\ run[r].client.spent \in Nat
    BY <1>1, <1>4, <1>5 DEF SpentToday, Rows
  <1> QED BY <1>1, <1>5, <1>6, BudgetAssumption

\* On a day whose runs followed one another, none lost, failed in a search or on at midnight,
\* and whose searches had one page each, no search asks eBay once the budget is spent
\* (_ebay_calls_today, _spend_budget), for any jobs, runs, work and budget.
THEOREM WithinADay == BudgetSpec => BudgetKept
  <1> DEFINE Within == \A r \in Runs : run[r].job # Checks /\ calls' > calls
                                     /\ run'[r] # run[r] /\ plain => calls < Budget
  <1>1. DayInv /\ [BudgetNext]_budgetVars => [Within]_budgetVars
    BY WithinBudget
  <1> QED BY <1>1, DayInvInit, DayInvStep, PTL DEF BudgetSpec, BudgetKept

\* Rows, their statistics and what a client is charged with stay counts, over crashes and
\* midnights, whatever of the day's rows is added up (_ebay_calls_today).
THEOREM RowsTyped == BudgetSpec => []BudgetTypeOK
  <1>1. DayInv => BudgetTypeOK
    BY Zenon DEF DayInv, Rows, BudgetTypeOK
  <1> QED BY <1>1, DayInvInit, DayInvStep, PTL DEF BudgetSpec

-----------------------------------------------------------------------------
(* The open-web reader.                                                     *)

\* A search in progress.
Searching(x) ==
    /\ x = [phase |-> x.phase, coin |-> x.coin, left |-> x.left, refused |-> x.refused,
            minted |-> x.minted, barred |-> x.barred, pages |-> x.pages, new |-> x.new,
            at |-> x.at, alone |-> x.alone]
    /\ x.phase \in {"reading", "stored"} /\ x.alone \in BOOLEAN
    /\ x.phase = "reading" => x.new = {}

\* A search that no other overlapped waits for nobody, and what it is to insert is not there.
Quiet(s) ==
    session[s].alone =>
       /\ \A k \in Sessions \ {s} : session[k] = Idle
       /\ session[s].at = {} /\ session[s].new \cap rows = {}

WebInv ==
    /\ session = [s \in Sessions |-> session[s]]
    /\ \A s \in Sessions :
          session[s] # Idle => Searching(session[s]) /\ Quiet(s)

LEMMA WebInvInit == WebInit => WebInv
  BY DEF WebInit, WebInv

\* What the steps of a search make of it.
LEMMA AfterPage ==
    ASSUME NEW y, Searching(y), NEW left, NEW minted, NEW barred, NEW pages
    PROVE  [y EXCEPT !.left = left, !.at = {}, !.minted = minted, !.barred = barred,
                     !.pages = pages] =
           [phase |-> y.phase, coin |-> y.coin, left |-> left, refused |-> y.refused,
            minted |-> minted, barred |-> barred, pages |-> pages, new |-> y.new,
            at |-> {}, alone |-> y.alone]
  <1> DEFINE p == y.phase  c == y.coin  r == y.refused  n == y.new  b == y.alone
             l == y.left  m == y.minted  d == y.barred  g == y.pages  t == y.at
  <1>1. y = [phase |-> p, coin |-> c, left |-> l, refused |-> r, minted |-> m,
             barred |-> d, pages |-> g, new |-> n, at |-> t, alone |-> b]
    BY DEF Searching
  <1> HIDE DEF p, c, r, n, b, l, m, d, g, t
  <1>2. [y EXCEPT !.left = left, !.at = {}, !.minted = minted, !.barred = barred,
                  !.pages = pages] =
        [phase |-> p, coin |-> c, left |-> left, refused |-> r, minted |-> minted,
         barred |-> barred, pages |-> pages, new |-> n, at |-> {}, alone |-> b]
    <2> DEFINE x == [y EXCEPT !.left = left, !.at = {}, !.minted = minted,
                              !.barred = barred, !.pages = pages]
    <2>1. x = [f \in DOMAIN y |->
                 IF f = "left" THEN left ELSE IF f = "at" THEN {}
                 ELSE IF f = "minted" THEN minted ELSE IF f = "barred" THEN barred
                 ELSE IF f = "pages" THEN pages ELSE y[f]]
      BY <1>1
    <2>2. DOMAIN y = {"phase", "coin", "left", "refused", "minted", "barred", "pages", "new",
                      "at", "alone"}
      BY <1>1
    <2> HIDE DEF x
    <2>3. x = [phase |-> p, coin |-> c, left |-> left, refused |-> r, minted |-> minted,
               barred |-> barred, pages |-> pages, new |-> n, at |-> {}, alone |-> b]
      BY <1>1, <2>1, <2>2
    <2> QED BY <2>3 DEF x
  <1> QED BY <1>2 DEF p, c, r, n, b

LEMMA AfterIngest ==
    ASSUME NEW y, Searching(y), NEW phase, NEW new
    PROVE  [y EXCEPT !.phase = phase, !.new = new] =
           [phase |-> phase, coin |-> y.coin, left |-> y.left, refused |-> y.refused,
            minted |-> y.minted, barred |-> y.barred, pages |-> y.pages, new |-> new,
            at |-> y.at, alone |-> y.alone]
  <1> DEFINE p == y.phase  c == y.coin  r == y.refused  n == y.new  b == y.alone
             l == y.left  m == y.minted  d == y.barred  g == y.pages  t == y.at
  <1>1. y = [phase |-> p, coin |-> c, left |-> l, refused |-> r, minted |-> m,
             barred |-> d, pages |-> g, new |-> n, at |-> t, alone |-> b]
    BY DEF Searching
  <1> HIDE DEF p, c, r, n, b, l, m, d, g, t
  <1>2. [y EXCEPT !.phase = phase, !.new = new] =
        [phase |-> phase, coin |-> c, left |-> l, refused |-> r, minted |-> m,
         barred |-> d, pages |-> g, new |-> new, at |-> t, alone |-> b]
    <2> DEFINE x == [y EXCEPT !.phase = phase, !.new = new]
    <2>1. x = [f \in DOMAIN y |->
                 IF f = "phase" THEN phase ELSE IF f = "new" THEN new ELSE y[f]]
      BY <1>1
    <2>2. DOMAIN y = {"phase", "coin", "left", "refused", "minted", "barred", "pages", "new",
                      "at", "alone"}
      BY <1>1
    <2> HIDE DEF x
    <2>3. x = [phase |-> phase, coin |-> c, left |-> l, refused |-> r, minted |-> m,
               barred |-> d, pages |-> g, new |-> new, at |-> t, alone |-> b]
      BY <1>1, <2>1, <2>2
    <2> QED BY <2>3 DEF x
  <1> QED BY <1>2 DEF c, l, r, m, d, g, t, b

LEMMA AfterField ==
    ASSUME NEW y, Searching(y), NEW at, NEW alone
    PROVE  /\ [y EXCEPT !.at = at] =
              [phase |-> y.phase, coin |-> y.coin, left |-> y.left, refused |-> y.refused,
               minted |-> y.minted, barred |-> y.barred, pages |-> y.pages, new |-> y.new,
               at |-> at, alone |-> y.alone]
           /\ [y EXCEPT !.alone = alone] =
              [phase |-> y.phase, coin |-> y.coin, left |-> y.left, refused |-> y.refused,
               minted |-> y.minted, barred |-> y.barred, pages |-> y.pages, new |-> y.new,
               at |-> y.at, alone |-> alone]
  <1> DEFINE p == y.phase  c == y.coin  r == y.refused  n == y.new  b == y.alone
             l == y.left  m == y.minted  d == y.barred  g == y.pages  t == y.at
  <1>1. y = [phase |-> p, coin |-> c, left |-> l, refused |-> r, minted |-> m,
             barred |-> d, pages |-> g, new |-> n, at |-> t, alone |-> b]
    BY DEF Searching
  <1> HIDE DEF p, c, r, n, b, l, m, d, g, t
  <1>2. DOMAIN y = {"phase", "coin", "left", "refused", "minted", "barred", "pages", "new",
                    "at", "alone"}
    BY <1>1
  <1>3. [y EXCEPT !.at = at] =
        [phase |-> p, coin |-> c, left |-> l, refused |-> r, minted |-> m,
         barred |-> d, pages |-> g, new |-> n, at |-> at, alone |-> b]
    <2> DEFINE x == [y EXCEPT !.at = at]
    <2>1. x = [f \in DOMAIN y |-> IF f = "at" THEN at ELSE y[f]]
      BY <1>1
    <2> HIDE DEF x
    <2>2. x = [phase |-> p, coin |-> c, left |-> l, refused |-> r, minted |-> m,
               barred |-> d, pages |-> g, new |-> n, at |-> at, alone |-> b]
      BY <1>1, <1>2, <2>1
    <2> QED BY <2>2 DEF x
  <1>4. [y EXCEPT !.alone = alone] =
        [phase |-> p, coin |-> c, left |-> l, refused |-> r, minted |-> m,
         barred |-> d, pages |-> g, new |-> n, at |-> t, alone |-> alone]
    <2> DEFINE x == [y EXCEPT !.alone = alone]
    <2>1. x = [f \in DOMAIN y |-> IF f = "alone" THEN alone ELSE y[f]]
      BY <1>1
    <2> HIDE DEF x
    <2>2. x = [phase |-> p, coin |-> c, left |-> l, refused |-> r, minted |-> m,
               barred |-> d, pages |-> g, new |-> n, at |-> t, alone |-> alone]
      BY <1>1, <1>2, <2>1
    <2> QED BY <2>2 DEF x
  <1> QED BY <1>3, <1>4 DEF p, c, r, n, b, l, m, d, g, t

\* A search that begins.
LEMMA BeginStep ==
    ASSUME WebInv, NEW s \in Sessions, NEW c, NEW left, NEW refused,
           Begin(s, c, left, refused), rows' = rows
    PROVE  WebInv'
  <1> DEFINE x == Search(c, left, refused, Busy = {})
  <1>1. session' = [k \in Sessions |->
                       IF k = s THEN x ELSE IF session[k] = Idle THEN Idle
                       ELSE [session[k] EXCEPT !.alone = FALSE]]
    BY DEF Begin
  <1>2. x = [phase |-> "reading", coin |-> c, left |-> left, refused |-> refused,
             minted |-> {}, barred |-> {}, pages |-> {}, new |-> {}, at |-> {},
             alone |-> (Busy = {})]
    BY DEF Search
  <1> HIDE DEF x
  <1>3. Searching(x) /\ x.at = {} /\ x.new = {} /\ (x.alone <=> Busy = {})
    BY <1>2 DEF Searching
  <1>4. ASSUME NEW k \in Sessions, session'[k] # Idle
        PROVE  Searching(session'[k]) /\ Quiet(k)'
    <2>1. CASE k = s
      <3>1. session'[k] = x
        BY <1>1, <2>1
      <3>2. x.alone => \A l \in Sessions \ {k} : session'[l] = Idle
        BY <1>1, <1>3, <2>1 DEF Busy
      <3> QED BY <1>3, <3>1, <3>2 DEF Quiet, Sessions, Idle
    <2>2. CASE k # s
      <3>1. session[k] # Idle /\ session'[k] = [session[k] EXCEPT !.alone = FALSE]
        BY <1>1, <1>4, <2>2
      <3>2. Searching(session[k])
        BY <3>1 DEF WebInv
      <3> DEFINE y == session[k]
                 z == session'[k]
      <3>4. z = [y EXCEPT !.alone = FALSE] /\ Searching(y)
        BY <3>1, <3>2
      <3>5. (y.phase = "reading" => y.new = {}) /\ y.phase \in {"reading", "stored"}
        BY <3>2 DEF Searching
      <3> HIDE DEF z, y
      <3>6. z = [phase |-> y.phase, coin |-> y.coin, left |-> y.left, refused |-> y.refused,
                 minted |-> y.minted, barred |-> y.barred, pages |-> y.pages,
                 new |-> y.new, at |-> y.at, alone |-> FALSE]
        BY <3>4, AfterField
      <3>7. Searching(z) /\ ~z.alone
        BY <3>5, <3>6 DEF Searching
      <3>3. Searching(session'[k]) /\ ~session'[k].alone
        BY <3>7 DEF z
      <3> QED BY <3>3 DEF Quiet
    <2> QED BY <2>1, <2>2
  <1> QED BY <1>1, <1>4 DEF WebInv, Sessions, Idle

\* A search that goes on.
LEMMA OnStep ==
    ASSUME WebInv, NEW s \in Sessions, session[s] # Idle, rows' = rows,
           NEW x, session' = [session EXCEPT ![s] = x], x # Idle, Searching(x),
           x.alone = session[s].alone,
           session[s].alone => x.at = {} /\ x.new \cap rows = {}
    PROVE  WebInv'
  <1>1. /\ session' = [k \in Sessions |-> session'[k]] /\ session'[s] = x
        /\ \A k \in Sessions \ {s} : session'[k] = session[k]
    BY DEF WebInv
  <1>2. ASSUME NEW k \in Sessions, session'[k] # Idle
        PROVE  Searching(session'[k]) /\ Quiet(k)'
    <2>1. CASE k = s
      BY <1>1, <2>1 DEF WebInv, Quiet, Sessions, Idle
    <2>2. CASE k # s
      <3>1. session'[k] = session[k] /\ Searching(session[k]) /\ Quiet(k)
        BY <1>1, <1>2, <2>2 DEF WebInv
      <3>2. ~session[k].alone
        BY <2>2, <3>1 DEF Quiet
      <3> QED BY <3>1, <3>2 DEF Quiet
    <2> QED BY <2>1, <2>2
  <1> QED BY <1>1, <1>2 DEF WebInv, Sessions, Idle

\* A search that ends, and what comes with it.
LEMMA EndStep ==
    ASSUME WebInv, NEW s \in Sessions, session[s] # Idle,
           session' = [session EXCEPT ![s] = Idle]
    PROVE  WebInv'
  <1>1. /\ session' = [k \in Sessions |-> session'[k]] /\ session'[s] = Idle
        /\ \A k \in Sessions \ {s} : session'[k] = session[k]
    BY DEF WebInv
  <1>2. ASSUME NEW k \in Sessions, session'[k] # Idle
        PROVE  Searching(session'[k]) /\ Quiet(k)'
    <2>1. k # s /\ session'[k] = session[k] /\ Searching(session[k]) /\ Quiet(k)
      BY <1>1, <1>2 DEF WebInv
    <2>2. ~session[k].alone
      BY <2>1 DEF Quiet
    <2> QED BY <2>1, <2>2 DEF Quiet
  <1> QED BY <1>1, <1>2 DEF WebInv, Sessions, Idle

LEMMA WaitStep ==
    ASSUME WebInv, NEW s \in Sessions, NEW h \in Hosts, Wait(s, h)
    PROVE  WebInv'
  <1>1. /\ session[s].phase = "reading" /\ Minting(s, h) /\ rows' = rows
        /\ session' = [session EXCEPT ![s].at = {h}]
    BY DEF Wait
  <1>2. session[s] # Idle
    BY <1>1 DEF Idle
  <1>3. Searching(session[s]) /\ Quiet(s)
    BY <1>2 DEF WebInv
  <1> DEFINE y == session[s]
             x == [session[s] EXCEPT !.at = {h}]
  <1>4. Searching(x) /\ x.phase = "reading" /\ x.alone = session[s].alone
    <2>1. x = [y EXCEPT !.at = {h}] /\ Searching(y)
      BY <1>3
    <2>2. y.phase = "reading" /\ y.new = {} /\ y.alone \in BOOLEAN
      BY <1>1, <1>3 DEF Searching
    <2> HIDE DEF x, y
    <2>3. x = [phase |-> y.phase, coin |-> y.coin, left |-> y.left, refused |-> y.refused,
               minted |-> y.minted, barred |-> y.barred, pages |-> y.pages, new |-> y.new,
               at |-> {h}, alone |-> y.alone]
      BY <2>1, AfterField
    <2>4. Searching(x) /\ x.phase = "reading" /\ x.alone = y.alone
      BY <2>2, <2>3 DEF Searching
    <2> QED BY <2>4 DEF y
  <1>5. session' = [session EXCEPT ![s] = x]
    BY <1>1
  <1>6. ~session[s].alone
    BY <1>1, <1>3 DEF Quiet, Minting
  <1>7. x # Idle
    BY <1>4 DEF Idle
  <1> HIDE DEF x
  <1> QED BY <1>1, <1>2, <1>4, <1>5, <1>6, <1>7, OnStep

LEMMA ReadStep ==
    ASSUME WebInv, NEW s \in Sessions, NEW h \in Hosts, NEW a, Read(s, h, a)
    PROVE  WebInv'
  <1> DEFINE y == session[s]
             minted == IF site[h].known THEN y.minted ELSE y.minted \cup {h}
             barred == IF a = "refused" THEN y.barred \cup {h} ELSE y.barred
             pages == IF a \in Kinds THEN y.pages \cup {<<y.coin, h, a>>} ELSE y.pages
             x == [y EXCEPT !.left = y.left \ {h}, !.at = {}, !.minted = minted,
                            !.barred = barred, !.pages = pages]
  <1>1. y.phase = "reading" /\ rows' = rows
    BY DEF Read, Reached
  <1>2. session[s] # Idle
    BY <1>1 DEF Idle
  <1>3. Searching(y) /\ Quiet(s) /\ session = [k \in Sessions |-> session[k]]
    BY <1>2 DEF WebInv
  <1>4. session' = [session EXCEPT ![s] = x]
    <2>1. session' = [session EXCEPT
             ![s].left = @ \ {h}, ![s].at = {},
             ![s].minted = IF site[h].known THEN @ ELSE @ \cup {h},
             ![s].barred = IF a = "refused" THEN @ \cup {h} ELSE @,
             ![s].pages = IF a \in Kinds THEN @ \cup {<<session[s].coin, h, a>>} ELSE @]
      BY DEF Read
    <2> QED BY <1>3, <2>1 DEF Searching
  <1>5. Searching(x) /\ x.phase = "reading" /\ x.alone = y.alone /\ x.at = {} /\ x.new = {}
    <2> HIDE DEF y, minted, barred, pages
    <2>1. x = [phase |-> y.phase, coin |-> y.coin, left |-> y.left \ {h},
               refused |-> y.refused, minted |-> minted, barred |-> barred,
               pages |-> pages, new |-> y.new, at |-> {}, alone |-> y.alone]
      <3>1. \A left, m, b, g :
               [y EXCEPT !.left = left, !.at = {}, !.minted = m, !.barred = b, !.pages = g] =
               [phase |-> y.phase, coin |-> y.coin, left |-> left,
                refused |-> y.refused, minted |-> m, barred |-> b,
                pages |-> g, new |-> y.new, at |-> {}, alone |-> y.alone]
        BY <1>3, AfterPage
      <3> DEFINE F(left, m, b, g) ==
                   [y EXCEPT !.left = left, !.at = {}, !.minted = m, !.barred = b, !.pages = g]
                 G(left, m, b, g) ==
                   [phase |-> y.phase, coin |-> y.coin, left |-> left,
                    refused |-> y.refused, minted |-> m, barred |-> b,
                    pages |-> g, new |-> y.new, at |-> {}, alone |-> y.alone]
      <3>2. \A left, m, b, g : F(left, m, b, g) = G(left, m, b, g)
        BY <3>1
      <3>3. x = F(y.left \ {h}, minted, barred, pages)
        OBVIOUS
      <3>4. F(y.left \ {h}, minted, barred, pages) = G(y.left \ {h}, minted, barred, pages)
        <4> HIDE DEF F, G
        <4> QED BY <3>2
      <3> QED BY <3>3, <3>4
    <2>2. y.phase = "reading" /\ y.alone \in BOOLEAN /\ y.new = {}
      BY <1>1, <1>3 DEF Searching
    <2> HIDE DEF x
    <2> QED BY <2>1, <2>2 DEF Searching
  <1>6. x # Idle
    BY <1>5 DEF Idle
  <1> HIDE DEF x
  <1> QED BY <1>1, <1>2, <1>4, <1>5, <1>6, OnStep

LEMMA IngestStep ==
    ASSUME WebInv, NEW s \in Sessions, Ingest(s)
    PROVE  WebInv'
  <1> DEFINE y == session[s]
             new == { p \in y.pages : ~Stored(p) }
             x == [y EXCEPT !.phase = "stored", !.new = new]
  <1>1. y.phase = "reading" /\ rows' = rows
    BY DEF Ingest
  <1>2. session[s] # Idle
    BY <1>1 DEF Idle
  <1>3. Searching(y) /\ Quiet(s) /\ session = [k \in Sessions |-> session[k]]
    BY <1>2 DEF WebInv
  <1>4. session' = [session EXCEPT ![s] = x]
    BY <1>3 DEF Ingest, Searching
  <1>5. new \cap rows = {}
    BY DEF Stored
  <1> HIDE DEF new
  <1>6. Searching(x) /\ x.phase = "stored" /\ x.alone = y.alone /\ x.at = y.at /\ x.new = new
    <2> HIDE DEF y
    <2>1. x = [phase |-> "stored", coin |-> y.coin, left |-> y.left, refused |-> y.refused,
               minted |-> y.minted, barred |-> y.barred, pages |-> y.pages, new |-> new,
               at |-> y.at, alone |-> y.alone]
      BY <1>3, AfterIngest
    <2>2. y.alone \in BOOLEAN
      BY <1>3 DEF Searching
    <2> HIDE DEF x
    <2> QED BY <2>1, <2>2 DEF Searching
  <1>7. x # Idle
    BY <1>6 DEF Idle
  <1>8. y.alone => x.at = {} /\ x.new \cap rows = {}
    BY <1>3, <1>5, <1>6 DEF Quiet
  <1> HIDE DEF x
  <1> QED BY <1>1, <1>2, <1>4, <1>6, <1>7, <1>8, OnStep

LEMMA WebInvStep == WebInv /\ [WebNext]_webVars => WebInv'
  <1> SUFFICES ASSUME WebInv, [WebNext]_webVars PROVE WebInv'
    OBVIOUS
  <1>0. Job \in Sessions /\ \A s \in Visitors : s \in Sessions
    BY DEF Sessions
  <1>1. ASSUME NEW s \in Sessions, Step(s) PROVE WebInv'
    BY <1>1, WaitStep, ReadStep, IngestStep DEF Step
  <1>2. ASSUME NEW s \in Sessions, Commit(s) \/ Fail(s) \/ Break(s) PROVE WebInv'
    <2>1. session' = [session EXCEPT ![s] = Idle]
      BY <1>2 DEF Commit, Fail, Break
    <2>2. session[s] # Idle
      BY <1>2 DEF Commit, Fail, Break, Idle
    <2> QED BY <2>1, <2>2, EndStep
  <1>3. ASSUME NEW left, NEW refused, ReadCoin(left, refused) PROVE WebInv'
    BY <1>0, <1>3, BeginStep DEF ReadCoin
  <1>4. ASSUME NEW s \in Visitors, NEW c, NEW left, AskNow(s, c, left) PROVE WebInv'
    BY <1>0, <1>4, BeginStep DEF AskNow
  <1>5. CASE Restart
    BY <1>5 DEF Restart, WebInv, Sessions, Idle
  <1>6. CASE UNCHANGED <<session, rows>>
    BY <1>6 DEF WebInv, Quiet, Sessions, Idle
  <1>7. \/ \E s \in Sessions : Step(s) \/ Commit(s) \/ Fail(s) \/ Break(s)
        \/ \E left \in SUBSET Hosts, refused \in BOOLEAN : ReadCoin(left, refused)
        \/ \E s \in Visitors, c \in Coins, left \in SUBSET Hosts : AskNow(s, c, left)
        \/ Restart
        \/ UNCHANGED <<session, rows>>
    <2>1. CASE JobStep
      BY <1>0, <2>1 DEF JobStep, CommitCoin, FailReading, StartReading, EndRun
    <2>2. ASSUME NEW s \in Visitors, Step(s) \/ Answer(s) \/ Turn(s)
          PROVE  \E k \in Sessions : Step(k) \/ Commit(k) \/ Fail(k) \/ Break(k)
      BY <1>0, <2>2 DEF Answer, Turn
    <2>3. ASSUME \/ \E h \in Hosts : Switch(h) \/ Resume(h)
                 \/ \E c \in Coins : Fade(c)
                 \/ UNCHANGED webVars
          PROVE  UNCHANGED <<session, rows>>
      BY <2>3 DEF Switch, Resume, Fade, webVars
    <2> QED BY <2>1, <2>2, <2>3 DEF WebNext
  <1> QED BY <1>1, <1>2, <1>3, <1>4, <1>5, <1>6, <1>7

\* A search fails only against another: no unique key stops one that no other overlapped,
\* whatever was stored before and however hosts answer (search_coin, ingest_listings).
THEOREM AloneStores == WebSpec => AloneAnswers
  <1> DEFINE Stores == \A s \in Sessions : Fail(s) => ~session[s].alone
  <1>1. WebInv /\ [WebNext]_webVars => [Stores]_webVars
    <2> SUFFICES ASSUME WebInv, NEW s \in Sessions, Fail(s), session[s].alone
                 PROVE  FALSE
      OBVIOUS
    <2>1. session[s] # Idle /\ Collides(s)
      BY DEF Fail
    <2>2. Quiet(s)
      BY <2>1 DEF WebInv
    <2> QED BY <2>1, <2>2 DEF Quiet, Collides
  <1> QED BY <1>1, WebInvInit, WebInvStep, PTL DEF WebSpec, AloneAnswers

-----------------------------------------------------------------------------
(* What a mintage says: the largest, the smallest and the k-th of values.    *)

Measured(S, value) == \A s \in S : value[s] \in Int
UpTo(S, value, v) == { s \in S : value[s] <= v }
Below(S, value, v) == { s \in S : value[s] < v }

\* Of the elements of a finite set one has the least value.
LEMMA LeastValue ==
    ASSUME NEW S, IsFiniteSet(S), S # {}, NEW value, Measured(S, value)
    PROVE  \E s \in S : \A t \in S : value[s] <= value[t]
  <1> DEFINE B == { UpTo(S, value, value[s]) : s \in S }
  <1>1. B \subseteq SUBSET S /\ B # {}
    <2>1. \A s \in S : UpTo(S, value, value[s]) \subseteq S
      BY DEF UpTo
    <2>2. PICK s : s \in S
      OBVIOUS
    <2>3. UpTo(S, value, value[s]) \in B
      BY <2>2
    <2> QED BY <2>1, <2>3
  <1>2. PICK T \in B : \A V \in B : V \subseteq T => V = T
    <2> HIDE DEF B
    <2> QED BY <1>1, Smallest
  <1>3. PICK s \in S : T = UpTo(S, value, value[s])
    OBVIOUS
  <1>4. ASSUME NEW t \in S, ~(value[s] <= value[t]) PROVE FALSE
    <2>1. value[s] \in Int /\ value[t] \in Int /\ value[t] < value[s]
      BY <1>4 DEF Measured
    <2>2. UpTo(S, value, value[t]) \subseteq T
      <3> SUFFICES ASSUME NEW r \in S, value[r] <= value[t] PROVE value[r] <= value[s]
        BY <1>3 DEF UpTo
      <3>1. value[r] \in Int
        BY DEF Measured
      <3> QED BY <2>1, <3>1
    <2>3. UpTo(S, value, value[t]) \in B
      OBVIOUS
    <2>4. UpTo(S, value, value[t]) = T
      <3> HIDE DEF B
      <3> QED BY <1>2, <2>2, <2>3
    <2>5. s \in T
      BY <1>3, <2>1 DEF UpTo
    <2>6. value[s] <= value[t]
      BY <2>4, <2>5 DEF UpTo
    <2> QED BY <1>4, <2>6
  <1> QED BY <1>4

\* ... and one has the greatest.
LEMMA GreatestValue ==
    ASSUME NEW S, IsFiniteSet(S), S # {}, NEW value, Measured(S, value)
    PROVE  \E s \in S : \A t \in S : value[t] <= value[s]
  <1> DEFINE minus == [s \in S |-> 0 - value[s]]
  <1>1. \A s \in S : value[s] \in Int /\ minus[s] \in Int /\ minus[s] = 0 - value[s]
    BY DEF Measured
  <1> HIDE DEF minus
  <1>2. PICK s \in S : \A t \in S : minus[s] <= minus[t]
    <2>1. Measured(S, minus)
      BY <1>1 DEF Measured
    <2> QED BY <2>1, LeastValue
  <1>3. ASSUME NEW t \in S PROVE value[t] <= value[s]
    <2>1. minus[s] <= minus[t]
      BY <1>2
    <2> QED BY <1>1, <2>1
  <1> QED BY <1>3

LEMMA PartsFinite ==
    ASSUME NEW S, IsFiniteSet(S), NEW value, NEW v
    PROVE  /\ IsFiniteSet(UpTo(S, value, v)) /\ Cardinality(UpTo(S, value, v)) \in Nat
           /\ IsFiniteSet(Below(S, value, v)) /\ Cardinality(Below(S, value, v)) \in Nat
           /\ UpTo(S, value, v) \subseteq S /\ Below(S, value, v) \subseteq S
  <1>1. UpTo(S, value, v) \subseteq S /\ Below(S, value, v) \subseteq S
    BY DEF UpTo, Below
  <1>2. IsFiniteSet(UpTo(S, value, v)) /\ IsFiniteSet(Below(S, value, v))
    BY <1>1, FS_Subset
  <1> QED BY <1>1, <1>2, FS_CardinalityType

\* v is the k-th of the values.
IsRanked(S, value, k, v) ==
    /\ v \in { value[s] : s \in S }
    /\ Cardinality(Below(S, value, v)) <= k
    /\ k < Cardinality(UpTo(S, value, v))

LEMMA SomeRanked ==
    ASSUME NEW S, IsFiniteSet(S), NEW value, Measured(S, value),
           NEW k \in Nat, k < Cardinality(S)
    PROVE  \E v : IsRanked(S, value, k, v)
  <1> DEFINE T == { s \in S : k < Cardinality(UpTo(S, value, value[s])) }
  <1>1. S # {}
    BY FS_EmptySet
  <1>2. T # {}
    <2>1. PICK s \in S : \A t \in S : value[t] <= value[s]
      BY <1>1, GreatestValue
    <2>2. UpTo(S, value, value[s]) = S
      BY <2>1 DEF UpTo
    <2>3. s \in T
      BY <2>2
    <2> QED BY <2>3
  <1>3. IsFiniteSet(T) /\ Measured(T, value) /\ T \subseteq S
    <2>1. T \subseteq S
      OBVIOUS
    <2> HIDE DEF T
    <2> QED BY <2>1, FS_Subset DEF Measured
  <1>4. PICK s \in T : \A t \in T : value[s] <= value[t]
    <2> HIDE DEF T
    <2> QED BY <1>2, <1>3, LeastValue
  <1> DEFINE v == value[s]
             L == Below(S, value, v)
  <1>5. Cardinality(L) <= k
    <2>1. CASE L = {}
      <3>1. Cardinality(L) = 0
        BY <2>1, FS_EmptySet
      <3> HIDE DEF L
      <3> QED BY <3>1
    <2>2. CASE L # {}
      <3>1. IsFiniteSet(L) /\ L \subseteq S /\ Measured(L, value)
        BY PartsFinite DEF Measured
      <3>2. PICK t \in L : \A r \in L : value[r] <= value[t]
        <4> HIDE DEF L
        <4> QED BY <2>2, <3>1, GreatestValue
      <3>3. t \in S /\ value[t] < value[s] /\ value[t] \in Int /\ value[s] \in Int
        BY <1>3, <3>2 DEF Below, Measured
      <3>4. UpTo(S, value, value[t]) = L
        <4>1. ASSUME NEW r \in S PROVE value[r] <= value[t] <=> value[r] < value[s]
          <5>1. value[r] \in Int
            BY DEF Measured
          <5>2. value[r] < value[s] => value[r] <= value[t]
            BY <3>2 DEF Below
          <5> QED BY <3>3, <5>1, <5>2
        <4> QED BY <4>1 DEF UpTo, Below
      <3>5. t \notin T
        BY <1>3, <1>4, <3>3
      <3>6. ~(k < Cardinality(L))
        <4> HIDE DEF L
        <4> QED BY <3>3, <3>4, <3>5
      <3>7. Cardinality(L) \in Nat
        BY PartsFinite
      <3> HIDE DEF L
      <3> QED BY <3>6, <3>7
    <2> QED BY <2>1, <2>2
  <1>6. IsRanked(S, value, k, v)
    <2>1. s \in S /\ k < Cardinality(UpTo(S, value, value[s]))
      BY <1>4
    <2> QED BY <1>5, <2>1 DEF IsRanked
  <1> QED BY <1>6

\* Ranked is the k-th of the values.
LEMMA RankedIs ==
    ASSUME NEW S, IsFiniteSet(S), NEW value, Measured(S, value),
           NEW k \in Nat, k < Cardinality(S)
    PROVE  IsRanked(S, value, k, Ranked(S, value, k)) /\ Ranked(S, value, k) \in Int
  <1>1. Ranked(S, value, k) = CHOOSE v : IsRanked(S, value, k, v)
    BY DEF Ranked, IsRanked, Below, UpTo
  <1>2. IsRanked(S, value, k, Ranked(S, value, k))
    BY <1>1, SomeRanked
  <1> QED BY <1>2 DEF IsRanked, Measured

\* Where no value is less, the k-th is not less.
LEMMA RankedRises ==
    ASSUME NEW S, IsFiniteSet(S), NEW low, Measured(S, low), NEW high, Measured(S, high),
           \A s \in S : low[s] <= high[s], NEW k \in Nat, k < Cardinality(S)
    PROVE  Ranked(S, low, k) <= Ranked(S, high, k)
  <1> DEFINE a == Ranked(S, low, k)
             b == Ranked(S, high, k)
  <1>1. IsRanked(S, low, k, a) /\ a \in Int /\ IsRanked(S, high, k, b) /\ b \in Int
    BY RankedIs
  <1> HIDE DEF a, b
  <1>2. SUFFICES ASSUME b < a PROVE FALSE
    BY <1>1 DEF a, b
  <1>3. UpTo(S, high, b) \subseteq Below(S, low, a)
    <2> SUFFICES ASSUME NEW s \in S, high[s] <= b PROVE low[s] < a
      BY DEF UpTo, Below
    <2>1. low[s] \in Int /\ high[s] \in Int /\ low[s] <= high[s]
      BY DEF Measured
    <2> QED BY <1>1, <1>2, <2>1
  <1>4. IsFiniteSet(Below(S, low, a)) /\ Cardinality(Below(S, low, a)) \in Nat
    BY PartsFinite
  <1>5. Cardinality(UpTo(S, high, b)) <= Cardinality(Below(S, low, a))
    BY <1>3, <1>4, FS_Subset
  <1>6. Cardinality(UpTo(S, high, b)) \in Nat
    BY PartsFinite
  <1> QED BY <1>1, <1>4, <1>5, <1>6 DEF IsRanked

-----------------------------------------------------------------------------
(* The band of a mintage.                                                   *)

LEMMA BucketFacts ==
    ASSUME NEW b \in Buckets
    PROVE  /\ b.upper \in Nat /\ b.low \in Nat /\ b.high \in Nat
           /\ 0 < b.low /\ b.low <= b.high
           /\ \A c \in Buckets : /\ b.upper = c.upper => b = c
                                 /\ b.upper < c.upper => b.low >= c.low /\ b.high >= c.high
  BY ScarcityAssumption

\* The bounds of buckets, and these below zero, so that the last is the least.
Uppers(T) == [b \in T |-> b.upper]
Downs(T) == [b \in T |-> 0 - b.upper]

LEMMA SomeBucket ==
    ASSUME NEW T \in SUBSET Buckets, T # {}
    PROVE  /\ \E b \in T : \A c \in T : b.upper <= c.upper
           /\ \E b \in T : \A c \in T : c.upper <= b.upper
  <1>1. IsFiniteSet(T)
    BY ScarcityAssumption, FS_Subset
  <1>2. Measured(T, Uppers(T)) /\ \A b \in T : Uppers(T)[b] = b.upper
    BY BucketFacts DEF Measured, Uppers
  <1>3. PICK b \in T : \A c \in T : Uppers(T)[b] <= Uppers(T)[c]
    BY <1>1, <1>2, LeastValue
  <1>4. PICK d \in T : \A c \in T : Uppers(T)[c] <= Uppers(T)[d]
    BY <1>1, <1>2, GreatestValue
  <1>5. \A c \in T : b.upper <= c.upper
    BY <1>2, <1>3
  <1>6. \A c \in T : c.upper <= d.upper
    BY <1>2, <1>4
  <1> QED BY <1>5, <1>6

\* The bucket of a mintage.
AboveOf(m) == { b \in Buckets : m < b.upper }
LEMMA BucketIs ==
    ASSUME NEW m
    PROVE  /\ BucketOf(m, Buckets) \in Buckets
           /\ AboveOf(m) # {} => /\ BucketOf(m, Buckets) \in AboveOf(m)
                                 /\ \A c \in AboveOf(m) : BucketOf(m, Buckets).upper <= c.upper
           /\ AboveOf(m) = {} => \A c \in Buckets : c.upper <= BucketOf(m, Buckets).upper
  <1>1. BucketOf(m, Buckets) =
           IF AboveOf(m) = {} THEN CHOOSE b \in Buckets : \A c \in Buckets : c.upper <= b.upper
           ELSE CHOOSE b \in AboveOf(m) : \A c \in AboveOf(m) : b.upper <= c.upper
    BY DEF BucketOf, AboveOf
  <1>2. CASE AboveOf(m) = {}
    <2>1. \E b \in Buckets : \A c \in Buckets : c.upper <= b.upper
      BY ScarcityAssumption, SomeBucket
    <2>2. BucketOf(m, Buckets) = CHOOSE b \in Buckets : \A c \in Buckets : c.upper <= b.upper
      BY <1>1, <1>2
    <2> QED BY <1>2, <2>1, <2>2
  <1>3. CASE AboveOf(m) # {}
    <2>1. AboveOf(m) \in SUBSET Buckets
      BY DEF AboveOf
    <2>2. \E b \in AboveOf(m) : \A c \in AboveOf(m) : b.upper <= c.upper
      BY <1>3, <2>1, SomeBucket
    <2>3. BucketOf(m, Buckets)
             = CHOOSE b \in AboveOf(m) : \A c \in AboveOf(m) : b.upper <= c.upper
      BY <1>1, <1>3
    <2> QED BY <1>3, <2>1, <2>2, <2>3
  <1> QED BY <1>2, <1>3

\* A smaller mintage is not in a later bucket.
LEMMA BucketRises ==
    ASSUME NEW m \in Int, NEW n \in Int, m <= n
    PROVE  BucketOf(m, Buckets).upper <= BucketOf(n, Buckets).upper
  <1>1. AboveOf(n) \subseteq AboveOf(m)
    <2> SUFFICES ASSUME NEW b \in Buckets, n < b.upper PROVE m < b.upper
      BY DEF AboveOf
    <2>1. b.upper \in Nat
      BY BucketFacts
    <2> QED BY <2>1
  <1>2. CASE AboveOf(m) = {}
    <2>1. AboveOf(n) = {}
      BY <1>1, <1>2
    <2> QED BY <1>2, <2>1, BucketIs
  <1>3. CASE AboveOf(n) # {}
    <2>1. BucketOf(n, Buckets) \in AboveOf(m) /\ AboveOf(m) # {}
      BY <1>1, <1>3, BucketIs
    <2> QED BY <2>1, BucketIs
  <1>4. CASE AboveOf(m) # {} /\ AboveOf(n) = {}
    <2>1. BucketOf(m, Buckets) \in Buckets
      BY BucketIs
    <2> QED BY <1>4, <2>1, BucketIs
  <1> QED BY <1>2, <1>3, <1>4

\* Without sales a band is that of the bucket.
LEMMA BandIs ==
    ASSUME NEW m
    PROVE  BandOf(m) = [low |-> BucketOf(m, Buckets).low, high |-> BucketOf(m, Buckets).high]
  <1> DEFINE b == BucketOf(m, Buckets)
             none == { i \in {} : <<>>[i] > 0 /\ BucketOf(<<>>[i], Buckets) = b }
  <1>1. none = {} /\ Cardinality(none) = 0
    BY FS_EmptySet
  <1>2. 0 < MinSales
    BY ScarcityAssumption
  <1>3. BandOf(m) = IF Cardinality(none) < MinSales THEN [low |-> b.low, high |-> b.high]
                    ELSE [low |-> Ranked(none, <<>>, Cardinality(none) \div 2),
                          high |-> Ranked(none, <<>>, Cardinality(none) \div 2)]
    BY DEF BandOf, Calibrated
  <1>4. Cardinality(none) < MinSales
    <2> HIDE DEF none
    <2> QED BY <1>1, <1>2
  <1> HIDE DEF none, b
  <1> QED BY <1>3, <1>4 DEF b

\* A smaller emission is worth no less.
LEMMA BandsRise ==
    ASSUME NEW m \in Int, NEW n \in Int, m <= n
    PROVE  BandOf(m).low >= BandOf(n).low /\ BandOf(m).high >= BandOf(n).high
  <1> DEFINE b == BucketOf(m, Buckets)
             c == BucketOf(n, Buckets)
  <1>1. b \in Buckets /\ c \in Buckets /\ b.upper <= c.upper
    BY BucketIs, BucketRises
  <1>2. BandOf(m).low = b.low /\ BandOf(m).high = b.high
    BY BandIs
  <1>3. BandOf(n).low = c.low /\ BandOf(n).high = c.high
    BY BandIs
  <1> HIDE DEF b, c
  <1>4. /\ b.upper \in Nat /\ c.upper \in Nat /\ b.low \in Nat /\ b.high \in Nat
        /\ b.upper = c.upper => b = c
        /\ b.upper < c.upper => b.low >= c.low /\ b.high >= c.high
    BY <1>1, BucketFacts
  <1>5. CASE b.upper = c.upper
    <2>1. b = c
      BY <1>4, <1>5
    <2>2. b.low >= c.low /\ b.high >= c.high
      BY <1>4, <2>1
    <2> QED BY <1>2, <1>3, <2>2
  <1>6. CASE b.upper < c.upper
    BY <1>2, <1>3, <1>4, <1>6
  <1> QED BY <1>1, <1>4, <1>5, <1>6

\* The sum of a design's variants is no less than any of them.
OwnOf(d, R) == { i \in R : DesignOf[i] = d }
LEMMA TotalIs ==
    ASSUME NEW mintage \in [Issues -> Nat], NEW R \in SUBSET Issues, NEW d, NEW total
    PROVE  /\ total[d] > 0 => Total(d, mintage, total, R) = total[d]
           /\ ~(total[d] > 0) =>
                 /\ Total(d, mintage, total, R) \in Nat
                 /\ \A i \in OwnOf(d, R) : mintage[i] <= Total(d, mintage, total, R)
  <1> DEFINE own == OwnOf(d, R)
  <1>1. IsFiniteSet(own) /\ \A i \in own : mintage[i] \in Nat
    <2>1. own \subseteq Issues
      BY DEF OwnOf
    <2> QED BY <2>1, ScarcityAssumption, FS_Subset
  <1>2. Total(d, mintage, total, R) = IF total[d] > 0 THEN total[d] ELSE Sum(mintage, own)
    BY DEF Total, OwnOf, Sum, Adds, First
  <1>3. Sum(mintage, own) \in Nat
    <2> HIDE DEF own
    <2> QED BY <1>1, SumNat
  <1>4. ASSUME NEW i \in own PROVE mintage[i] <= Sum(mintage, own)
    <2>1. IsFiniteSet(own \ {i}) /\ \A k \in own \ {i} : mintage[k] \in Nat
      BY <1>1, FS_Subset
    <2> HIDE DEF own
    <2>2. Sum(mintage, own \ {i}) \in Nat
      BY <2>1, SumNat
    <2>3. Sum(mintage, own) = mintage[i] + Sum(mintage, own \ {i})
      BY <1>1, SumTake
    <2> QED BY <1>1, <2>2, <2>3
  <1> HIDE DEF own
  <1>5. ASSUME total[d] > 0 PROVE Total(d, mintage, total, R) = total[d]
    BY <1>2, <1>5
  <1>6. ASSUME ~(total[d] > 0)
        PROVE  Total(d, mintage, total, R) = Sum(mintage, own)
    BY <1>2, <1>6
  <1> QED BY <1>3, <1>4, <1>5, <1>6 DEF own

\* An issue is judged by a number of coins.
NoTotals == [d \in Designs |-> 0]
LEMMA JudgedIs ==
    ASSUME NEW mintage \in [Issues -> Nat], NEW R \in SUBSET Issues, NEW i \in R
    PROVE  Judged(i, mintage, NoTotals, R) \in Nat
  <1> DEFINE d == DesignOf[i]
  <1>1. d \in Designs /\ Base[d] \in Designs \cup {NoDesign} /\ Common \in Nat
    BY ScarcityAssumption
  <1>2. \A e \in Designs : ~(NoTotals[e] > 0)
    BY DEF NoTotals
  <1>3. Total(d, mintage, NoTotals, R) \in Nat
    BY <1>1, <1>2, TotalIs
  <1>4. CASE d \in Circulating
    <2>1. Judged(i, mintage, NoTotals, R)
             = IF FinishOf[i] = "CIRCULATION" /\ mintage[i] > 0 THEN mintage[i] ELSE Common
      BY <1>4 DEF Judged
    <2> QED BY <1>1, <2>1
  <1>5. CASE d \notin Circulating
    <2>1. ~(Base[d] # NoDesign /\ NoTotals[Base[d]] > 0)
      BY <1>1, <1>2
    <2>2. Judged(i, mintage, NoTotals, R) = Total(d, mintage, NoTotals, R)
      BY <1>5, <2>1 DEF Judged
    <2> QED BY <1>3, <2>2
  <1> QED BY <1>4, <1>5

\* A variant of a commemorative is not judged by less than its own print run, unless a source
\* gave the emission's total or it has a base.
LEMMA JudgedByTheEmission ==
    ASSUME NEW mintage \in [Issues -> Nat], NEW R \in SUBSET Issues, NEW i \in R, NEW total,
           DesignOf[i] \notin Circulating, ~(total[DesignOf[i]] > 0), Base[DesignOf[i]] = NoDesign
    PROVE  mintage[i] <= Judged(i, mintage, total, R) /\ Judged(i, mintage, total, R) \in Nat
  <1>1. Judged(i, mintage, total, R) = Total(DesignOf[i], mintage, total, R)
    BY DEF Judged
  <1>2. i \in OwnOf(DesignOf[i], R)
    BY DEF OwnOf
  <1> QED BY <1>1, <1>2, TotalIs

\* A product with a factor keeps the order.
LEMMA TimesRises ==
    ASSUME NEW a \in Nat, NEW b \in Nat, NEW f \in Nat \ {0}, 0 < a, a <= b
    PROVE  0 < a * f /\ a * f <= b * f
  <1>1. PICK c \in Nat : b = a + c
    <2>1. b - a \in Nat /\ b = a + (b - a)
      OBVIOUS
    <2> QED BY <2>1
  <1>2. b * f = a * f + c * f
    BY <1>1
  <1>3. c * f \in Nat /\ a * f \in Nat /\ a * f > 0
    OBVIOUS
  <1> QED BY <1>2, <1>3

\* What is sold of one bucket.
SoldOf(sold, mintage, b) == { i \in sold : mintage[i] > 0 /\ BucketOf(mintage[i], Buckets) = b }

\* Whatever was sold, the band of a bucket is one.
LEMMA CalibratedIs ==
    ASSUME NEW mintage, NEW sold \in SUBSET Issues, NEW low \in [sold -> Prices],
           NEW high \in [sold -> Prices], \A i \in sold : low[i] <= high[i],
           NEW b \in Buckets
    PROVE  LET band == Calibrated(sold, mintage, low, high, Buckets, b)
           IN  band.low \in Nat /\ band.high \in Nat /\ 0 < band.low /\ band.low <= band.high
  <1> DEFINE R == SoldOf(sold, mintage, b)
             n == Cardinality(R)
             band == Calibrated(sold, mintage, low, high, Buckets, b)
  <1>1. band = IF n < MinSales THEN [low |-> b.low, high |-> b.high]
               ELSE [low |-> Ranked(R, low, n \div 2), high |-> Ranked(R, high, n \div 2)]
    BY DEF Calibrated, SoldOf
  <1>2. ASSUME n < MinSales PROVE band.low \in Nat /\ band.high \in Nat /\ 0 < band.low /\ band.low <= band.high
    <2>1. band.low = b.low /\ band.high = b.high
      <3>1. band = [low |-> b.low, high |-> b.high]
        BY <1>1, <1>2
      <3> HIDE DEF band
      <3> QED BY <3>1
    <2>2. b.low \in Nat /\ b.high \in Nat /\ 0 < b.low /\ b.low <= b.high
      BY BucketFacts
    <2> HIDE DEF band
    <2> QED BY <2>1, <2>2
  <1>3. ASSUME ~(n < MinSales) PROVE band.low \in Nat /\ band.high \in Nat /\ 0 < band.low /\ band.low <= band.high
    <2>1. IsFiniteSet(R) /\ n \in Nat /\ R \subseteq sold
      <3>1. R \subseteq sold /\ R \subseteq Issues
        BY DEF SoldOf
      <3>2. IsFiniteSet(R)
        BY <3>1, ScarcityAssumption, FS_Subset
      <3> QED BY <3>1, <3>2, FS_CardinalityType
    <2>2. \A i \in R : low[i] \in Prices /\ high[i] \in Prices /\ low[i] <= high[i]
      BY <2>1
    <2>3. Prices \subseteq Nat /\ 0 \notin Prices /\ MinSales \in Nat \ {0}
      BY ScarcityAssumption
    <2>4. Measured(R, low) /\ Measured(R, high)
      <3> HIDE DEF R
      <3>1. ASSUME NEW i \in R PROVE low[i] \in Int /\ high[i] \in Int
        <4>1. low[i] \in Prices /\ high[i] \in Prices
          BY <2>2
        <4>2. low[i] \in Nat /\ high[i] \in Nat
          BY <2>3, <4>1
        <4> QED BY <4>2
      <3> QED BY <3>1 DEF Measured
    <2> DEFINE k == n \div 2
    <2>5. k \in Nat /\ k < n
      <3> HIDE DEF n
      <3> QED BY <1>3, <2>1, <2>3
    <2>6. band.low = Ranked(R, low, k) /\ band.high = Ranked(R, high, k)
      <3>1. band = [low |-> Ranked(R, low, k), high |-> Ranked(R, high, k)]
        BY <1>1, <1>3
      <3> HIDE DEF band, k
      <3> QED BY <3>1
    <2> HIDE DEF R, k, band
    <2>7. IsRanked(R, low, k, Ranked(R, low, k)) /\ IsRanked(R, high, k, Ranked(R, high, k))
      BY <2>1, <2>4, <2>5, RankedIs
    <2>8. Ranked(R, low, k) \in Prices /\ Ranked(R, high, k) \in Prices
      BY <2>2, <2>7 DEF IsRanked
    <2>9. Ranked(R, low, k) <= Ranked(R, high, k)
      BY <2>1, <2>2, <2>4, <2>5, RankedRises
    <2> DEFINE x == Ranked(R, low, k)
               y == Ranked(R, high, k)
    <2>10. x \in Nat /\ y \in Nat /\ x # 0
      BY <2>3, <2>8
    <2>11. band.low = x /\ band.high = y /\ x <= y
      BY <2>6, <2>9
    <2> HIDE DEF x, y
    <2> QED BY <2>10, <2>11
  <1> HIDE DEF band, n
  <1>4. band.low \in Nat /\ band.high \in Nat /\ 0 < band.low /\ band.low <= band.high
    BY <1>2, <1>3
  <1> QED BY <1>4 DEF band

\* ... and that of every issue.
LEMMA PricedIs ==
    ASSUME NEW mintage \in [Issues -> Nat], NEW R \in SUBSET Issues, NEW i \in R,
           NEW low \in [Issues \ R -> Prices], NEW high \in [Issues \ R -> Prices],
           \A k \in Issues \ R : low[k] <= high[k]
    PROVE  LET q == Priced(i, mintage, NoTotals, R, Issues \ R, low, high, Parsed({}))
           IN  q = NoBand \/ (0 < q.low /\ q.low <= q.high)
  <1> DEFINE judged == Judged(i, mintage, NoTotals, R)
             sold == Issues \ R
             b == BucketOf(judged, Buckets)
             band == Calibrated(sold, mintage, low, high, Buckets, b)
             f == Factor[FinishOf[i]]
             q == Priced(i, mintage, NoTotals, R, sold, low, high, Parsed({}))
  <1>1. Parsed({}) = Buckets
    BY DEF Parsed
  <1>2. q = NoBand \/ q = [low |-> band.low * f, high |-> band.high * f]
    BY <1>1 DEF Priced
  <1>3. b \in Buckets
    BY BucketIs
  <1>4. band.low \in Nat /\ band.high \in Nat /\ 0 < band.low /\ band.low <= band.high
    <2>1. sold \in SUBSET Issues
      OBVIOUS
    <2> HIDE DEF sold, b
    <2> QED BY <1>3, <2>1, CalibratedIs DEF sold
  <1>5. f \in Nat \ {0}
    BY ScarcityAssumption
  <1> HIDE DEF band, f, q
  <1>6. ASSUME q = [low |-> band.low * f, high |-> band.high * f]
        PROVE  0 < q.low /\ q.low <= q.high
    <2>1. q.low = band.low * f /\ q.high = band.high * f
      BY <1>6
    <2>2. 0 < band.low * f /\ band.low * f <= band.high * f
      BY <1>4, <1>5, TimesRises
    <2> QED BY <2>1, <2>2
  <1>7. q = NoBand \/ (0 < q.low /\ q.low <= q.high)
    BY <1>2, <1>6
  <1> QED BY <1>7 DEF q

LEMMA AllBandsTell == ASSUME NEW mintage \in [Issues -> Nat] PROVE BandsTell(mintage)
  <1>1. ASSUME NEW i \in Issues, NEW j \in Issues, mintage[i] <= mintage[j]
        PROVE  /\ BandOf(mintage[i]).low >= BandOf(mintage[j]).low
               /\ BandOf(mintage[i]).high >= BandOf(mintage[j]).high
    BY <1>1, BandsRise
  <1>2. ASSUME NEW R \in SUBSET Issues, NEW total \in [Designs -> {0, Common}], NEW i \in R,
               DesignOf[i] \notin Circulating, Judged(i, mintage, total, R) < mintage[i]
        PROVE  total[DesignOf[i]] > 0 \/ Base[DesignOf[i]] # NoDesign
    <2> SUFFICES ASSUME ~(total[DesignOf[i]] > 0), Base[DesignOf[i]] = NoDesign PROVE FALSE
      OBVIOUS
    <2>1. mintage[i] <= Judged(i, mintage, total, R) /\ Judged(i, mintage, total, R) \in Nat
      BY <1>2, JudgedByTheEmission
    <2>2. mintage[i] \in Nat
      OBVIOUS
    <2> QED BY <1>2, <2>1, <2>2
  <1>3. ASSUME NEW R \in SUBSET Issues, NEW low \in [Issues \ R -> Prices],
               NEW high \in [Issues \ R -> Prices], \A k \in Issues \ R : low[k] <= high[k],
               NEW i \in R
        PROVE  LET q == Priced(i, mintage, NoTotals, R, Issues \ R, low, high, Parsed({}))
               IN  q = NoBand \/ (0 < q.low /\ q.low <= q.high)
    BY <1>3, PricedIs
  <1> QED BY <1>1, <1>2, <1>3 DEF BandsTell, NoTotals

-----------------------------------------------------------------------------
(* Logarithms, division and clamping.                                       *)

\* Of the numbers from 1 to n with a property there is a least.
LEMMA LeastNumber ==
    ASSUME NEW n \in Nat, NEW S \in SUBSET (1..n), S # {}
    PROVE  \E k \in S : \A j \in S : k <= j
  <1> DEFINE same == [k \in S |-> k]
  <1>1. IsFiniteSet(S)
    <2>1. IsFiniteSet(1..n)
      BY FS_Interval
    <2> QED BY <2>1, FS_Subset
  <1>2. Measured(S, same) /\ \A k \in S : same[k] = k
    BY DEF Measured
  <1> HIDE DEF same
  <1>3. PICK k \in S : \A j \in S : same[k] <= same[j]
    BY <1>1, <1>2, LeastValue
  <1>4. \A j \in S : k <= j
    BY <1>2, <1>3
  <1> QED BY <1>4

\* Lg, opened up.
Logs(f, n) == f = [k \in 1..n |-> IF k < 10 THEN (1000 * (k - 1)) \div 9 ELSE 1000 + f[k \div 10]]
LEMMA LgIs == ASSUME NEW n PROVE Lg(n) = (CHOOSE f : Logs(f, n))[n]
  BY DEF Lg, Logs

LEMMA LogsAt ==
    ASSUME NEW n \in Nat, NEW f, Logs(f, n), NEW k \in 1..n
    PROVE  /\ k < 10 => f[k] = (1000 * (k - 1)) \div 9
           /\ ~(k < 10) => f[k] = 1000 + f[k \div 10] /\ k \div 10 \in 1..n /\ k \div 10 < k
  <1>1. f[k] = IF k < 10 THEN (1000 * (k - 1)) \div 9 ELSE 1000 + f[k \div 10]
    BY DEF Logs
  <1>2. ~(k < 10) => k \div 10 \in 1..n /\ k \div 10 < k
    OBVIOUS
  <1> QED BY <1>1, <1>2

LEMMA LogsExist == ASSUME NEW n \in Nat PROVE \E f : Logs(f, n)
  <1> DEFINE S == { k \in 1..n : ~ \E f : Logs(f, k) }
  <1>1. CASE n = 0
    <2> DEFINE f == [k \in 1..0 |-> 0]
    <2>1. Logs(f, 0)
      BY DEF Logs
    <2> QED BY <1>1, <2>1
  <1>2. SUFFICES ASSUME n # 0, S # {} PROVE FALSE
    BY <1>1
  <1>3. PICK m \in S : \A j \in S : m <= j
    <2>1. S \in SUBSET (1..n)
      OBVIOUS
    <2> HIDE DEF S
    <2> QED BY <1>2, <2>1, LeastNumber
  <1>4. m \in 1..n /\ ~ \E f : Logs(f, m)
    OBVIOUS
  <1>5. PICK f : Logs(f, m - 1)
    <2>1. CASE m = 1
      <3> DEFINE f == [k \in 1..0 |-> 0]
      <3>1. Logs(f, 0)
        BY DEF Logs
      <3> QED BY <2>1, <3>1
    <2>2. CASE m # 1
      <3>1. m - 1 \in 1..n /\ ~(m <= m - 1)
        BY <1>4, <2>2
      <3> QED BY <1>3, <3>1
    <2> QED BY <2>1, <2>2
  <1> DEFINE last == IF m < 10 THEN (1000 * (m - 1)) \div 9 ELSE 1000 + f[m \div 10]
             h == [k \in 1..m |-> IF k = m THEN last ELSE f[k]]
  <1>6. ASSUME NEW k \in 1..m
        PROVE  h[k] = IF k < 10 THEN (1000 * (k - 1)) \div 9 ELSE 1000 + h[k \div 10]
    <2>1. k < 10 \/ (k \div 10 \in 1..m /\ k \div 10 # m)
      BY <1>4
    <2>2. ~(k < 10) => h[k \div 10] = f[k \div 10]
      BY <2>1
    <2>3. CASE k = m
      BY <2>2, <2>3
    <2>4. CASE k # m
      <3>1. k \in 1..(m - 1) /\ m - 1 \in Nat
        BY <1>4, <2>4
      <3>2. h[k] = f[k]
        BY <2>4
      <3> HIDE DEF h
      <3> QED BY <1>5, <2>2, <3>1, <3>2, LogsAt
    <2> QED BY <2>3, <2>4
  <1>7. Logs(h, m)
    <2>1. h = [k \in 1..m |-> h[k]]
      OBVIOUS
    <2> DEFINE e(k) == IF k < 10 THEN (1000 * (k - 1)) \div 9 ELSE 1000 + h[k \div 10]
    <2>2. \A k \in 1..m : h[k] = e(k)
      BY <1>6
    <2> HIDE DEF e, h
    <2>3. h = [k \in 1..m |-> e(k)]
      BY <2>1, <2>2
    <2> QED BY <2>3 DEF Logs, e
  <1> QED BY <1>4, <1>7

\* A logarithm is a natural number, and that of a larger number is not smaller.
LEMMA LogsRise ==
    ASSUME NEW m \in Nat, NEW n \in Nat, NEW f, Logs(f, m), NEW g, Logs(g, n)
    PROVE  \A k \in 1..n : \A j \in 1..m :
              j <= k => f[j] \in Nat /\ g[k] \in Nat /\ f[j] <= g[k]
  <1> DEFINE S == { k \in 1..n : \E j \in 1..m :
                      j <= k /\ ~(f[j] \in Nat /\ g[k] \in Nat /\ f[j] <= g[k]) }
  <1>1. SUFFICES ASSUME S # {} PROVE FALSE
    OBVIOUS
  <1>2. PICK k \in S : \A i \in S : k <= i
    <2>1. S \in SUBSET (1..n)
      OBVIOUS
    <2> HIDE DEF S
    <2> QED BY <1>1, <2>1, LeastNumber
  <1>3. PICK j \in 1..m : j <= k /\ ~(f[j] \in Nat /\ g[k] \in Nat /\ f[j] <= g[k])
    OBVIOUS
  <1>4. k \in 1..n
    OBVIOUS
  <1>5. ASSUME NEW i \in 1..n, i < k, NEW h \in 1..m, h <= i
        PROVE  f[h] \in Nat /\ g[i] \in Nat /\ f[h] <= g[i]
    <2>1. i \notin S
      <3> HIDE DEF S
      <3> QED BY <1>2, <1>4, <1>5
    <2> QED BY <1>5, <2>1
  <1>6. CASE k < 10
    <2>1. j < 10
      BY <1>3, <1>4, <1>6
    <2>2. f[j] = (1000 * (j - 1)) \div 9 /\ g[k] = (1000 * (k - 1)) \div 9
      BY <1>4, <1>6, <2>1, LogsAt
    <2>3. (1000 * (j - 1)) \div 9 <= (1000 * (k - 1)) \div 9
      BY <1>3, <1>4
    <2>4. (1000 * (j - 1)) \div 9 \in Nat /\ (1000 * (k - 1)) \div 9 \in Nat
      BY <1>4
    <2> QED BY <1>3, <2>2, <2>3, <2>4
  <1>7. CASE ~(k < 10)
    <2>1. g[k] = 1000 + g[k \div 10] /\ k \div 10 \in 1..n /\ k \div 10 < k
      BY <1>4, <1>7, LogsAt
    <2>2. CASE j < 10
      <3>1. f[j] = (1000 * (j - 1)) \div 9
        BY <2>2, LogsAt
      <3>2. (1000 * (j - 1)) \div 9 \in 0..888
        BY <2>2
      <3>3. 1 \in 1..m /\ 1 <= k \div 10
        BY <2>1
      <3>4. g[k \div 10] \in Nat
        BY <1>5, <2>1, <3>3
      <3> QED BY <1>3, <2>1, <3>1, <3>2, <3>4
    <2>3. CASE ~(j < 10)
      <3>1. f[j] = 1000 + f[j \div 10] /\ j \div 10 \in 1..m
        BY <2>3, LogsAt
      <3>2. j \div 10 <= k \div 10
        BY <1>3, <1>4
      <3>3. f[j \div 10] \in Nat /\ g[k \div 10] \in Nat /\ f[j \div 10] <= g[k \div 10]
        BY <1>5, <2>1, <3>1, <3>2
      <3> QED BY <1>3, <2>1, <3>1, <3>3
    <2> QED BY <2>2, <2>3
  <1> QED BY <1>6, <1>7

LEMMA LgRises ==
    ASSUME NEW m \in Nat \ {0}, NEW n \in Nat \ {0}, m <= n
    PROVE  Lg(m) \in Nat /\ Lg(n) \in Nat /\ Lg(m) <= Lg(n)
  <1> DEFINE f == CHOOSE h : Logs(h, m)
             g == CHOOSE h : Logs(h, n)
  <1>1. Logs(f, m) /\ Logs(g, n)
    BY LogsExist
  <1>2. Lg(m) = f[m] /\ Lg(n) = g[n]
    BY LgIs
  <1>3. m \in 1..m /\ n \in 1..n /\ m \in Nat /\ n \in Nat
    OBVIOUS
  <1> HIDE DEF f, g
  <1>4. f[m] \in Nat /\ g[n] \in Nat /\ f[m] <= g[n]
    BY <1>1, <1>3, LogsRise
  <1> QED BY <1>2, <1>4

LEMMA LgStep ==
    ASSUME NEW n \in Nat \ {0}
    PROVE  /\ Lg(n) \in Nat
           /\ n < 10 => Lg(n) = (1000 * (n - 1)) \div 9
           /\ ~(n < 10) => Lg(n) = 1000 + Lg(n \div 10)
  <1> DEFINE f == CHOOSE h : Logs(h, n)
  <1>1. Logs(f, n) /\ Lg(n) = f[n] /\ n \in Nat /\ n \in 1..n
    BY LogsExist, LgIs
  <1>2. Lg(n) \in Nat
    BY LgRises
  <1>3. ASSUME n < 10 PROVE Lg(n) = (1000 * (n - 1)) \div 9
    <2> HIDE DEF f
    <2> QED BY <1>1, <1>3, LogsAt
  <1>4. ASSUME ~(n < 10) PROVE Lg(n) = 1000 + Lg(n \div 10)
    <2> DEFINE q == n \div 10
               g == CHOOSE h : Logs(h, q)
    <2>1. f[n] = 1000 + f[q] /\ q \in 1..n /\ q \in Nat /\ q \in 1..q
      <3> HIDE DEF f
      <3>1. f[n] = 1000 + f[n \div 10] /\ n \div 10 \in 1..n
        BY <1>1, <1>4, LogsAt
      <3> QED BY <3>1
    <2>2. Logs(g, q) /\ Lg(q) = g[q]
      BY <2>1, LogsExist, LgIs
    <2> HIDE DEF f, g, q
    <2>3. f[q] \in Nat /\ g[q] \in Nat /\ f[q] <= g[q]
      BY <1>1, <2>1, <2>2, LogsRise
    <2>4. g[q] <= f[q]
      BY <1>1, <2>1, <2>2, LogsRise
    <2>5. f[q] = g[q]
      BY <2>3, <2>4
    <2> QED BY <1>1, <2>1, <2>2, <2>5 DEF q
  <1> QED BY <1>2, <1>3, <1>4

\* Face value and the cap of the premium.
LEMMA LgOfPrices == Lg(200) = 2111 /\ Lg(100000) = 5000
  <1>1. Lg(2) = 111 /\ Lg(1) = 0
    BY LgStep
  <1>2. Lg(20) = 1000 + Lg(2) /\ Lg(10) = 1000 + Lg(1)
    BY LgStep
  <1>3. Lg(200) = 1000 + Lg(20) /\ Lg(100) = 1000 + Lg(10)
    BY LgStep
  <1>4. Lg(1000) = 1000 + Lg(100) /\ Lg(10000) = 1000 + Lg(1000) /\ Lg(100000) = 1000 + Lg(10000)
    BY LgStep
  <1> QED BY <1>1, <1>2, <1>3, <1>4

LEMMA DivRises ==
    ASSUME NEW a \in Int, NEW b \in Int, a <= b, NEW n \in Nat \ {0}
    PROVE  a \div n \in Int /\ b \div n \in Int /\ a \div n <= b \div n
  OBVIOUS

LEMMA DivNatural ==
    ASSUME NEW a \in Nat, NEW n \in Nat \ {0}
    PROVE  a \div n \in Nat
  OBVIOUS

LEMMA ClampIs ==
    ASSUME NEW x \in Int
    PROVE  Clamp(x) = IF x <= 0 THEN 0 ELSE IF x <= 100 THEN x ELSE 100
  <1> DEFINE low == IF x <= 100 THEN x ELSE 100
  <1>1. Min({100, x}) = low
    BY DEF Min
  <1>2. Max({0, low}) = IF x <= 0 THEN 0 ELSE low
    BY DEF Max
  <1> QED BY <1>1, <1>2 DEF Clamp

LEMMA ClampRises ==
    ASSUME NEW x \in Int, NEW y \in Int, x <= y
    PROVE  Clamp(x) \in 0..100 /\ Clamp(y) \in 0..100 /\ Clamp(x) <= Clamp(y)
  BY ClampIs

-----------------------------------------------------------------------------
(* Rarity: what each component says, and the score.                         *)

LEMMA QuantileIs ==
    ASSUME NEW S, IsFiniteSet(S), NEW value, Measured(S, value), Cardinality(S) > 1,
           NEW k \in {1, 99}
    PROVE  Quantile(S, value, k) \in Int
  <1> DEFINE n == Cardinality(S)
             j == (k * (n - 1)) \div 100
             r == (k * (n - 1)) % 100
             above == IF r = 0 THEN Ranked(S, value, j) ELSE Ranked(S, value, j + 1)
  <1>1. n \in Nat /\ n > 1
    BY FS_CardinalityType
  <1>2. j \in Nat /\ j < n /\ r \in 0..99 /\ (r # 0 => j + 1 < n)
    <2> HIDE DEF n
    <2>1. CASE k = 1
      BY <1>1, <2>1
    <2>2. CASE k = 99
      BY <1>1, <2>2
    <2> QED BY <2>1, <2>2
  <1>3. Quantile(S, value, k) = (Ranked(S, value, j) * (100 - r) + above * r) \div 100
    BY DEF Quantile
  <1> HIDE DEF j, r, n
  <1>4. Ranked(S, value, j) \in Int
    BY <1>2, RankedIs DEF n
  <1>5. r # 0 => Ranked(S, value, j + 1) \in Int
    <2>1. j + 1 \in Nat
      BY <1>2
    <2> QED BY <1>2, <2>1, RankedIs DEF n
  <1>6. above \in Int
    BY <1>4, <1>5
  <1> DEFINE x == Ranked(S, value, j)
             sum == x * (100 - r) + above * r
  <1> HIDE DEF above, x
  <1>7. sum \in Int
    BY <1>2, <1>4, <1>6 DEF x
  <1>8. sum \div 100 \in Int
    <2> HIDE DEF sum
    <2> QED BY <1>7
  <1> QED BY <1>3, <1>8 DEF x

LEMMA BoundsAre ==
    ASSUME NEW mintage \in [Issues -> Nat], NEW finish
    PROVE  Bounds(finish, mintage).rare \in Int /\ Bounds(finish, mintage).common \in Int
  <1> DEFINE class == { i \in Issues : FinishOf[i] = finish /\ mintage[i] > 0 }
             rare == Quantile(class, mintage, 1)
             common == Quantile(class, mintage, 99)
             b == Bounds(finish, mintage)
  <1>1. b = IF Cardinality(class) < MinClass \/ rare >= common THEN [rare |-> 10, common |-> 30000]
            ELSE [rare |-> rare, common |-> common]
    BY DEF Bounds
  <1>2. IsFiniteSet(class) /\ Measured(class, mintage) /\ Cardinality(class) \in Nat
    <2>1. class \subseteq Issues
      OBVIOUS
    <2> HIDE DEF class
    <2>2. IsFiniteSet(class)
      BY <2>1, ScarcityAssumption, FS_Subset
    <2>3. Cardinality(class) \in Nat
      BY <2>2, FS_CardinalityType
    <2> QED BY <2>1, <2>2, <2>3 DEF Measured
  <1>3. MinClass \in Nat /\ MinClass > 1
    BY ScarcityAssumption
  <1> HIDE DEF class, b
  <1>4. CASE Cardinality(class) < MinClass \/ rare >= common
    <2>1. b = [rare |-> 10, common |-> 30000]
      BY <1>1, <1>4
    <2>2. b.rare = 10 /\ b.common = 30000
      BY <2>1
    <2> QED BY <2>2 DEF b
  <1>5. CASE ~(Cardinality(class) < MinClass \/ rare >= common)
    <2>1. Cardinality(class) > 1
      BY <1>2, <1>3, <1>5
    <2>2. rare \in Int /\ common \in Int
      BY <1>2, <2>1, QuantileIs
    <2> HIDE DEF rare, common
    <2>3. b = [rare |-> rare, common |-> common]
      BY <1>1, <1>5
    <2>4. b.rare = rare /\ b.common = common
      BY <2>3
    <2> QED BY <2>2, <2>4 DEF b
  <1> QED BY <1>4, <1>5

LEMMA AtLeastOne ==
    ASSUME NEW x \in Int
    PROVE  /\ Max({x, 2}) \in Nat \ {0} /\ Max({x, 1}) \in Nat \ {0}
           /\ Max({1, x}) = IF x <= 1 THEN 1 ELSE x
  <1>1. Max({x, 2}) = IF x <= 2 THEN 2 ELSE x
    BY DEF Max
  <1>2. Max({x, 1}) = IF x <= 1 THEN 1 ELSE x
    BY DEF Max
  <1>3. Max({1, x}) = IF x <= 1 THEN 1 ELSE x
    BY DEF Max
  <1> QED BY <1>1, <1>2, <1>3

\* Of two mintages of one finish the smaller is not less scarce.
LEMMA ScarceTells ==
    ASSUME NEW mintage \in [Issues -> Nat], NEW i \in Issues, NEW j \in Issues,
           mintage[i] > 0, mintage[j] > 0, mintage[i] <= mintage[j], FinishOf[i] = FinishOf[j]
    PROVE  /\ Scarce(i, mintage) \in 0..100 /\ Scarce(j, mintage) \in 0..100
           /\ Scarce(j, mintage) <= Scarce(i, mintage)
  <1> DEFINE b == Bounds(FinishOf[i], mintage)
             top == Lg(Max({b.common, 2}))
             width == top - Lg(Max({b.rare, 1}))
             li == Lg(mintage[i])
             lj == Lg(mintage[j])
  <1>1. /\ Scarce(i, mintage) = IF width <= 0 THEN 50 ELSE Clamp((100 * (top - li)) \div width)
        /\ Scarce(j, mintage) = IF width <= 0 THEN 50 ELSE Clamp((100 * (top - lj)) \div width)
    BY DEF Scarce
  <1>2. top \in Nat /\ width \in Int
    <2>1. b.rare \in Int /\ b.common \in Int
      BY BoundsAre
    <2> HIDE DEF b
    <2>2. Max({b.common, 2}) \in Nat \ {0} /\ Max({b.rare, 1}) \in Nat \ {0}
      BY <2>1, AtLeastOne
    <2>3. Lg(Max({b.common, 2})) \in Nat /\ Lg(Max({b.rare, 1})) \in Nat
      BY <2>2, LgStep
    <2> QED BY <2>3
  <1>3. li \in Nat /\ lj \in Nat /\ li <= lj
    <2>1. mintage[i] \in Nat \ {0} /\ mintage[j] \in Nat \ {0}
      OBVIOUS
    <2> QED BY <2>1, LgRises
  <1> HIDE DEF top, width, li, lj
  <1>4. CASE width <= 0
    BY <1>1, <1>4
  <1>5. CASE ~(width <= 0)
    <2> DEFINE x == 100 * (top - li)
               y == 100 * (top - lj)
    <2>1. x \in Int /\ y \in Int /\ y <= x /\ width \in Nat \ {0}
      BY <1>2, <1>3, <1>5
    <2>2. Scarce(i, mintage) = Clamp(x \div width) /\ Scarce(j, mintage) = Clamp(y \div width)
      BY <1>1, <1>5
    <2> HIDE DEF x, y
    <2>3. x \div width \in Int /\ y \div width \in Int /\ y \div width <= x \div width
      BY <2>1, DivRises
    <2> QED BY <2>2, <2>3, ClampRises
  <1> QED BY <1>4, <1>5

LEMMA PerMillionIs ==
    ASSUME NEW mintage \in [Issues -> Nat], NEW listed \in [Issues -> Nat], NEW i \in Issues,
           mintage[i] > 0
    PROVE  PerMillion(i, mintage, listed) \in Nat
  <1> DEFINE a == listed[i] * 1000000
             n == mintage[i]
  <1>1. a \in Nat /\ n \in Nat \ {0}
    OBVIOUS
  <1> HIDE DEF a, n
  <1>2. a \div n \in Nat
    BY <1>1, DivNatural
  <1> QED BY <1>2 DEF PerMillion, a, n

LEMMA BaselineIs ==
    ASSUME NEW mintage \in [Issues -> Nat], NEW listed \in [Issues -> Nat], NEW seen
    PROVE  Baseline(mintage, seen, listed) \in Nat
  <1> DEFINE offered == { i \in WithSupply(mintage, seen) : listed[i] > 0 }
             supply == [i \in offered |-> PerMillion(i, mintage, listed)]
             n == Cardinality(offered)
             j == (n - 1) \div 2
             k == n \div 2
  <1>1. Baseline(mintage, seen, listed) =
           IF n = 0 THEN 0 ELSE (Ranked(offered, supply, j) + Ranked(offered, supply, k)) \div 2
    BY DEF Baseline
  <1>2. offered \subseteq Issues /\ \A i \in offered : mintage[i] > 0
    BY DEF WithSupply
  <1> HIDE DEF offered
  <1>3. \A i \in offered : supply[i] \in Nat
    BY <1>2, PerMillionIs
  <1> HIDE DEF supply
  <1>4. IsFiniteSet(offered) /\ n \in Nat
    <2>1. IsFiniteSet(offered)
      BY <1>2, ScarcityAssumption, FS_Subset
    <2> QED BY <2>1, FS_CardinalityType
  <1>5. CASE n = 0
    BY <1>1, <1>5
  <1>6. CASE n # 0
    <2>1. j \in Nat /\ j < n /\ k \in Nat /\ k < n
      <3> HIDE DEF n
      <3> QED BY <1>4, <1>6
    <2>2. Measured(offered, supply)
      BY <1>3 DEF Measured
    <2> HIDE DEF j, k
    <2>3. IsRanked(offered, supply, j, Ranked(offered, supply, j))
          /\ IsRanked(offered, supply, k, Ranked(offered, supply, k))
      BY <1>4, <2>1, <2>2, RankedIs
    <2> DEFINE x == Ranked(offered, supply, j)
               y == Ranked(offered, supply, k)
    <2>4. x \in Nat /\ y \in Nat
      BY <1>3, <2>3 DEF IsRanked
    <2> HIDE DEF x, y
    <2>5. (x + y) \div 2 \in Nat
      BY <2>4
    <2> QED BY <1>1, <1>6, <2>5 DEF x, y
  <1> QED BY <1>5, <1>6

\* Two components that are both unknown, or known, the first no less than the second.
NoLess(A, B) ==
    \/ A = {} /\ B = {}
    \/ \E a \in 0..100, b \in 0..100 : A = {a} /\ B = {b} /\ b <= a

LEMMA AtLeastTells ==
    ASSUME NEW x \in Nat, NEW y \in Nat, x <= y
    PROVE  Max({1, x}) \in Nat \ {0} /\ Max({1, y}) \in Nat \ {0} /\ Max({1, x}) <= Max({1, y})
  <1> DEFINE p == Max({1, x})
             q == Max({1, y})
  <1>1. p = IF x <= 1 THEN 1 ELSE x
    <2>1. x \in Int
      OBVIOUS
    <2> QED BY <2>1, AtLeastOne
  <1>2. q = IF y <= 1 THEN 1 ELSE y
    <2>1. y \in Int
      OBVIOUS
    <2> QED BY <2>1, AtLeastOne
  <1> HIDE DEF p, q
  <1>3. p \in Nat \ {0} /\ q \in Nat \ {0} /\ p <= q
    BY <1>1, <1>2
  <1> QED BY <1>3 DEF p, q

\* Less on offer for every coin struck is no less rare.
LEMMA AvailabilityTells ==
    ASSUME NEW mintage \in [Issues -> Nat], NEW listed \in [Issues -> Nat], NEW seen,
           NEW i \in Issues, NEW j \in Issues, mintage[i] > 0, mintage[j] > 0,
           i \in WithSupply(mintage, seen) <=> j \in WithSupply(mintage, seen),
           PerMillion(i, mintage, listed) <= PerMillion(j, mintage, listed)
    PROVE  NoLess(Availability(i, mintage, seen, listed), Availability(j, mintage, seen, listed))
  <1> DEFINE usual == Baseline(mintage, seen, listed)
             pi == Max({1, PerMillion(i, mintage, listed)})
             pj == Max({1, PerMillion(j, mintage, listed)})
             xi == 50 - (50 * (Lg(pi) - Lg(usual))) \div 1000
             xj == 50 - (50 * (Lg(pj) - Lg(usual))) \div 1000
             known == WithSupply(mintage, seen)
  <1>1. /\ Availability(i, mintage, seen, listed)
              = IF usual = 0 \/ i \notin known THEN {} ELSE {Clamp(xi)}
        /\ Availability(j, mintage, seen, listed)
              = IF usual = 0 \/ j \notin known THEN {} ELSE {Clamp(xj)}
    BY DEF Availability
  <1>2. usual \in Nat
    BY BaselineIs
  <1>3. pi \in Nat \ {0} /\ pj \in Nat \ {0} /\ pi <= pj
    <2>1. PerMillion(i, mintage, listed) \in Nat /\ PerMillion(j, mintage, listed) \in Nat
      BY PerMillionIs
    <2> HIDE DEF usual, known
    <2> QED BY <2>1, AtLeastTells
  <1>0. i \in known <=> j \in known
    OBVIOUS
  <1> HIDE DEF usual, pi, pj, known
  <1>4. CASE usual = 0 \/ i \notin known
    <2>1. Availability(i, mintage, seen, listed) = {}
      BY <1>1, <1>4, ZenonT(60)
    <2>2. usual = 0 \/ j \notin known
      BY <1>0, <1>4, ZenonT(60)
    <2>3. Availability(j, mintage, seen, listed) = {}
      BY <1>1, <2>2, ZenonT(60)
    <2> QED BY <2>1, <2>3, Zenon DEF NoLess
  <1>5. CASE usual # 0 /\ i \in known
    <2>1. Lg(pi) \in Nat /\ Lg(pj) \in Nat /\ Lg(pi) <= Lg(pj) /\ Lg(usual) \in Nat
      <3>1. usual \in Nat \ {0}
        BY <1>2, <1>5
      <3> QED BY <1>3, <3>1, LgRises, LgStep
    <2>2. xi \in Int /\ xj \in Int /\ xj <= xi
      BY <2>1
    <2> HIDE DEF xi, xj
    <2>3. Clamp(xi) \in 0..100 /\ Clamp(xj) \in 0..100 /\ Clamp(xj) <= Clamp(xi)
      BY <2>2, ClampRises
    <2>4. j \in known
      BY <1>0, <1>5, Zenon
    <2>5. Availability(i, mintage, seen, listed) = {Clamp(xi)}
      BY <1>1, <1>5, ZenonT(60)
    <2>6. Availability(j, mintage, seen, listed) = {Clamp(xj)}
      BY <1>1, <1>5, <2>4, ZenonT(60)
    <2> QED BY <2>3, <2>5, <2>6, Zenon DEF NoLess
  <1> QED BY <1>4, <1>5

\* Face value and less is no premium; beyond, a higher price is none lower.
LEMMA PremiumTells ==
    ASSUME NEW m \in Nat, NEW n \in Nat, n <= m
    PROVE  Premium(m) \in 0..100 /\ Premium(n) \in 0..100 /\ Premium(n) <= Premium(m)
  <1> DEFINE share(x) == (100 * (Lg(x) - 2111)) \div 2889
  <1>1. \A x : Premium(x) = IF x <= 200 THEN 0 ELSE Clamp(share(x))
    BY LgOfPrices DEF Premium
  <1> HIDE DEF share
  <1>2. CASE n <= 200
    <2>1. Premium(n) = 0
      BY <1>1, <1>2
    <2>2. Premium(m) \in 0..100
      <3>1. CASE m <= 200
        BY <1>1, <3>1
      <3>2. CASE ~(m <= 200)
        <4>1. m \in Nat \ {0}
          BY <3>2
        <4>2. Lg(m) \in Nat
          BY <4>1, LgStep
        <4>3. share(m) \in Int
          BY <4>2 DEF share
        <4> QED BY <1>1, <3>2, <4>3, ClampRises
      <3> QED BY <3>1, <3>2
    <2> QED BY <2>1, <2>2
  <1>3. CASE ~(n <= 200)
    <2>1. m \in Nat \ {0} /\ n \in Nat \ {0} /\ ~(m <= 200)
      BY <1>3
    <2>2. Lg(m) \in Nat /\ Lg(n) \in Nat /\ Lg(n) <= Lg(m)
      BY <2>1, LgRises
    <2>3. share(m) \in Int /\ share(n) \in Int /\ share(n) <= share(m)
      BY <2>2 DEF share
    <2>4. /\ Clamp(share(m)) \in 0..100 /\ Clamp(share(n)) \in 0..100
          /\ Clamp(share(n)) <= Clamp(share(m))
      BY <2>3, ClampRises
    <2> QED BY <1>1, <1>3, <2>1, <2>4
  <1> QED BY <1>2, <1>3

\* The weighted score, spelled out for each of what may be known.
LEMMA Lonely == ASSUME NEW a PROVE Cardinality({a}) = 1 /\ (CHOOSE x \in {a} : TRUE) = a
  BY FS_Singleton

LEMMA ScoreAlone == ASSUME NEW s PROVE Score(s, {}, {}) = (60 * s + 0 + 0) \div 60
  <1>1. Cardinality({}) = 0 /\ 60 + 25 * 0 + 15 * 0 = 60
    BY FS_EmptySet
  <1> QED BY <1>1 DEF Score

LEMMA ScoreAvailable ==
    ASSUME NEW s, NEW a PROVE Score(s, {a}, {}) = (60 * s + 25 * a + 0) \div 85
  <1>1. Cardinality({}) = 0 /\ Cardinality({a}) = 1 /\ (CHOOSE x \in {a} : TRUE) = a
    BY FS_EmptySet, Lonely
  <1>2. 60 + 25 * 1 + 15 * 0 = 85
    OBVIOUS
  <1> QED BY <1>1, <1>2 DEF Score

LEMMA ScoreDealt ==
    ASSUME NEW s, NEW p PROVE Score(s, {}, {p}) = (60 * s + 0 + 15 * p) \div 75
  <1>1. Cardinality({}) = 0 /\ Cardinality({p}) = 1 /\ (CHOOSE x \in {p} : TRUE) = p
    BY FS_EmptySet, Lonely
  <1>2. 60 + 25 * 0 + 15 * 1 = 75
    OBVIOUS
  <1> QED BY <1>1, <1>2 DEF Score

Weighted(s, a, p) == (60 * s + 25 * a + 15 * p) \div 100
LEMMA ScoreFull ==
    ASSUME NEW s, NEW a, NEW p PROVE Score(s, {a}, {p}) = Weighted(s, a, p)
  <1>1. Cardinality({a}) = 1 /\ (CHOOSE x \in {a} : TRUE) = a
    BY Lonely
  <1>2. Cardinality({p}) = 1 /\ (CHOOSE x \in {p} : TRUE) = p
    BY Lonely
  <1>3. {a} # {} /\ {p} # {}
    OBVIOUS
  <1>4. Score(s, {a}, {p}) = (60 * s + 25 * a + 15 * p) \div (60 + 25 * 1 + 15 * 1)
    BY <1>1, <1>2, <1>3, ZenonT(40) DEF Score
  <1>5. 60 + 25 * 1 + 15 * 1 = 100
    OBVIOUS
  <1> QED BY <1>4, <1>5, ZenonT(40) DEF Weighted

LEMMA ScoreTells ==
    ASSUME NEW s \in 0..100, NEW t \in 0..100, t <= s, NEW A, NEW B, NoLess(A, B),
           NEW P, NEW Q, NoLess(P, Q)
    PROVE  Score(s, A, P) \in 0..100 /\ Score(t, B, Q) \in 0..100 /\ Score(t, B, Q) <= Score(s, A, P)
  <1>1. CASE A = {} /\ B = {} /\ P = {} /\ Q = {}
    <2>1. /\ Score(s, A, P) = (60 * s + 0 + 0) \div 60
          /\ Score(t, B, Q) = (60 * t + 0 + 0) \div 60
      BY <1>1, ScoreAlone
    <2> QED BY <2>1
  <1>2. ASSUME NEW a \in 0..100, NEW b \in 0..100, A = {a}, B = {b}, b <= a, P = {}, Q = {}
        PROVE  /\ Score(s, A, P) \in 0..100 /\ Score(t, B, Q) \in 0..100
               /\ Score(t, B, Q) <= Score(s, A, P)
    <2>1. /\ Score(s, A, P) = (60 * s + 25 * a + 0) \div 85
          /\ Score(t, B, Q) = (60 * t + 25 * b + 0) \div 85
      <3>1. Score(s, {a}, {}) = (60 * s + 25 * a + 0) \div 85
        BY ScoreAvailable
      <3>2. Score(t, {b}, {}) = (60 * t + 25 * b + 0) \div 85
        BY ScoreAvailable
      <3> QED BY <1>2, <3>1, <3>2
    <2> QED BY <1>2, <2>1
  <1>3. ASSUME NEW a \in 0..100, NEW b \in 0..100, P = {a}, Q = {b}, b <= a, A = {}, B = {}
        PROVE  /\ Score(s, A, P) \in 0..100 /\ Score(t, B, Q) \in 0..100
               /\ Score(t, B, Q) <= Score(s, A, P)
    <2>1. /\ Score(s, A, P) = (60 * s + 0 + 15 * a) \div 75
          /\ Score(t, B, Q) = (60 * t + 0 + 15 * b) \div 75
      BY <1>3, ScoreDealt
    <2> QED BY <1>3, <2>1
  <1>4. ASSUME NEW a \in 0..100, NEW b \in 0..100, A = {a}, B = {b}, b <= a,
               NEW p \in 0..100, NEW q \in 0..100, P = {p}, Q = {q}, q <= p
        PROVE  /\ Score(s, A, P) \in 0..100 /\ Score(t, B, Q) \in 0..100
               /\ Score(t, B, Q) <= Score(s, A, P)
    <2>1. Score(s, A, P) = Weighted(s, a, p) /\ Score(t, B, Q) = Weighted(t, b, q)
      <3>1. Score(s, {a}, {p}) = Weighted(s, a, p)
        BY ScoreFull
      <3>2. Score(t, {b}, {q}) = Weighted(t, b, q)
        BY ScoreFull
      <3> QED BY <1>4, <3>1, <3>2
    <2>2. /\ Weighted(s, a, p) \in 0..100 /\ Weighted(t, b, q) \in 0..100
          /\ Weighted(t, b, q) <= Weighted(s, a, p)
      BY <1>4 DEF Weighted
    <2> QED BY <2>1, <2>2
  <1> QED BY <1>1, <1>2, <1>3, <1>4, ZenonT(40) DEF NoLess

\* The sale of an issue, if it has one.
Deal(p) == {[n |-> 3, median |-> p]}
DealsOf(x) == IF x = {} THEN {{}} ELSE { {Premium(m)} : m \in SaleMedians(x) }

LEMMA DealIs ==
    ASSUME NEW p
    PROVE  SaleMedians(Deal(p)) = {p} /\ DealsOf(Deal(p)) = {{Premium(p)}} /\ Deal(p) # {}
  <1> DEFINE e == [n |-> 3, median |-> p]
  <1>1. e.n = 3 /\ e.median = p /\ Deal(p) = {e}
    BY DEF Deal
  <1> HIDE DEF e
  <1>2. { r \in Deal(p) : \A s \in Deal(p) : s.n <= r.n } = {e}
    BY <1>1
  <1>3. SaleMedians(Deal(p)) = {p}
    BY <1>1, <1>2 DEF SaleMedians
  <1>4. Deal(p) # {}
    BY <1>1
  <1> QED BY <1>3, <1>4 DEF DealsOf

LEMMA RatedIs ==
    ASSUME NEW i, NEW mintage, NEW seen, NEW listed, NEW trades
    PROVE  Rated(i, mintage, seen, listed, trades) =
              { Score(Scarce(i, mintage), Availability(i, mintage, seen, listed), p) :
                  p \in DealsOf(trades[i]) }
  BY DEF Rated, DealsOf

\* What two issues' sales say.
LEMMA DealsTell ==
    ASSUME NEW x \in {{}} \cup { Deal(p) : p \in Prices },
           NEW y \in {{}} \cup { Deal(p) : p \in Prices },
           x = {} <=> y = {}, \A m \in SaleMedians(x), n \in SaleMedians(y) : m >= n,
           NEW P \in DealsOf(x), NEW Q \in DealsOf(y)
    PROVE  NoLess(P, Q)
  <1>1. CASE x = {} /\ y = {}
    <2>1. P = {} /\ Q = {}
      BY <1>1, SMTT(30) DEF DealsOf
    <2> QED BY <2>1 DEF NoLess
  <1>2. CASE x # {} /\ y # {}
    <2>1. PICK p \in Prices : x = Deal(p)
      BY <1>2
    <2>2. PICK q \in Prices : y = Deal(q)
      BY <1>2
    <2>3. P = {Premium(p)} /\ Q = {Premium(q)} /\ p >= q
      BY <2>1, <2>2, DealIs
    <2>4. p \in Nat /\ q \in Nat /\ q <= p
      BY <2>3, ScarcityAssumption
    <2>5. Premium(p) \in 0..100 /\ Premium(q) \in 0..100 /\ Premium(q) <= Premium(p)
      BY <2>4, PremiumTells
    <2> QED BY <2>3, <2>5 DEF NoLess
  <1> QED BY <1>1, <1>2

LEMMA AllRarityTells == ASSUME NEW mintage \in [Issues -> Nat] PROVE RarityTells(mintage)
  <1> DEFINE Trade == {{}} \cup { Deal(p) : p \in Prices }
  <1> SUFFICES ASSUME NEW seen \in [Issues -> BOOLEAN], NEW listed \in [Issues -> {0, 1, 4}],
                      NEW trades \in [Issues -> Trade],
                      NEW i \in Issues, mintage[i] > 0, NEW j \in Issues, mintage[j] > 0
               PROVE  /\ Rated(i, mintage, seen, listed, trades) \subseteq 0..100
                      /\ /\ FinishOf[i] = FinishOf[j] /\ mintage[i] <= mintage[j]
                         /\ (i \in WithSupply(mintage, seen)) = (j \in WithSupply(mintage, seen))
                         /\ PerMillion(i, mintage, listed) <= PerMillion(j, mintage, listed)
                         /\ (trades[i] = {}) = (trades[j] = {})
                         /\ \A m \in SaleMedians(trades[i]), n \in SaleMedians(trades[j]) : m >= n
                         => \A x \in Rated(i, mintage, seen, listed, trades),
                               y \in Rated(j, mintage, seen, listed, trades) : x >= y
    BY SMTT(60) DEF RarityTells, Deal
  <1> HIDE DEF Trade
  <1>1. listed \in [Issues -> Nat]
    OBVIOUS
  <1> DEFINE Fits(a, b) ==
        /\ FinishOf[a] = FinishOf[b] /\ mintage[a] <= mintage[b]
        /\ a \in WithSupply(mintage, seen) <=> b \in WithSupply(mintage, seen)
        /\ PerMillion(a, mintage, listed) <= PerMillion(b, mintage, listed)
        /\ trades[a] = {} <=> trades[b] = {}
        /\ \A m \in SaleMedians(trades[a]), n \in SaleMedians(trades[b]) : m >= n
  <1>2. ASSUME NEW a \in Issues, mintage[a] > 0, NEW b \in Issues, mintage[b] > 0, Fits(a, b),
               NEW x \in Rated(a, mintage, seen, listed, trades),
               NEW y \in Rated(b, mintage, seen, listed, trades)
        PROVE  x \in 0..100 /\ y \in 0..100 /\ y <= x
    <2> DEFINE A == Availability(a, mintage, seen, listed)
               B == Availability(b, mintage, seen, listed)
               s == Scarce(a, mintage)
               t == Scarce(b, mintage)
    <2>1. PICK P \in DealsOf(trades[a]) : x = Score(s, A, P)
      BY RatedIs
    <2>2. PICK Q \in DealsOf(trades[b]) : y = Score(t, B, Q)
      BY RatedIs
    <2>3. NoLess(P, Q)
      <3>1. trades[a] \in Trade /\ trades[b] \in Trade
        OBVIOUS
      <3>2. trades[a] = {} <=> trades[b] = {}
        BY <1>2
      <3>3. \A m \in SaleMedians(trades[a]), n \in SaleMedians(trades[b]) : m >= n
        BY <1>2
      <3> HIDE DEF Fits
      <3> QED BY <3>1, <3>2, <3>3, DealsTell DEF Trade
    <2>4. NoLess(A, B)
      BY <1>1, <1>2, AvailabilityTells
    <2>5. s \in 0..100 /\ t \in 0..100 /\ t <= s
      BY <1>2, ScarceTells
    <2> HIDE DEF A, B, s, t, Fits
    <2>6. Score(s, A, P) \in 0..100 /\ Score(t, B, Q) \in 0..100 /\ Score(t, B, Q) <= Score(s, A, P)
      BY <2>3, <2>4, <2>5, ScoreTells, ZenonT(40)
    <2> QED BY <2>1, <2>2, <2>6, ZenonT(40)
  <1>3. ASSUME NEW x \in Rated(i, mintage, seen, listed, trades) PROVE x \in 0..100
    <2>1. \A m \in SaleMedians(trades[i]), n \in SaleMedians(trades[i]) : m >= n
      <3>1. CASE trades[i] = {}
        BY <3>1 DEF SaleMedians
      <3>2. CASE trades[i] # {}
        <4>1. PICK p \in Prices : trades[i] = Deal(p)
          BY <3>2 DEF Trade
        <4>2. p \in Nat /\ SaleMedians(trades[i]) = {p}
          BY <4>1, DealIs, ScarcityAssumption
        <4> QED BY <4>2
      <3> QED BY <3>1, <3>2
    <2>2. PerMillion(i, mintage, listed) \in Nat /\ mintage[i] \in Nat
      BY <1>1, PerMillionIs
    <2>3. mintage[i] <= mintage[i]
      BY <2>2
    <2>4. PerMillion(i, mintage, listed) <= PerMillion(i, mintage, listed)
      BY <2>2
    <2>5. Fits(i, i)
      BY <2>1, <2>3, <2>4
    <2> HIDE DEF Fits
    <2> QED BY <1>2, <2>5
  <1>4. ASSUME /\ FinishOf[i] = FinishOf[j] /\ mintage[i] <= mintage[j]
               /\ (i \in WithSupply(mintage, seen)) = (j \in WithSupply(mintage, seen))
               /\ PerMillion(i, mintage, listed) <= PerMillion(j, mintage, listed)
               /\ (trades[i] = {}) = (trades[j] = {})
               /\ \A m \in SaleMedians(trades[i]), n \in SaleMedians(trades[j]) : m >= n,
               NEW x \in Rated(i, mintage, seen, listed, trades),
               NEW y \in Rated(j, mintage, seen, listed, trades)
        PROVE  x >= y
    <2>1. Fits(i, j)
      BY <1>4
    <2>2. x \in 0..100 /\ y \in 0..100 /\ y <= x
      <3> HIDE DEF Fits
      <3> QED BY <1>2, <2>1
    <2> QED BY <2>2
  <1> QED BY <1>3, <1>4

\* A smaller emission is never worth less, and of two coins alike to the market the scarcer one
\* never scores less, for any catalogue, buckets and prices (mintage_model.py, scorer.py).
THEOREM ScarcityTold == CatalogueSpec => []ScarcityTells
  <1> DEFINE Inv == mintages = NoFigures \/ mintages \in [Issues -> Mintages]
  <1>1. CatalogueInit => Inv
    BY DEF CatalogueInit
  <1>2. Inv /\ [CatalogueNext]_mintages => Inv'
    BY DEF CatalogueNext
  <1>3. Inv => ScarcityTells
    <2> SUFFICES ASSUME mintages \in [Issues -> Mintages]
                 PROVE  BandsTell(mintages) /\ RarityTells(mintages)
      BY DEF ScarcityTells
    <2>1. mintages \in [Issues -> Nat]
      BY ScarcityAssumption
    <2> QED BY <2>1, AllBandsTell, AllRarityTells
  <1> QED BY <1>1, <1>2, <1>3, PTL DEF CatalogueSpec
================================================================================
