----------------------------- MODULE PriceEstimates -----------------------------
(***************************************************************************)
(* What one coin issue is said to be worth:                                *)
(*   pricing/estimator.py      an estimate from a sample of observations   *)
(*   pricing/recompute.py      the issue's estimates, the mintage model    *)
(*   scheduler/jobs.py         run_recompute_prices, run_numista_prices    *)
(*   catalog/ingest_ebay.py, platform/community_market.py                  *)
(*                             where observations come from and go to      *)
(* The recomputation is a transaction per issue with observations, and one *)
(* for the mintage model of all issues; other jobs commit in between.      *)
(*                                                                         *)
(* An estimate carries the observations it rests on in place of its        *)
(* quartiles.  Left out: regions other than "global", outliers (a trusted  *)
(* sample has none), the match confidence (all observations are certain),  *)
(* the history rows and spike events written beside an estimate, and the   *)
(* alerts, which the last transaction checks and which read estimates.     *)
(***************************************************************************)
EXTENDS Naturals, FiniteSets

CONSTANTS
    Sales,       \* ids of SOLD and AUCTION_CLOSED observations
    Asks,        \* ids of ASKING observations
    Grades,
    MinSample,   \* estimator.MIN_SAMPLE
    WidenBelow,  \* estimator.WIDEN_BELOW
    MaxFaults    \* bound on runs that fail

Observations == Sales \cup Asks

ASSUME PricesAssumption ==
    /\ IsFiniteSet(Sales) /\ IsFiniteSet(Asks) /\ Sales \cap Asks = {}
    /\ MinSample \in Nat \ {0} /\ WidenBelow \in Nat /\ MinSample <= WidenBelow
    /\ Grades # {} /\ MaxFaults \in Nat

VARIABLES
    age,      \* of an observation of the issue by observed_at; "none" and "gone": no row
    grade,    \* its grade
    est,      \* per grade: the price_estimate row with basis sold or asking_only
    catalog,  \* there are rows of basis catalog
    model,    \* there is a row of basis mintage_model
    counted,  \* model_band gives a band: the design's mintage is known
    job,      \* where run_recompute_prices is
    held,     \* what it read: `existing` holds the issue's model row
    offer,    \* what it made of the issue: "better" (not among the rows), "band" or "none"
    faults,
    outlived  \* runs in a row that left a model row beside a better basis, up to two

obsVars == <<age, grade>>
heldVars == <<held, offer>>
priceVars == <<est, catalog, model, counted>>
vars == <<obsVars, priceVars, job, heldVars, faults, outlived>>

Ages == {"none", "future", "fresh", "year", "old", "gone"}
\* The grade recorded of an observation that is not there.
AnyGrade == CHOOSE g \in Grades : TRUE

NoEstimate == [basis |-> "none", sample |-> {}]

Init ==
    /\ age = [o \in Observations |-> "none"]
    /\ grade = [o \in Observations |-> AnyGrade]
    /\ est = [g \in Grades |-> NoEstimate]
    /\ catalog = FALSE /\ model = FALSE /\ counted = FALSE
    /\ job = "idle" /\ held = FALSE /\ offer = "none"
    /\ faults = 0 /\ outlived = 0

-----------------------------------------------------------------------------
(* Observations.                                                            *)

Kept(o) == age[o] \notin {"none", "gone"}

Observed(o, g, a) ==
    /\ age' = [age EXCEPT ![o] = a]
    /\ grade' = [grade EXCEPT ![o] = g]
    /\ UNCHANGED <<priceVars, job, heldVars, faults, outlived>>

\* A realised sale is recorded once (close_auction, close_listing, record_purchase); a
\* purchase carries the date its collector gave.
Sell(o, g, a) == o \in Sales /\ age[o] = "none" /\ Observed(o, g, a)

\* ingest_listings or record_listing: an ask is seen, or seen again; it "follows the
\* catalog as it grows" and may come back with another grade.
Ask(o, g) == o \in Asks /\ age[o] # "gone" /\ Observed(o, g, "fresh")

\* The ask leaves the issue: close_listing deletes it, or ingest_listings matches its
\* listing to another coin.
Leave(o) == o \in Asks /\ Kept(o) /\ Observed(o, AnyGrade, "gone")

\* Time passes for an observation: 90 days, a year.
Later == [future |-> "fresh", fresh |-> "year", year |-> "old"]
Age(o) == age[o] \in DOMAIN Later /\ Observed(o, grade[o], Later[age[o]])

(* The catalogue.                                                           *)

\* run_numista_prices: rows for the grades Numista prices; it takes none back.
PriceFromCatalog ==
    /\ ~catalog /\ catalog' = TRUE
    /\ UNCHANGED <<obsVars, est, model, counted, job, heldVars, faults, outlived>>

\* A source reports the mintage of the design or of one of its issues; or the issue that
\* had it gets a better basis: `totals` is summed over the issues without one.
Count ==
    /\ counted' = ~counted
    /\ UNCHANGED <<obsVars, est, catalog, model, job, heldVars, faults, outlived>>

-----------------------------------------------------------------------------
(* estimator.estimate.                                                      *)

\* _within one year, of one grade.
Valid(o, g) == age[o] \in {"fresh", "year"} /\ grade[o] = g

\* _pick_window: the last 90 days if they hold enough, else the year.
Window(obs) ==
    LET recent == {o \in obs : age[o] = "fresh"}
    IN  IF Cardinality(recent) >= WidenBelow THEN recent ELSE obs

Estimate(g) ==
    LET sold   == Window({o \in Sales : Valid(o, g)})
        asking == Window({o \in Asks : Valid(o, g)})
    IN  IF Cardinality(sold) >= MinSample THEN [basis |-> "sold", sample |-> sold]
        ELSE IF Cardinality(asking) >= MinSample
             THEN [basis |-> "asking_only", sample |-> asking]
        ELSE NoEstimate

(* run_recompute_prices.                                                    *)

\* Mutant of Recomputed: a grade no observation has any more keeps its row.
RecomputedInPlace ==
    [g \in Grades |-> IF \E o \in Observations : Kept(o) /\ grade[o] = g
                      THEN Estimate(g) ELSE est[g]]
\* The estimates recompute_issue_prices leaves: one for every grade with a sample, and
\* the others deleted.
Recomputed == [g \in Grades |-> Estimate(g)]

\* Mutant of Listed: only issues with an observation of the year.
ListedRecent == \E o \in Observations : age[o] \in {"fresh", "year"}
\* issues_with_observations.
Listed == \E o \in Observations : Kept(o)

StartRun ==
    /\ job = "idle"
    /\ job' = IF Listed THEN "listed" ELSE "priced"
    /\ UNCHANGED <<obsVars, priceVars, heldVars, faults, outlived>>

\* recompute_issue_prices and its commit.
PriceIssue ==
    /\ job = "listed" /\ job' = "priced"
    /\ est' = Recomputed
    /\ UNCHANGED <<obsVars, catalog, model, counted, heldVars, faults, outlived>>

Better == catalog \/ \E g \in Grades : est[g].basis = "sold"

\* recompute_model_estimates reads the model rows there are ...
ReadHeld ==
    /\ job = "priced" /\ job' = "held"
    /\ held' = model
    /\ UNCHANGED <<obsVars, priceVars, offer, faults, outlived>>

\* ... then the issues that are not among those with a better basis, and bands them.
Weigh ==
    /\ job = "held" /\ job' = "weighed"
    /\ offer' = IF Better THEN "better" ELSE IF counted THEN "band" ELSE "none"
    /\ UNCHANGED <<obsVars, priceVars, held, faults, outlived>>

\* No row was there: one is added.
Add == offer = "band" /\ ~held /\ model' = TRUE
\* The row gets the new band.
Refresh == offer = "band" /\ held /\ UNCHANGED model
\* Neither a band nor a row, or a better basis and no row: nothing to do.
Pass == offer # "band" /\ ~held /\ UNCHANGED model
\* The issue is among the rows and has no band.
DeleteUnbanded == offer = "none" /\ held /\ model' = FALSE
\* Mutant of DeleteStale: what is left in `existing` stays.
StaleStays == offer = "better" /\ held /\ UNCHANGED model
\* The issue was not among the rows: it is left in `existing`.
DeleteStale == offer = "better" /\ held /\ model' = FALSE

\* The last transaction: it writes the model row, and the run ends.
WriteModel ==
    /\ job = "weighed" /\ job' = "idle"
    /\ Add \/ Refresh \/ Pass \/ DeleteUnbanded \/ DeleteStale
    /\ outlived' = IF model' /\ Better
                   THEN IF outlived = 0 THEN 1 ELSE 2 ELSE 0
    /\ held' = FALSE /\ offer' = "none"
    /\ UNCHANGED <<obsVars, est, catalog, counted, faults>>

\* The run fails; what it committed for the issue stays.
FailRun ==
    /\ job # "idle" /\ job' = "idle"
    /\ faults < MaxFaults /\ faults' = faults + 1
    /\ held' = FALSE /\ offer' = "none"
    /\ UNCHANGED <<obsVars, priceVars, outlived>>

Next ==
    \/ \E o \in Observations, g \in Grades :
          \/ \E a \in {"future", "fresh", "year", "old"} : Sell(o, g, a)
          \/ Ask(o, g)
    \/ \E o \in Observations : Leave(o) \/ Age(o)
    \/ PriceFromCatalog \/ Count
    \/ StartRun \/ PriceIssue \/ ReadHeld \/ Weigh \/ WriteModel \/ FailRun

Spec == Init /\ [][Next]_vars

\* The scheduler runs the job every day and a run goes on to its end.
Fairness == WF_vars(StartRun \/ PriceIssue \/ ReadHeld \/ Weigh \/ WriteModel)
FairSpec == Spec /\ Fairness

-----------------------------------------------------------------------------
(* Properties.                                                              *)

TypeOK ==
    /\ age \in [Observations -> Ages]
    /\ grade \in [Observations -> Grades]
    /\ est \in [Grades -> [basis : {"none", "sold", "asking_only"},
                           sample : SUBSET Observations]]
    /\ catalog \in BOOLEAN /\ model \in BOOLEAN /\ counted \in BOOLEAN
    /\ job \in {"idle", "listed", "priced", "held", "weighed"}
    /\ held \in BOOLEAN /\ offer \in {"better", "band", "none"}
    /\ faults \in 0..MaxFaults /\ outlived \in 0..2

\* No price without evidence: what the recomputation of an issue leaves rests on enough
\* observations of one kind and of that grade, all there and of the last year; asks are
\* used only where the year's sales are too few, and no sale of the last 90 days is ignored.
RestsOnEvidence ==
    [][job = "listed" /\ job' = "priced" =>
          \A g \in Grades :
              LET e    == est'[g]
                  year == {o \in Sales : Valid(o, g)}
              IN  e # NoEstimate =>
                      /\ Cardinality(e.sample) >= MinSample
                      /\ \A o \in e.sample : Valid(o, g)
                      /\ e.basis = "sold" => /\ e.sample \subseteq Sales
                                             /\ {o \in year : age[o] = "fresh"} \subseteq e.sample
                      /\ e.basis = "asking_only" => /\ e.sample \subseteq Asks
                                                    /\ Cardinality(year) < MinSample]_vars

\* "Issues that gained a better basis lose their model row", also when the basis came in
\* while the run was weighing, too late for it: two runs in a row do not end with a model row
\* beside a better basis, whatever fails in between and whatever becomes of the sales.
OutlivesOneRun == outlived <= 1

\* The price of a grade is not from today's market: no observation behind its basis has
\* been there within a year.
Stale(g) ==
    /\ est[g] # NoEstimate
    /\ \A o \in IF est[g].basis = "sold" THEN Sales ELSE Asks : ~Valid(o, g)

\* "Price estimates whose observations aged out are deleted", for realised prices.
SoldStaleWithdrawn == \A g \in Grades : (Stale(g) /\ est[g].basis = "sold") ~> ~Stale(g)
================================================================================
