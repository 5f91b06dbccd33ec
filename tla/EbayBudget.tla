------------------------------- MODULE EbayBudget -------------------------------
(***************************************************************************)
(* How many calls a day the eBay jobs allow themselves:                     *)
(*   sources/ebay/client.py   a client and what it has spent                *)
(*   scheduler/jobs.py        run_ebay_market, run_auction_close_check,     *)
(*                            what earlier runs of the day have spent       *)
(* Every run builds a client of its own, which forgets what it spent at     *)
(* midnight (UTC).  Other runs are known by the statistics of their row,    *)
(* and those are written when a run ends.                                   *)
(*                                                                         *)
(* Left out: what the answers bring (EbayAuctions), rows and cursors        *)
(* (SyncJob), tokens, and the pause between two calls.  The lock of a job    *)
(* is taken as held across processes.                                       *)
(***************************************************************************)
EXTENDS Naturals, FiniteSets

CONSTANTS
    Runs,     \* sync_run rows of a day (bound)
    Jobs,     \* EBAY_JOBS
    Checks,   \* the one of them that asks about ended auctions; the others search
    Budget,   \* daily_budget, positive
    MaxWork   \* bound on the searches or auctions of a run

ASSUME BudgetAssumption ==
    IsFiniteSet(Runs) /\ Checks \in Jobs /\ Budget \in Nat /\ MaxWork \in Nat

VARIABLES
    run,    \* per row: [state, job, started today, work left, stats, client]
    calls,  \* requests eBay served today
    plain   \* the day so far had none of what the statistics do not show

budgetVars == <<run, calls, plain>>

Client == [today |-> TRUE, spent |-> 0]
Fresh == [state |-> "new", job |-> Checks, today |-> TRUE, left |-> 0, stats |-> 0, client |-> Client]

BudgetInit ==
    /\ calls = 0 /\ plain = TRUE
    /\ run = [r \in Runs |-> Fresh]

InState(s) == { r \in Runs : run[r].state = s }
Active == InState("waiting") \cup InState("working")

\* The client is built before the run waits for the job's lock; runs of the jobs overlap.
BeginRun(r, job) ==
    /\ run[r].state = "new"
    /\ run' = [run EXCEPT ![r] = [Fresh EXCEPT !.state = "waiting", !.job = job]]
    /\ plain' = (plain /\ Active = {})
    /\ UNCHANGED calls

\* Mutant of Earlier: only what the searches spent.
EarlierSearches == { r \in InState("ended") : run[r].today /\ run[r].job # Checks }
\* _ebay_calls_today: the rows of the day with statistics; a run in progress has none yet, and
\* one that was lost never will.
Earlier == { r \in InState("ended") : run[r].today }

Spent(rows) ==
    LET S[T \in SUBSET rows] ==
            IF T = {} THEN 0 ELSE LET r == CHOOSE r \in T : TRUE IN run[r].stats + S[T \ {r}]
    IN  S[rows]

\* The row is written and its work read, by _market_targets or of the ended auctions; only a
\* search is charged with earlier calls.
Plan(r, work) ==
    /\ run[r].state = "waiting" /\ \A k \in InState("working") : run[k].job # run[r].job
    /\ run' = [run EXCEPT
          ![r].state = "working", ![r].today = TRUE, ![r].left = work,
          ![r].client.spent = IF run[r].job = Checks THEN @ ELSE @ + Spent(Earlier)]
    /\ UNCHANGED <<calls, plain>>

\* _spend_budget: midnight clears the count, also what was charged before it.
SpentToday(r) == IF run[r].client.today THEN run[r].client.spent ELSE 0
Affordable(r) == SpentToday(r) < Budget
Paid(r) == [run[r] EXCEPT !.client = [today |-> TRUE, spent |-> SpentToday(r) + 1]]

Working(r) == run[r].state = "working" /\ run[r].left > 0

\* A page of a search, or the look at an auction; the client counts it once also if the request
\* is repeated after a 401.  The last page ends a search, and the statistics count searches.
Call(r, last, repeated) ==
    /\ Working(r) /\ Affordable(r)
    /\ run[r].job = Checks => last
    /\ calls' = calls + (IF repeated THEN 2 ELSE 1)
    /\ run' = [run EXCEPT ![r] = IF last THEN [Paid(r) EXCEPT !.left = @ - 1, !.stats = @ + 1]
                                 ELSE Paid(r)]
    /\ plain' = (plain /\ last /\ ~repeated)

\* What is left of a run.
Row(r, state, stats) ==
    [run[r] EXCEPT !.state = state, !.left = 0, !.stats = stats, !.client = Client]

\* The statistics of a run are written at its end, whether its work is done, the budget is
\* spent, or a request fails: a look is counted before it is made, a search after.
Refused(r) == Working(r) /\ ~Affordable(r)
Counted(r) == run[r].stats + (IF Refused(r) /\ run[r].job = Checks THEN 1 ELSE 0)
End(r) ==
    /\ Refused(r) \/ (run[r].state = "working" /\ run[r].left = 0)
    /\ run' = [run EXCEPT ![r] = Row(r, "ended", Counted(r))]
    /\ UNCHANGED <<calls, plain>>

CallFails(r) ==
    /\ Working(r) /\ Affordable(r)
    /\ calls' = calls + 1
    /\ run' = [run EXCEPT ![r] = Row(r, "ended", run[r].stats + (IF run[r].job = Checks THEN 1 ELSE 0))]
    /\ plain' = (plain /\ run[r].job = Checks)

\* The process ends: a row that is closed later has no statistics.
Crash ==
    /\ Active # {}
    /\ run' = [r \in Runs |-> IF r \in Active THEN Row(r, "lost", 0) ELSE run[r]]
    /\ plain' = FALSE
    /\ UNCHANGED calls

\* A run that is on at midnight is one of yesterday's for the runs to come; yesterday's other
\* rows count no more.
Midnight ==
    /\ run' = [r \in Runs |-> IF r \in Active THEN [run[r] EXCEPT !.today = FALSE, !.client.today = FALSE]
                              ELSE Fresh]
    /\ calls' = 0 /\ plain' = (Active = {})

BudgetNext ==
    \/ \E r \in Runs : \/ End(r) \/ CallFails(r)
                       \/ \E job \in Jobs : BeginRun(r, job)
                       \/ \E work \in 0..MaxWork : Plan(r, work)
                       \/ \E last, repeated \in BOOLEAN : Call(r, last, repeated)
    \/ Crash \/ Midnight

BudgetSpec == BudgetInit /\ [][BudgetNext]_budgetVars

-----------------------------------------------------------------------------
(* Properties.                                                              *)

BudgetTypeOK ==
    /\ calls \in Nat /\ plain \in BOOLEAN
    /\ run \in [Runs -> [state : {"new", "waiting", "working", "ended", "lost"}, job : Jobs,
                         today : BOOLEAN, left : 0..MaxWork, stats : Nat,
                         client : [today : BOOLEAN, spent : Nat]]]

\* On a day whose runs followed one another, none lost, failed in a search or on at midnight,
\* and whose searches had one page each, no search asks eBay once the budget is spent, by
\* whichever jobs (_ebay_calls_today: "calls already spent today by earlier runs").  On other
\* days it may, and the close check is not held back by what the searches spent at all.
BudgetKept ==
    [][\A r \in Runs : run[r].job # Checks /\ calls' > calls /\ run'[r] # run[r] /\ plain
          => calls < Budget]_budgetVars
================================================================================
