------------------------------ MODULE MarketDesk -------------------------------
(***************************************************************************)
(* What collectors are told about the market of a coin: price alerts and    *)
(* the watch list, answered by the last transaction of run_recompute_prices *)
(* (scheduler/jobs.py), while users and other jobs go on:                   *)
(*   platform/alerts.py             check_alerts                            *)
(*   platform/market_assistant.py   notify_watchers                         *)
(*   api/routers/portfolio.py, api/routers/assistant.py   the requests      *)
(* Two runs overlap when one is started from a command line: their lock is  *)
(* per process.  Each reads committed rows and its own; nothing but the     *)
(* reads keeps it from repeating an announcement.                           *)
(*                                                                         *)
(* The coin has one variant.  The jobs that store observations and          *)
(* estimates, and the days that pass, take its market from any of Markets   *)
(* to any other.  Left out: reading notifications, their texts.             *)
(***************************************************************************)
EXTENDS MarketIntel

CONSTANTS
    Markets,    \* what the database may hold of the coin: [obs, est, coloured]
    Users,
    Alerts,     \* ids of price_alert rows
    Thresholds, \* [direction, threshold] an alert may have
    Runs,       \* runs of recompute_prices in progress at once: the server's, a command line's
    Server,     \* the one the scheduler starts
    Threshold,  \* deal_threshold_pct, in tenths of a percent
    Months      \* bound on months

ASSUME DeskAssumption ==
    /\ Server \in Runs /\ Months \in Nat \ {0} /\ Threshold \in Nat \ {0}
    /\ \A t \in Thresholds : t.direction \in {"above", "below"} /\ t.threshold \in Nat

\* Finitely many rows, with whole cents and days.
ASSUME MarketsAssumption ==
    \A m \in Markets : /\ IsFiniteSet(m.obs) /\ IsFiniteSet(m.est)
                       /\ \A o \in m.obs : o.price \in Int /\ o.days \in Int
                       /\ \A e \in m.est : e.median \in Int /\ e.p25 \in Int

VARIABLES
    market,  \* the observations of the coin and its estimates
    month,   \* of the calendar
    alert,   \* per alert: "none", "gone", or [wants, active]
    watches, \* users who follow the coin
    sent,    \* per announcement: the notifications with it
    run      \* per run: where its last transaction is

vars == <<market, month, alert, watches, sent, run>>

Ids == { o.id : o \in UNION { m.obs : m \in Markets } }
News == [kind : {"price_alert"}, alert : Alerts]
          \cup [kind : {"deal"}, user : Users, listing : Ids]
          \cup [kind : {"price_move"}, user : Users, month : 1..Months]

\* What the assistant says of each market.
View == [m \in Markets |-> MarketForType(m)]
Worth == [m \in Markets |-> Valuation(m.est)]
OnDeals == [m \in Markets |-> Deals(m.obs, View[m], Threshold)]

None == [state |-> "none"]
Deleted == [state |-> "gone"]
Idle == [phase |-> "idle", hits |-> {}, news |-> {}, alone |-> TRUE]

Init ==
    /\ market \in Markets /\ month = 1
    /\ alert = [a \in Alerts |-> None] /\ watches = {}
    /\ sent = [n \in News |-> 0]
    /\ run = [r \in Runs |-> Idle]

-----------------------------------------------------------------------------
(* Users, other jobs, time.                                                 *)

Active(a) == alert[a].state = "active"

\* create_alert.
Create(a, t) ==
    /\ alert[a] = None
    /\ alert' = [alert EXCEPT ![a] = [state |-> "active", wants |-> t]]
    /\ UNCHANGED <<market, month, watches, sent, run>>

\* delete_alert, by its owner; it waits for a run that has updated the row.
Held(a) == \E r \in Runs : run[r].phase = "noted" /\ a \in run[r].hits
Delete(a) ==
    /\ alert[a].state \in {"active", "fired"} /\ ~Held(a)
    /\ alert' = [alert EXCEPT ![a] = Deleted]
    /\ UNCHANGED <<market, month, watches, sent, run>>

Watch(u) ==
    /\ u \notin watches /\ watches' = watches \cup {u}
    /\ UNCHANGED <<market, month, alert, sent, run>>

Unwatch(u) ==
    /\ u \in watches /\ watches' = watches \ {u}
    /\ UNCHANGED <<market, month, alert, sent, run>>

Drift(m) ==
    /\ m # market /\ market' = m
    /\ UNCHANGED <<month, alert, watches, sent, run>>

NewMonth ==
    /\ month < Months /\ month' = month + 1
    /\ UNCHANGED <<market, alert, watches, sent, run>>

-----------------------------------------------------------------------------
(* The last transaction of a run.                                           *)

Hit(a, e) ==
    IF alert[a].wants.direction = "above" THEN e.median >= alert[a].wants.threshold
    ELSE e.median <= alert[a].wants.threshold

Others(r) == { k \in Runs \ {r} : run[k].phase # "idle" }

\* check_alerts reads the active alerts and what their coin is worth; face value is no
\* market evidence and hits nothing.
Read(r) ==
    /\ run[r].phase = "idle"
    /\ \E e \in IF Worth[market] = {} THEN {[median |-> 0]} ELSE Worth[market] :
          run' = [k \in Runs |->
             IF k = r THEN [phase |-> "read", news |-> {}, alone |-> Others(r) = {},
                            hits |-> { a \in Alerts : Worth[market] # {} /\ Active(a) /\ Hit(a, e) }]
             ELSE [run[k] EXCEPT !.alone = @ /\ run[k].phase = "idle"]]
    /\ UNCHANGED <<market, month, alert, watches, sent>>

\* The alerts' rows are updated.  One that was deleted meanwhile fails the run, with
\* everything it has to tell; one another run has updated makes it wait.
Lost(r) == \E a \in run[r].hits : alert[a] = Deleted
FailRead(r) ==
    /\ run[r].phase = "read" /\ Lost(r)
    /\ run' = [run EXCEPT ![r] = Idle]
    /\ UNCHANGED <<market, month, alert, watches, sent>>

\* Mutant of Fresh: a watcher is told of one deal.
FreshKind(n) == ~\E k \in News : /\ k.kind = n.kind /\ sent[k] > 0
                                 /\ n.kind # "price_alert" /\ k.user = n.user
\* No notification says it yet: by listing, by month.
Fresh(n) == sent[n] = 0

\* notify_watchers: a deal to buy now, a move of 20 %.
Bargains(u) ==
    IF BuyVerdict(View[market]) # "buy_now" THEN {}
    ELSE { [kind |-> "deal", user |-> u, listing |-> o.id] : o \in Cheapest(View[market]) }
Swings(u) ==
    IF \E t \in View[market].trend : t >= 200 \/ t <= -200
    THEN {[kind |-> "price_move", user |-> u, month |-> month]} ELSE {}
ToTell(r) ==
    { [kind |-> "price_alert", alert |-> a] : a \in run[r].hits }
       \cup { n \in UNION { Bargains(u) \cup Swings(u) : u \in watches } : Fresh(n) }

Note(r) ==
    /\ run[r].phase = "read" /\ ~Lost(r)
    /\ ~\E a \in run[r].hits : Held(a)
    /\ run' = [run EXCEPT ![r].phase = "noted", ![r].news = ToTell(r)]
    /\ UNCHANGED <<market, month, alert, watches, sent>>

\* Mutant of Quiet: the alert stays active.
StillActive(a) == alert[a]
\* An alert fires once.
Quiet(a) == [alert[a] EXCEPT !.state = "fired"]

Commit(r) ==
    /\ run[r].phase = "noted"
    /\ alert' = [a \in Alerts |-> IF a \in run[r].hits THEN Quiet(a) ELSE alert[a]]
    /\ sent' = [n \in News |-> IF n \in run[r].news THEN sent[n] + 1 ELSE sent[n]]
    /\ run' = [run EXCEPT ![r] = Idle]
    /\ UNCHANGED <<market, month, watches>>

RunStep(r) == Read(r) \/ FailRead(r) \/ Note(r) \/ Commit(r)

Next ==
    \/ \E a \in Alerts : Delete(a) \/ \E t \in Thresholds : Create(a, t)
    \/ \E u \in Users : Watch(u) \/ Unwatch(u)
    \/ \E m \in Markets : Drift(m)
    \/ NewMonth
    \/ \E r \in Runs : RunStep(r)

Spec == Init /\ [][Next]_vars

\* The scheduler runs the job every day and a run goes on to its end, waiting only for a
\* run that has written; the command line's run may never come, but one that has written
\* commits.
FairSpec == Spec /\ WF_vars(RunStep(Server)) /\ \A r \in Runs : WF_vars(Commit(r))

-----------------------------------------------------------------------------
(* Properties.                                                              *)

TypeOK ==
    /\ market \in Markets /\ month \in 1..Months /\ watches \subseteq Users
    /\ alert \in [Alerts -> {None, Deleted} \cup
                     [state : {"active", "fired"}, wants : Thresholds]]
    /\ sent \in [News -> Nat]
    /\ run \in [Runs -> [phase : {"idle", "read", "noted"}, hits : SUBSET Alerts,
                         news : SUBSET News, alone : BOOLEAN]]

\* "A deal is announced once per listing (the notification payload remembers it)", a move
\* once a month, an alert once: a run that no other run overlapped repeats nothing (two
\* that overlap may both announce it).
ToldOnce ==
    [][\A r \in Runs : Commit(r) /\ run[r].alone => \A n \in run[r].news : sent[n] = 0]_vars

\* Nobody waits for ever: an alert whose condition stays true does not stay active, and a
\* bargain that stays the cheapest is announced to whoever goes on watching, also when an
\* alert of somebody else deleted meanwhile fails a run.
Due(a) == Active(a) /\ Worth[market] # {} /\ \A e \in Worth[market] : Hit(a, e)
Unheard(u) == u \in watches /\ Bargains(u) # {} /\ \A n \in Bargains(u) : sent[n] = 0
WordArrives ==
    /\ \A a \in Alerts : ~<>[]Due(a)
    /\ \A u \in Users : ~<>[]Unheard(u)

\* "A deal needs a real reference: not a model, not other asks": a listing on the deals
\* page is either below the catalogue value by a fifth or below more sales
\* than three quarters of all but one, in a window of the year that holds three.  And the pages agree: the
\* page of its coin tells to buy now, what it tells to buy costs no more than sellers of
\* an uncirculated piece are told to hold out for, and a move watchers hear of is on the
\* list of movers, by the same trend, unless the two read the title of a sale differently (a
\* coloured type, a word of the admin's).
ReadAlike(m) ==
    \A o \in m.obs : Realized(o) =>
        (o.title \in Refused(m.coloured) <=> o.title \in RefusedByMovers)
DealsBacked ==
    /\ \A o \in OnDeals[market] :
          /\ BuyVerdict(View[market]) = "buy_now"
          /\ \/ \E e \in market.est : e.basis = "catalog" /\ 5 * o.price < 4 * e.median
             \/ \E days \in {90, 365} :
                   LET sold == Within(Sold(Shown(market)), days)
                   IN  /\ Cardinality(sold) >= 3
                       /\ 4 * Cardinality({ x \in sold : x.price > o.price })
                             > 3 * (Cardinality(sold) - 1)
    /\ BuyVerdict(View[market]) = "buy_now" =>
          The(Cheapest(View[market])).price <= SellAdvice(View[market], "UNC").floor
    /\ \A u \in Users : Swings(u) # {} /\ ReadAlike(market) =>
          /\ Moves(market)
          /\ Snapshot(ShownToMovers(market), {}).trend = View[market].trend
================================================================================
