------------------------------- MODULE WebMarket -------------------------------
(***************************************************************************)
(* The open-web reader:                                                    *)
(*   scheduler/jobs.py          web_targets, run_web_listings              *)
(*   platform/web_market.py     search_coin                                *)
(*   sources/web/fetcher.py     what a host may answer                     *)
(*   catalog/ingest_ebay.py     ingest_listings, for pages                 *)
(*   api/routers/assistant.py   search_market_now                          *)
(*   api/routers/admin.py       the switch of a site                       *)
(* The daily run reads one coin per transaction, a visitor's search is one  *)
(* transaction; a session is one of these.  They overlap, and what keeps    *)
(* them apart are two unique keys: a site by its host, an observation by    *)
(* its page and kind.                                                       *)
(*                                                                         *)
(* Left out: the reading of pages and titles (a page of a coin's search     *)
(* gives an ask, a sale or nothing for that coin), the tallies of a site,   *)
(* the pause a fetcher keeps in memory (one page of a host per search), and *)
(* the lock and retry of a run (SyncJob).                                   *)
(***************************************************************************)
EXTENDS Naturals, Sequences, FiniteSets, SequencesExt

CONSTANTS
    Coins,       \* regular types
    ByYear,      \* all of them, newest first
    Watched,     \* those on somebody's watch list
    Hosts,       \* shops and classified sites
    Sells,       \* <<coin, host, answer>>: the host has a page of the coin, and may answer so
    Visitors,    \* searches by visitors in progress at once (bound)
    Job,         \* the session of the daily run
    PerRun,      \* WEB_COINS_PER_RUN
    MaxRefusals  \* bound on refusals of the search engine, restarts and broken sessions

ASSUME WebAssumption ==
    /\ Range(ByYear) = Coins /\ Watched \subseteq Coins
    /\ IsFiniteSet(Coins) /\ IsFiniteSet(Hosts)
    /\ Sells \subseteq Coins \X Hosts \X {"ASKING", "SOLD", "nothing", "refused"}
    /\ Job \notin Visitors
    /\ PerRun \in Nat \ {0} /\ MaxRefusals \in Nat

Sessions == Visitors \cup {Job}
Kinds == {"ASKING", "SOLD"}

VARIABLES
    site,     \* per host: "unknown", or the market_site row
    rows,     \* market_observation rows of marketplace WEB: <<coin, host, kind>>
    recent,   \* coins with an observation of the last 30 days
    session,  \* per session: nothing, or the search in progress
    plan,     \* what is left of the run's targets
    running,  \* a run is in progress
    done,     \* its cursor
    refusals

runVars == <<plan, running, done>>
webVars == <<site, rows, recent, session, runVars, refusals>>

Unknown == [known |-> FALSE]
NewSite == [known |-> TRUE, enabled |-> TRUE, paused |-> FALSE]
Idle == [phase |-> "idle"]

WebInit ==
    /\ site = [h \in Hosts |-> Unknown]
    /\ rows = {} /\ recent = {}
    /\ session = [s \in Sessions |-> Idle]
    /\ plan = <<>> /\ running = FALSE /\ done = {}
    /\ refusals = 0

-----------------------------------------------------------------------------
(* search_coin.                                                             *)

Busy == { s \in Sessions : session[s] # Idle }

\* The engine lists pages that sell the coin; when it refuses, the search makes do with
\* what an earlier query listed.
Search(c, left, refused, first) ==
    [phase |-> "reading", coin |-> c, left |-> left, refused |-> refused,
     minted |-> {}, barred |-> {}, pages |-> {}, new |-> {}, at |-> {}, alone |-> first]
Begin(s, c, left, refused) ==
    /\ session[s] = Idle
    /\ left \subseteq { page[2] : page \in { p \in Sells : p[1] = c } }
    /\ refused => refusals < MaxRefusals
    /\ refusals' = IF refused THEN refusals + 1 ELSE refusals
    /\ session' = [k \in Sessions |->
          IF k = s THEN Search(c, left, refused, Busy = {})
          ELSE IF session[k] = Idle THEN Idle ELSE [session[k] EXCEPT !.alone = FALSE]]

\* _site: the row of a new host is inserted; the insertion waits for a session that has
\* inserted it and not committed, and goes before one that comes later.
Minting(s, h) == \E k \in Sessions \ {s} : session[k] # Idle /\ h \in session[k].minted
Awaited(s, h) == \E k \in Sessions \ {s} : session[k] # Idle /\ h \in session[k].at
Wait(s, h) ==
    /\ session[s].phase = "reading" /\ h \in session[s].left /\ session[s].at = {}
    /\ ~site[h].known /\ Minting(s, h)
    /\ session' = [session EXCEPT ![s].at = {h}]
    /\ UNCHANGED <<site, rows, recent, runVars, refusals>>

Reached(s, h) ==
    /\ session[s].phase = "reading" /\ h \in session[s].left
    /\ IF site[h].known THEN session[s].at = {}
       ELSE /\ ~Minting(s, h)
            /\ session[s].at = {h} \/ (session[s].at = {} /\ ~Awaited(s, h))

\* The site is switched off or paused: its pages are not read.
Spared(h) == site[h].known /\ (~site[h].enabled \/ site[h].paused)

\* A page is read: a product on sale, a product sold out, no product (or a failure that is
\* no refusal).  Or the host refuses (robots.txt, 401, 403, 429, 503, a challenge), which
\* pauses it.
Read(s, h, answer) ==
    /\ Reached(s, h)
    /\ IF Spared(h) THEN answer = "spared" ELSE <<session[s].coin, h, answer>> \in Sells
    /\ session' = [session EXCEPT
          ![s].left = @ \ {h}, ![s].at = {},
          ![s].minted = IF site[h].known THEN @ ELSE @ \cup {h},
          ![s].barred = IF answer = "refused" THEN @ \cup {h} ELSE @,
          ![s].pages = IF answer \in Kinds THEN @ \cup {<<session[s].coin, h, answer>>} ELSE @]
    /\ UNCHANGED <<site, rows, recent, runVars, refusals>>

\* Mutant of Stored: the look for a row of the page forgets the kind.
StoredAsk(p) == <<p[1], p[2], "ASKING">> \in rows
\* ingest_listings finds the row of the page and kind.
Stored(p) == p \in rows

\* What is not there is inserted, the rest updated.
Ingest(s) ==
    /\ session[s].phase = "reading" /\ session[s].left = {}
    /\ session' = [session EXCEPT ![s].phase = "stored",
                                  ![s].new = { p \in session[s].pages : ~Stored(p) }]
    /\ UNCHANGED <<site, rows, recent, runVars, refusals>>

\* Another session has committed a row this one inserts; or each of two waits for the other.
Collides(s) ==
    \/ \E h \in session[s].at : site[h].known
    \/ \E h \in session[s].at, k \in Sessions \ {s} :
          /\ session[k] # Idle /\ h \in session[k].minted
          /\ session[k].at \cap session[s].minted # {}
    \/ session[s].new \cap rows # {}

Fail(s) ==
    /\ session[s] # Idle /\ Collides(s)
    /\ session' = [session EXCEPT ![s] = Idle]
    /\ UNCHANGED <<site, rows, recent, refusals>>

\* A session fails for another reason: it and another update the rows of two known sites
\* crosswise and it is the deadlock's victim, a row it updates is gone, the database.
Break(s) ==
    /\ session[s] # Idle
    /\ refusals < MaxRefusals /\ refusals' = refusals + 1
    /\ session' = [session EXCEPT ![s] = Idle]
    /\ UNCHANGED <<site, rows, recent>>

Commit(s) ==
    LET x == session[s]
    IN  /\ x.phase = "stored" /\ ~Collides(s)
        /\ site' = [h \in Hosts |->
              IF h \in x.barred
              THEN [(IF h \in x.minted THEN NewSite ELSE site[h]) EXCEPT !.paused = TRUE]
              ELSE IF h \in x.minted THEN NewSite ELSE site[h]]
        /\ rows' = rows \cup x.pages
        /\ recent' = IF x.pages = {} THEN recent ELSE recent \cup {x.coin}
        /\ session' = [session EXCEPT ![s] = Idle]
        /\ UNCHANGED refusals

-----------------------------------------------------------------------------
(* run_web_listings.                                                        *)

\* Mutant of Targets: what the market does comes before what users follow.
TargetsByActivity ==
    { SubSeq(r \o SelectSeq(ByYear, LAMBDA c : c \notin recent), 1, PerRun) :
         r \in SetToSeqs(recent) }
\* web_targets: watched, recent, the rest by year; the first two in any order.
Targets ==
    { SubSeq(w \o r \o SelectSeq(ByYear, LAMBDA c : c \notin Watched \cup recent), 1, PerRun) :
         w \in SetToSeqs(Watched), r \in SetToSeqs(recent \ Watched) }

StartReading ==
    /\ ~running /\ running' = TRUE
    /\ \E t \in Targets : plan' = SelectSeq(t, LAMBDA c : c \notin done)
    /\ UNCHANGED <<site, rows, recent, session, done, refusals>>

ReadCoin(left, refused) ==
    /\ running /\ plan # <<>>
    /\ Begin(Job, Head(plan), left, refused)
    /\ UNCHANGED <<site, rows, recent, runVars>>

\* The coin's commit and checkpoint; a refusal of the search engine ends the day's work.
CommitCoin ==
    /\ Commit(Job)
    /\ done' = done \cup {session[Job].coin}
    /\ plan' = IF session[Job].refused THEN <<>> ELSE Tail(plan)
    /\ UNCHANGED running

\* A run that ends well begins anew; one that fails, or is lost, keeps its cursor.
EndRun ==
    /\ running /\ plan = <<>>
    /\ running' = FALSE /\ done' = {}
    /\ UNCHANGED <<site, rows, recent, session, plan, refusals>>

FailReading ==
    /\ Fail(Job) \/ Break(Job)
    /\ running' = FALSE /\ plan' = <<>> /\ UNCHANGED done

\* The server is restarted: the searches in progress are rolled back.
Restart ==
    /\ refusals < MaxRefusals /\ refusals' = refusals + 1
    /\ Busy # {} \/ running
    /\ session' = [s \in Sessions |-> Idle]
    /\ running' = FALSE /\ plan' = <<>>
    /\ UNCHANGED <<site, rows, recent, done>>

(* Visitors, the administrator, time.                                       *)

\* search_market_now; that the engine refused makes no difference but to what is listed.
AskNow(s, c, left) ==
    /\ s # Job /\ Begin(s, c, left, FALSE) /\ UNCHANGED <<site, rows, recent, runVars>>
Answer(s) == s # Job /\ Commit(s) /\ UNCHANGED runVars
\* The visitor is told of an error.
Turn(s) == s # Job /\ (Fail(s) \/ Break(s)) /\ UNCHANGED runVars

\* patch_site.
Switch(h) ==
    /\ site[h].known
    /\ site' = [site EXCEPT ![h].enabled = ~@]
    /\ UNCHANGED <<rows, recent, session, runVars, refusals>>

\* 24 hours after a refusal, 30 days after an observation.  A session compares with its own
\* beginning: a pause that ends during it still holds for it.
Resume(h) ==
    /\ site[h].known /\ site[h].paused
    /\ \A s \in Busy : h \notin session[s].left
    /\ site' = [site EXCEPT ![h].paused = FALSE]
    /\ UNCHANGED <<rows, recent, session, runVars, refusals>>
Fade(c) ==
    /\ c \in recent /\ recent' = recent \ {c}
    /\ UNCHANGED <<site, rows, session, runVars, refusals>>

Answers == Kinds \cup {"spared", "refused", "nothing"}
Step(s) == \/ \E h \in Hosts : Wait(s, h) \/ \E a \in Answers : Read(s, h, a)
           \/ Ingest(s)
JobStep ==
    \/ StartReading \/ EndRun \/ CommitCoin \/ FailReading \/ Step(Job)
    \/ \E left \in SUBSET Hosts, refused \in BOOLEAN : ReadCoin(left, refused)

WebNext ==
    \/ JobStep \/ Restart
    \/ \E s \in Visitors :
          \/ Step(s) \/ Answer(s) \/ Turn(s)
          \/ \E c \in Coins, left \in SUBSET Hosts : AskNow(s, c, left)
    \/ \E h \in Hosts : Switch(h) \/ Resume(h)
    \/ \E c \in Coins : Fade(c)

WebSpec == WebInit /\ [][WebNext]_webVars

\* The scheduler starts the job every day, a run goes on to its end, and a visitor's search,
\* once begun, ends.
WebFairSpec ==
    /\ WebSpec /\ WF_webVars(JobStep)
    /\ \A s \in Visitors : WF_webVars(Step(s) \/ Answer(s) \/ Turn(s))

-----------------------------------------------------------------------------
(* Properties.                                                              *)

\* "Followed ones first": as long as no more coins are watched than a run reads, each of
\* them is read again and again, whatever other coins are active, visitors search at the
\* same time, hosts refuse and runs collide or are lost (the search engine refuses, the
\* server restarts and sessions break finitely often).
WatchedServed ==
    Cardinality(Watched) <= PerRun =>
       \A c \in Watched : []<>(c \in done) /\ []<>(c \notin done)

\* A search meets a unique key only against another: one that no other session overlapped
\* stores what it read (search_coin, ingest_listings).
AloneAnswers ==
    [][\A s \in Sessions : Fail(s) => ~session[s].alone]_webVars
================================================================================
