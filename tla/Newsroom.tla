------------------------------- MODULE Newsroom -------------------------------
(***************************************************************************)
(* What the platform tells about the catalogue, and who decides about       *)
(* reported errors:                                                         *)
(*   platform/news.py             events become news items, hourly          *)
(*   platform/community.py        error reports, expert votes, validation   *)
(*   api/routers/community.py     the requests around them                  *)
(*   platform/bulletin.py         one bulletin a day, and who is told of it  *)
(*   catalog/reconcile.py         a merge moves events and deletes reports  *)
(* Requests and jobs overlap: a session reads committed rows and its own    *)
(* (READ COMMITTED) and its effects appear at its commit.  Runs of the       *)
(* bulletin do not: only the server has that job, under its lock.            *)
(*                                                                         *)
(* Left out: the texts of the items, images, comments, the notifications    *)
(* of a verdict (one per verdict), and error_validated events, which no     *)
(* query of the news selects.  Users here are experts; how a role comes and *)
(* goes is in Administration.                                               *)
(***************************************************************************)
EXTENDS Naturals, Sequences, FiniteSets, SequencesExt

CONSTANTS
    Coins,       \* regular coin types
    Reports,     \* expert reports
    Experts,     \* users with the expert role
    Ballots,     \* voting requests in flight at once (bound)
    Publishers,  \* runs of publish_news: the server's, a command line's
    Quorum,      \* APPROVALS_TO_VALIDATE and REJECTIONS_TO_REJECT
    Limit,       \* events a run of publish_news takes
    MaxEvents,   \* bound on events
    Readers,     \* who has or will have an account
    Markets,     \* what a day may bring: sets of parts of the bulletin
    Gone         \* no coin: a deleted issue, a deleted base type

\* The parts of a bulletin that have a heading of their own; without any but the figure of the
\* day it says that the market is quiet.
Parts == {"movers", "sales", "bargains", "new types", "record", "figure"}

ASSUME NewsroomAssumption ==
    /\ Quorum \in Nat \ {0} /\ Limit \in Nat \ {0} /\ MaxEvents \in Nat
    /\ Gone \notin Coins
    /\ IsFiniteSet(Experts) /\ IsFiniteSet(Reports)
    /\ Markets \subseteq SUBSET Parts

VARIABLES
    coins,    \* the types in the catalogue
    log,      \* newsworthy events by created_at: [id, of]
    told,     \* the events with a news_item row
    edition,  \* per publisher: the events it has rendered items of
    report,   \* per report: [status, base, reporter]
    votes,    \* committed expert_vote rows
    ballot,   \* per request: nothing, or the vote it is casting
    errors,   \* per report: error types created for it
    source,   \* the source "community" exists
    accounts, \* readers with an account
    bulletin, \* today's bulletin: [written, mail], mail the readers notified, and how often
    draft     \* the run that is writing one: nothing, or [of, readers, parts]

newsVars == <<log, told, edition>>
voteVars == <<report, votes, ballot, errors, source>>
pressVars == <<accounts, bulletin, draft>>
vars == <<coins, newsVars, voteVars, pressVars>>

Events == 1..MaxEvents
Event == [id : Events, of : Coins \cup {Gone}]
Status == {"none", "pending", "validated", "rejected", "gone"}
Report == [status : Status, base : Coins \cup {Gone}, reporter : Experts \cup {Gone}]
Vote == [report : Reports, expert : Experts, approve : BOOLEAN]
Idle == [phase |-> "idle"]
Ballot == {Idle} \cup
    [phase : {"checked", "counted"}, vote : Vote,
     verdict : {"pending", "validated", "rejected"}, brings : BOOLEAN, alone : BOOLEAN]

Blank == [written |-> FALSE, quiet |-> FALSE, mail |-> [u \in Readers |-> 0]]
NoDraft == [of |-> "none", readers |-> {}, parts |-> {}]

Init ==
    /\ coins = Coins
    /\ log = <<>> /\ told = {} /\ edition = [p \in Publishers |-> {}]
    /\ report = [r \in Reports |-> [status |-> "none", base |-> Gone, reporter |-> Gone]]
    /\ votes = {} /\ ballot = [b \in Ballots |-> Idle]
    /\ errors = [r \in Reports |-> 0] /\ source = FALSE
    /\ accounts = {}
    /\ bulletin = Blank /\ draft = NoDraft

-----------------------------------------------------------------------------
(* Events and news.                                                         *)

\* created_at is the start of the transaction: an event may come before committed ones.
Logged(events, e) == { InsertAt(events, i, e) : i \in 1..(Len(events) + 1) }

\* A job records an event of a type (new type, revision) or of one of its issues (spike).
Happen(c) ==
    /\ c \in coins /\ Len(log) < MaxEvents
    /\ log' \in Logged(log, [id |-> Len(log) + 1, of |-> c])
    /\ UNCHANGED <<coins, told, edition, voteVars, pressVars>>

\* Mutant of Untold: a high-water mark instead of the missing item.
Newer == { i \in DOMAIN log : \A j \in DOMAIN log : log[j].id \in told => j < i }
\* Where the events without a news item are.
Untold == { i \in DOMAIN log : log[i].id \notin told }

\* The oldest `limit` of them; one whose coin is gone is skipped.
Page == { i \in Untold : Cardinality({ j \in Untold : j < i }) < Limit }
Rendered == { log[i] : i \in { j \in Page : log[j].of # Gone } }

Compose(p) ==
    /\ edition[p] = {} /\ Rendered # {}
    /\ edition' = [edition EXCEPT ![p] = { e.id : e \in Rendered }]
    /\ UNCHANGED <<coins, log, told, voteVars, pressVars>>

\* news_item.event_id is unique: a run that another one overtook fails as a whole.
Publish(p) ==
    /\ edition[p] # {}
    /\ edition' = [edition EXCEPT ![p] = {}]
    /\ told' = IF edition[p] \cap told # {} THEN told ELSE told \cup edition[p]
    /\ UNCHANGED <<coins, log, voteVars, pressVars>>

-----------------------------------------------------------------------------
(* Reports and votes.                                                       *)

\* submit_report: the base is a regular type, and it exists.
Submit(u, r, c) ==
    /\ report[r].status = "none" /\ c \in coins
    /\ report' = [report EXCEPT ![r] = [status |-> "pending", base |-> c, reporter |-> u]]
    /\ UNCHANGED <<coins, newsVars, votes, ballot, errors, source, pressVars>>

Of(r, approve) == { v \in votes : v.report = r /\ v.approve = approve }
Voting(r) == { b \in Ballots : ballot[b] # Idle /\ ballot[b].vote.report = r }

\* Mutant of MayVote: reporters vote on their own reports.
MayVoteAll(u, r) == report[r].status = "pending" /\ ~\E v \in votes : v.report = r /\ v.expert = u
\* vote, the four refusals.
MayVote(u, r) ==
    /\ report[r].status = "pending"
    /\ report[r].reporter # u
    /\ ~\E v \in votes : v.report = r /\ v.expert = u

\* From here on requests that overlap on one report know it.
BeginVote(b, v) ==
    /\ ballot[b] = Idle /\ MayVote(v.expert, v.report)
    /\ ballot' = [k \in Ballots |->
          CASE k = b -> [phase |-> "checked", vote |-> v, verdict |-> "pending",
                         brings |-> FALSE, alone |-> Voting(v.report) = {}]
            [] k \in Voting(v.report) \ {b} -> [ballot[k] EXCEPT !.alone = FALSE]
            [] OTHER -> ballot[k]]
    /\ UNCHANGED <<coins, newsVars, report, votes, errors, source, pressVars>>

\* Mutant of Tally: the own vote is not flushed before the count.
TallyUnflushed(v, approve) == Cardinality(Of(v.report, approve))
\* The session counts committed votes and its own.
Tally(v, approve) ==
    Cardinality(Of(v.report, approve) \cup (IF v.approve = approve THEN {v} ELSE {}))

Verdict(v) ==
    CASE Tally(v, TRUE) >= Quorum  -> "validated"
      [] Tally(v, TRUE) < Quorum /\ Tally(v, FALSE) >= Quorum -> "rejected"
      [] OTHER -> "pending"

\* The vote's row and the verdict's rows are written, not yet committed.  uq_expert_vote
\* makes a second vote of the same expert wait, then fail.
SameVoter(k, b) ==
    /\ ballot[k] # Idle
    /\ ballot[k].vote.report = ballot[b].vote.report
    /\ ballot[k].vote.expert = ballot[b].vote.expert
Count(b) ==
    LET v == ballot[b].vote
    IN  /\ ballot[b].phase = "checked"
        /\ report[v.report].status # "gone"
        /\ ~\E k \in Ballots : SameVoter(k, b) /\ ballot[k].phase = "counted"
        /\ ~\E w \in votes : w.report = v.report /\ w.expert = v.expert
        /\ ballot' = [ballot EXCEPT ![b].phase = "counted", ![b].verdict = Verdict(v),
                                    ![b].brings = Verdict(v) = "validated" /\ ~source]
        /\ UNCHANGED <<coins, newsVars, report, votes, errors, source, pressVars>>

\* The request fails: the report was deleted, the expert's other vote was first, or another
\* validation inserted the source "community" first.
Fails(b) ==
    LET v == ballot[b].vote
    IN  \/ report[v.report].status = "gone"
        \/ ballot[b].phase = "checked" /\ \E w \in votes : w.report = v.report /\ w.expert = v.expert
        \/ ballot[b].brings /\ source
Fail(b) ==
    /\ ballot[b] # Idle /\ Fails(b)
    /\ ballot' = [ballot EXCEPT ![b] = Idle]
    /\ UNCHANGED <<coins, newsVars, report, votes, errors, source, pressVars>>

\* The commit: the vote, and what the verdict wrote, over whatever status the row has.
Cast(b) ==
    LET v == ballot[b].vote
        verdict == ballot[b].verdict
    IN  /\ ballot[b].phase = "counted" /\ ~Fails(b)
        /\ votes' = votes \cup {v}
        /\ report' = IF verdict = "pending" THEN report
                     ELSE [report EXCEPT ![v.report].status = verdict]
        /\ errors' = IF verdict = "validated" THEN [errors EXCEPT ![v.report] = @ + 1] ELSE errors
        /\ source' = (source \/ ballot[b].brings)
        /\ ballot' = [ballot EXCEPT ![b] = Idle]
        /\ UNCHANGED <<coins, newsVars, pressVars>>

-----------------------------------------------------------------------------
(* merge_types: events of the type move to the kept one; of the issues of both some are *)
(* retired (placeholders), and their events point nowhere; the reports on the type go    *)
(* with it (ON DELETE CASCADE), their votes too; the merge is an event itself.            *)

Moved(e, keep, drop, retired) ==
    IF e.id \in retired THEN [e EXCEPT !.of = Gone]
    ELSE IF e.of = drop THEN [e EXCEPT !.of = keep] ELSE e

\* The foreign keys of a vote that is counted hold the report's row: the merge waits.
Held(c) == \E r \in Reports : report[r].base = c
              /\ \E b \in Voting(r) : ballot[b].phase = "counted"

Merge(keep, drop, retired) ==
    /\ {keep, drop} \subseteq coins /\ keep # drop /\ ~Held(drop) /\ Len(log) < MaxEvents
    /\ \A e \in Range(log) : e.id \in retired => e.of \in {keep, drop}
    /\ coins' = coins \ {drop}
    /\ log' \in Logged([i \in DOMAIN log |-> Moved(log[i], keep, drop, retired)],
                      [id |-> Len(log) + 1, of |-> keep])
    /\ report' = [r \in Reports |->
          IF report[r].base = drop THEN [status |-> "gone", base |-> Gone, reporter |-> Gone]
          ELSE report[r]]
    /\ votes' = { v \in votes : report[v.report].base # drop }
    /\ UNCHANGED <<told, edition, ballot, errors, source, pressVars>>

-----------------------------------------------------------------------------
(* The daily bulletin.                                                      *)

Join(u) ==
    /\ u \notin accounts /\ accounts' = accounts \cup {u}
    /\ UNCHANGED <<coins, newsVars, voteVars, bulletin, draft>>

\* Midnight (UTC): the day's id is another; a run that is on goes on writing yesterday's.
NextDay ==
    /\ bulletin' = Blank
    /\ draft' = IF draft = NoDraft THEN draft ELSE [draft EXCEPT !.of = "yesterday"]
    /\ UNCHANGED <<coins, newsVars, voteVars, accounts>>

\* Mutant of Wanted: a run writes another one.
WantedAlways == TRUE
\* An item with the day's id is "today's bulletin" and is returned as it is.
Wanted == ~bulletin.written

\* _compose: a part is there if the market brought something; the figure always is.
Composed(market) == market \cup {"figure"}

\* A scheduled or a manual run, or one after a failure; the day is taken at its start.
BeginBulletin(market) ==
    /\ draft = NoDraft /\ Wanted
    /\ draft' = [of |-> "today", readers |-> accounts, parts |-> Composed(market)]
    /\ UNCHANGED <<coins, newsVars, voteVars, accounts, bulletin>>

\* The accounts are read at the end, then item and notifications are committed as one.
EndBulletin(readers) ==
    /\ draft # NoDraft
    /\ draft.readers \subseteq readers /\ readers \subseteq accounts
    /\ bulletin' = IF draft.of = "yesterday" THEN bulletin
                   ELSE [written |-> TRUE, quiet |-> draft.parts = {"figure"},
                         mail |-> [u \in Readers |->
                            bulletin.mail[u] + (IF u \in readers THEN 1 ELSE 0)]]
    /\ draft' = NoDraft
    /\ UNCHANGED <<coins, newsVars, voteVars, accounts>>

\* The run fails or the process ends: nothing was committed.
FailBulletin ==
    /\ draft # NoDraft /\ draft' = NoDraft
    /\ UNCHANGED <<coins, newsVars, voteVars, accounts, bulletin>>

-----------------------------------------------------------------------------
Next ==
    \/ \E u \in Readers : Join(u)
    \/ NextDay \/ FailBulletin
    \/ \E market \in Markets : BeginBulletin(market)
    \/ \E readers \in SUBSET accounts : EndBulletin(readers)
    \/ \E c \in Coins : Happen(c)
    \/ \E p \in Publishers : Compose(p) \/ Publish(p)
    \/ \E u \in Experts, r \in Reports, c \in Coins : Submit(u, r, c)
    \/ \E b \in Ballots : Count(b) \/ Cast(b) \/ Fail(b)
    \/ \E b \in Ballots, v \in Vote : BeginVote(b, v)
    \/ \E keep, drop \in Coins, retired \in SUBSET { e.id : e \in Range(log) } :
          Merge(keep, drop, retired)

Spec == Init /\ [][Next]_vars

-----------------------------------------------------------------------------
(* Properties.                                                              *)

TypeOK ==
    /\ coins \subseteq Coins
    /\ log \in Seq(Event) /\ Len(log) <= MaxEvents
    /\ told \subseteq Events /\ edition \in [Publishers -> SUBSET Events]
    /\ report \in [Reports -> Report] /\ votes \subseteq Vote
    /\ ballot \in [Ballots -> Ballot]
    /\ errors \in [Reports -> Nat] /\ source \in BOOLEAN
    /\ accounts \subseteq Readers
    /\ bulletin \in [written : BOOLEAN, quiet : BOOLEAN, mail : [Readers -> Nat]]
    /\ draft \in [of : {"none", "today", "yesterday"}, readers : SUBSET Readers, parts : SUBSET Parts]

\* A verdict was earned, however the votes overlapped: a validated report, and one that an
\* error type was made from, has enough approvals, a rejected one enough rejections, each
\* of another expert and none of the reporter (community.vote).
Earned(r, approve) ==
    /\ Cardinality(Of(r, approve)) >= Quorum
    /\ Cardinality({ v.expert : v \in Of(r, approve) } \ {report[r].reporter})
          = Cardinality(Of(r, approve))
VerdictsEarned ==
    \A r \in Reports :
       /\ report[r].status = "validated" => Earned(r, TRUE)
       /\ report[r].status = "rejected" => Earned(r, FALSE)
       /\ errors[r] > 0 /\ report[r].status # "gone" => Earned(r, TRUE)

\* A vote that no other vote on the report overlapped leaves it decided if either side has
\* enough votes, and brings the error into the catalogue once (two that overlap may each
\* count one approval and leave it pending, or validate it twice).
AloneDecides ==
    [][\A b \in Ballots :
          Cast(b) /\ ballot[b].alone =>
             LET r == ballot[b].vote.report
             IN  /\ report'[r].status = "pending" =>
                       \A side \in BOOLEAN :
                          Cardinality({ v \in votes' : v.report = r /\ v.approve = side }) < Quorum
                 /\ errors'[r] <= 1]_vars

\* No event whose coin is in the catalogue is out of reach, also one that was committed
\* late: as long as any is left and fewer than a page of events cannot be rendered, the
\* next run has one to tell (publish_pending).
Mute == { e \in Range(log) : e.of = Gone /\ e.id \notin told }
NextRunTells ==
    /\ \E e \in Range(log) : e.of # Gone /\ e.id \notin told
    /\ Cardinality(Mute) < Limit
    => Rendered # {}

\* "Write (or return) today's bulletin and notify every user once": whatever failed, was
\* repeated or ran over midnight, nobody is told twice of a day's bulletin, and none goes out
\* without telling everybody who had an account when its run began.
OneBulletinADay ==
    [][/\ \A u \in Readers : bulletin'.mail[u] <= 1
       /\ bulletin'.written /\ ~bulletin.written =>
             \A u \in draft.readers : bulletin'.mail[u] = 1]_vars
================================================================================
