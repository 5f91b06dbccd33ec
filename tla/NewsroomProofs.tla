------------------------------ MODULE NewsroomProofs ------------------------------
(***************************************************************************)
(* What votes, news and bulletins promise, for any number of experts,       *)
(* reports, requests, events and readers, and any quorum and page.          *)
(*                                                                         *)
(* PressInv is about the bulletin, VoteInv about votes and verdicts, and    *)
(* LogInv about the events; AloneInv adds to VoteInv what a voting request  *)
(* that overlaps no other knows until its commit.                           *)
(***************************************************************************)
EXTENDS Newsroom, FiniteSetTheorems, SequenceTheorems, WellFoundedInduction, TLAPS

-----------------------------------------------------------------------------
(* The bulletin.                                                            *)

\* Nobody was told of a bulletin that is not written; a run for today writes the first.
PressInv ==
    /\ accounts \subseteq Readers
    /\ draft # NoDraft => draft.of \in {"today", "yesterday"} /\ draft.readers \subseteq Readers
    /\ draft # NoDraft /\ draft.of = "today" => ~bulletin.written
    /\ bulletin.mail \in [Readers -> Nat]
    /\ \A u \in Readers : bulletin.mail[u] <= IF bulletin.written THEN 1 ELSE 0

LEMMA PressInvInit == Init => PressInv
    BY DEF Init, PressInv, Blank

\* The run's end, if nobody was told before.
LEMMA WrittenOnce ==
    ASSUME PressInv, NEW readers \in SUBSET accounts, EndBulletin(readers)
    PROVE  /\ PressInv'
           /\ \A u \in Readers : bulletin'.mail[u] <= 1
           /\ bulletin'.written /\ ~bulletin.written =>
                 \A u \in draft.readers : bulletin'.mail[u] = 1
<1>1. /\ draft # NoDraft /\ draft' = NoDraft /\ accounts' = accounts
      /\ draft.readers \subseteq readers /\ draft.readers \subseteq Readers
    BY DEF EndBulletin, PressInv
<1>2. CASE draft.of = "yesterday"
  <2>1. bulletin' = bulletin
    BY <1>2 DEF EndBulletin
  <2> QED
    BY <1>1, <2>1 DEF PressInv
<1>3. CASE draft.of # "yesterday"
  <2>1. /\ bulletin'.written = TRUE
        /\ bulletin'.mail = [u \in Readers |-> bulletin.mail[u] + (IF u \in readers THEN 1 ELSE 0)]
    BY <1>3 DEF EndBulletin
  <2>2. ~bulletin.written
    BY <1>1, <1>3 DEF PressInv
  <2>3. \A u \in Readers : bulletin.mail[u] = 0
    BY <2>2 DEF PressInv
  <2>4. \A u \in Readers : bulletin'.mail[u] = IF u \in readers THEN 1 ELSE 0
    BY <2>1, <2>3
  <2>5. bulletin'.mail \in [Readers -> Nat]
    BY <2>1, <2>3
  <2> QED
    BY <1>1, <2>1, <2>4, <2>5 DEF PressInv
<1> QED
    BY <1>2, <1>3

LEMMA PressInvStep == PressInv /\ [Next]_vars => PressInv'
<1> SUFFICES ASSUME PressInv, [Next]_vars PROVE PressInv'
    OBVIOUS
<1>1. CASE UNCHANGED pressVars
    BY <1>1 DEF PressInv, pressVars
<1>2. ASSUME NEW u \in Readers, Join(u) PROVE PressInv'
    BY <1>2 DEF Join, PressInv
<1>3. CASE NextDay
  <2>1. bulletin' = Blank /\ accounts' = accounts
        /\ draft' = IF draft = NoDraft THEN draft ELSE [draft EXCEPT !.of = "yesterday"]
    BY <1>3 DEF NextDay
  <2>2. draft' # NoDraft => draft'.of # "today" /\ draft'.readers \subseteq Readers
        /\ draft'.of \in {"today", "yesterday"}
    BY <2>1 DEF PressInv
  <2> QED
    BY <2>1, <2>2 DEF PressInv, Blank
<1>4. ASSUME NEW market \in Markets, BeginBulletin(market) PROVE PressInv'
    BY <1>4 DEF BeginBulletin, Wanted, PressInv
<1>5. ASSUME NEW readers \in SUBSET accounts, EndBulletin(readers) PROVE PressInv'
    BY <1>5, WrittenOnce
<1>6. CASE FailBulletin
    BY <1>6 DEF FailBulletin, PressInv
<1>7. ASSUME NEW c, NEW d, NEW S, NEW u, NEW r, NEW v,
             \/ Happen(c) \/ Compose(c) \/ Publish(c) \/ Submit(u, r, c) \/ BeginVote(c, v)
             \/ Count(c) \/ Cast(c) \/ Fail(c) \/ Merge(c, d, S)
      PROVE  PressInv'
    BY <1>1, <1>7 DEF Happen, Compose, Publish, Submit, BeginVote, Count, Cast, Fail, Merge
<1>8. CASE UNCHANGED vars
    BY <1>1, <1>8 DEF vars
<1> QED
    BY <1>2, <1>3, <1>4, <1>5, <1>6, <1>7, <1>8 DEF Next

\* OneBulletinADay: every reader is told once of a day's bulletin, whatever is repeated.
THEOREM ToldOnce == Spec => OneBulletinADay
<1> DEFINE Told == /\ \A u \in Readers : bulletin'.mail[u] <= 1
                   /\ bulletin'.written /\ ~bulletin.written =>
                         \A u \in draft.readers : bulletin'.mail[u] = 1
<1>1. PressInv /\ PressInv' /\ [Next]_vars => [Told]_vars
  <2> SUFFICES ASSUME PressInv, PressInv', Next PROVE Told
      OBVIOUS
  <2>1. \A u \in Readers : bulletin'.mail[u] <= 1
    BY DEF PressInv
  <2>2. ASSUME bulletin'.written, ~bulletin.written PROVE \A u \in draft.readers : bulletin'.mail[u] = 1
    <3>1. bulletin' # bulletin /\ bulletin' # Blank
      BY <2>2 DEF Blank
    <3>2. ASSUME NEW c, NEW d, NEW S, NEW u, NEW r, NEW v,
                 \/ Happen(c) \/ Compose(c) \/ Publish(c) \/ Submit(u, r, c) \/ BeginVote(c, v)
                 \/ Count(c) \/ Cast(c) \/ Fail(c) \/ Merge(c, d, S)
          PROVE  FALSE
      BY <3>1, <3>2 DEF pressVars, Happen, Compose, Publish, Submit, BeginVote, Count, Cast, Fail,
         Merge
    <3>3. ASSUME NEW c, Join(c) \/ NextDay \/ FailBulletin \/ BeginBulletin(c) PROVE FALSE
      BY <3>1, <3>3 DEF Join, NextDay, FailBulletin, BeginBulletin
    <3>4. \E readers \in SUBSET accounts : EndBulletin(readers)
      BY <3>2, <3>3 DEF Next
    <3> QED
      BY <2>2, <3>4, WrittenOnce
  <2> QED
    BY <2>1, <2>2
<1>2. Spec => []PressInv
    BY PressInvInit, PressInvStep, PTL DEF Spec
<1> QED
    BY <1>1, <1>2, PTL DEF Spec, OneBulletinADay

-----------------------------------------------------------------------------
(* Votes.                                                                   *)

SameVote(v, w) == v.report = w.report /\ v.expert = w.expert

\* An expert votes once, never on an own report, and only while the report is there.
OnePerExpert ==
    /\ \A v, w \in votes : SameVote(v, w) => v = w
    /\ \A v \in votes : /\ report[v.report].status \notin {"none", "gone"}
                        /\ report[v.report].reporter # v.expert

\* So does a request that is on its way, unless a merge deleted the report meanwhile.
Entitled(b) ==
    LET r == ballot[b].vote.report
    IN  /\ ballot[b].vote \in Vote /\ ballot[b].phase # "idle"
        /\ DOMAIN ballot[b] = {"phase", "vote", "verdict", "brings", "alone"}
        /\ report[r].status # "none"
        /\ report[r].status # "gone" => report[r].reporter # ballot[b].vote.expert

\* The verdict of a counted vote has its votes, the report is held until the commit, and no
\* other vote of this expert can come before it.
CountedWell(b) ==
    LET v == ballot[b].vote
    IN  /\ report[v.report].status # "gone"
        /\ \A w \in votes : ~SameVote(v, w)
        /\ \A k \in Ballots : k # b /\ ballot[k].phase = "counted" => ~SameVote(v, ballot[k].vote)
        /\ ballot[b].verdict = "validated" => Tally(v, TRUE) >= Quorum
        /\ ballot[b].verdict = "rejected" => Tally(v, FALSE) >= Quorum
        /\ ballot[b].verdict \in {"pending", "validated", "rejected"}

\* What was decided has the votes.
Supported ==
    \A r \in Reports :
       /\ report[r].status = "validated" => Cardinality(Of(r, TRUE)) >= Quorum
       /\ report[r].status = "rejected" => Cardinality(Of(r, FALSE)) >= Quorum
       /\ errors[r] > 0 /\ report[r].status # "gone" => Cardinality(Of(r, TRUE)) >= Quorum

VoteInv ==
    /\ report \in [Reports -> Report] /\ votes \subseteq Vote /\ errors \in [Reports -> Nat]
    /\ DOMAIN ballot = Ballots
    /\ OnePerExpert
    /\ \A b \in Ballots : ballot[b].phase \in {"idle", "checked", "counted"}
    /\ \A b \in Ballots : ballot[b] # Idle => Entitled(b)
    /\ \A b \in Ballots : ballot[b].phase = "counted" => CountedWell(b)
    /\ Supported

\* Votes are finitely many.
LEMMA VotesFinite == IsFiniteSet(Vote)
<1> DEFINE made == (Reports \X Experts) \X BOOLEAN
           f == [x \in made |-> [report |-> x[1][1], expert |-> x[1][2], approve |-> x[2]]]
<1>1. IsFiniteSet(BOOLEAN)
  <2>1. BOOLEAN = {TRUE, FALSE}
    OBVIOUS
  <2>2. IsFiniteSet({TRUE} \cup {FALSE})
    BY FS_Singleton, FS_Union
  <2> QED
    BY <2>1, <2>2
<1>2. IsFiniteSet(Reports \X Experts)
    BY FS_Product, NewsroomAssumption
<1>3. IsFiniteSet(made)
    BY <1>1, <1>2, FS_Product
<1>4. f \in Surjection(made, Vote)
  <2>1. f \in [made -> Vote]
    BY DEF Vote
  <2>2. \A v \in Vote : \E x \in made : f[x] = v
    <3>1. SUFFICES ASSUME NEW v \in Vote PROVE \E x \in made : f[x] = v
      OBVIOUS
    <3>2. <<<<v.report, v.expert>>, v.approve>> \in made
      BY DEF Vote
    <3>3. f[<<<<v.report, v.expert>>, v.approve>>] = v
      BY <3>2 DEF Vote
    <3> QED
      BY <3>2, <3>3
  <2> QED
    BY <2>1, <2>2 DEF Surjection
<1> QED
    BY <1>3, <1>4, FS_Surjection

\* More votes are not fewer.
LEMMA VotesGrow ==
    ASSUME NEW T \in SUBSET Vote, NEW S \in SUBSET T
    PROVE  Cardinality(S) \in Nat /\ Cardinality(T) \in Nat /\ Cardinality(S) <= Cardinality(T)
    BY VotesFinite, FS_Subset, FS_CardinalityType

\* As many experts as votes.
LEMMA ExpertsCounted ==
    ASSUME NEW S \in SUBSET Vote, \A v, w \in S : v.expert = w.expert => v = w
    PROVE  Cardinality({ v.expert : v \in S }) = Cardinality(S)
<1> DEFINE T == { v.expert : v \in S }
           f == [v \in S |-> v.expert]
<1>1. IsFiniteSet(S)
    BY VotesFinite, FS_Subset
<1>2. f \in Bijection(S, T)
    BY DEF Bijection, Injection, Surjection, IsInjective
<1> QED
    BY <1>1, <1>2, FS_Bijection DEF ExistsBijection

\* The invariant gives the property.
LEMMA VoteInvEarned == VoteInv => VerdictsEarned
<1> SUFFICES ASSUME VoteInv PROVE VerdictsEarned
    OBVIOUS
<1>1. ASSUME NEW r \in Reports, NEW side \in BOOLEAN, Cardinality(Of(r, side)) >= Quorum
      PROVE  Earned(r, side)
  <2>1. Of(r, side) \in SUBSET Vote
    BY DEF VoteInv, Of
  <2>2. \A v, w \in Of(r, side) : v.expert = w.expert => v = w
    BY DEF VoteInv, OnePerExpert, SameVote, Of
  <2>3. { v.expert : v \in Of(r, side) } \ {report[r].reporter} = { v.expert : v \in Of(r, side) }
    BY DEF VoteInv, OnePerExpert, Of
  <2>4. Cardinality({ v.expert : v \in Of(r, side) }) = Cardinality(Of(r, side))
    BY <2>1, <2>2, ExpertsCounted
  <2> QED
    BY <1>1, <2>3, <2>4 DEF Earned
<1> QED
    BY <1>1 DEF VoteInv, Supported, VerdictsEarned

LEMMA VoteInvInit == Init => VoteInv
<1> SUFFICES ASSUME Init PROVE VoteInv
    OBVIOUS
<1>1. report \in [Reports -> Report]
    BY DEF Init, Report, Status
<1>2. OnePerExpert /\ Supported
  <2>1. votes = {} /\ \A r \in Reports : report[r].status = "none" /\ errors[r] = 0
    BY DEF Init
  <2>2. \A r \in Reports : ~(errors[r] > 0)
    BY <2>1
  <2>3. OnePerExpert
    BY <2>1 DEF OnePerExpert
  <2>4. Supported
    BY <2>1, <2>2 DEF Supported
  <2> QED
    BY <2>3, <2>4
<1>3. /\ votes \subseteq Vote /\ errors \in [Reports -> Nat] /\ DOMAIN ballot = Ballots
      /\ \A b \in Ballots : ballot[b] = Idle
    BY DEF Init
<1>4. Idle.phase = "idle"
    BY DEF Idle
<1> QED
    BY <1>1, <1>2, <1>3, <1>4 DEF VoteInv

\* Steps of the news, the bulletin and the accounts.
LEMMA VotesQuiet ==
    ASSUME VoteInv, UNCHANGED <<report, votes, ballot, errors>> PROVE VoteInv'
<1>1. /\ OnePerExpert' /\ Supported'
    BY DEF VoteInv, OnePerExpert, Supported, Of
<1>2. \A b \in Ballots : Entitled(b)' <=> Entitled(b)
    BY DEF Entitled
<1>3. \A b \in Ballots : CountedWell(b)' <=> CountedWell(b)
    BY DEF CountedWell, Tally, Of
<1> QED
    BY <1>1, <1>2, <1>3 DEF VoteInv

LEMMA SubmitStep ==
    ASSUME VoteInv, NEW u \in Experts, NEW r \in Reports, NEW c \in Coins, Submit(u, r, c)
    PROVE  VoteInv'
<1> DEFINE new == [status |-> "pending", base |-> c, reporter |-> u]
<1>1. /\ report[r].status = "none" /\ report' = [report EXCEPT ![r] = new]
      /\ UNCHANGED <<votes, ballot, errors>>
    BY DEF Submit
<1>2. new \in Report /\ new.status = "pending"
    BY DEF Report, Status
<1> HIDE DEF new
<1>3. report' \in [Reports -> Report] /\ report'[r] = new
      /\ \A k \in Reports \ {r} : report'[k] = report[k]
    BY <1>1, <1>2 DEF VoteInv
<1>4. \A v \in votes : v.report \in Reports \ {r}
    BY <1>1 DEF VoteInv, OnePerExpert, Vote
<1>5. OnePerExpert'
    BY <1>1, <1>3, <1>4 DEF VoteInv, OnePerExpert
<1>6. \A b \in Ballots : ballot[b] # Idle => ballot[b].vote.report \in Reports \ {r}
    BY <1>1 DEF VoteInv, Entitled, Vote
<1>7. ASSUME NEW b \in Ballots, ballot[b] # Idle
      PROVE  Entitled(b)' /\ (CountedWell(b) => CountedWell(b)')
  <2>1. ballot'[b] = ballot[b] /\ report'[ballot[b].vote.report] = report[ballot[b].vote.report]
    BY <1>1, <1>3, <1>6, <1>7
  <2>2. Entitled(b)
    BY <1>7 DEF VoteInv
  <2>3. \A side : Tally(ballot[b].vote, side)' = Tally(ballot[b].vote, side)
    BY <1>1 DEF Tally, Of
  <2> QED
    BY <1>1, <2>1, <2>2, <2>3 DEF Entitled, CountedWell, Tally, Of
<1>8. Supported'
  <2>1. \A k \in Reports, side \in BOOLEAN : Of(k, side)' = Of(k, side)
    BY <1>1 DEF Of
  <2> QED
    BY <1>1, <1>2, <1>3, <2>1 DEF VoteInv, Supported
<1>9. \A b \in Ballots : ballot[b].phase = "counted" => ballot[b] # Idle
    BY DEF Idle
<1> QED
    BY <1>1, <1>3, <1>5, <1>7, <1>8, <1>9 DEF VoteInv

\* Ballots that keep what they say, others that are new and not counted.
LEMMA BallotsMove ==
    ASSUME VoteInv, UNCHANGED <<report, votes, errors>>, DOMAIN ballot' = Ballots,
           \A b \in Ballots :
              \/ ballot'[b] = Idle
              \/ ballot'[b] # Idle /\ ballot'[b].phase = "checked" /\ Entitled(b)'
              \/ /\ ballot[b] # Idle /\ ballot'[b] # Idle
                 /\ ballot'[b].phase = ballot[b].phase /\ ballot'[b].vote = ballot[b].vote
                 /\ ballot'[b].verdict = ballot[b].verdict
                 /\ DOMAIN ballot'[b] = DOMAIN ballot[b]
    PROVE  VoteInv'
<1>1. OnePerExpert' /\ Supported'
    BY DEF VoteInv, OnePerExpert, Supported, Of
<1>2. \A v, side : Tally(v, side)' = Tally(v, side)
    BY DEF Tally, Of
<1>3. ASSUME NEW b \in Ballots
      PROVE  /\ ballot'[b].phase \in {"idle", "checked", "counted"}
             /\ ballot'[b] # Idle => Entitled(b)'
    BY <1>3 DEF VoteInv, Entitled, Idle
<1>4. \A b \in Ballots : ballot'[b].phase = "counted" =>
         ballot[b].phase = "counted" /\ ballot'[b].vote = ballot[b].vote
         /\ ballot'[b].verdict = ballot[b].verdict
    BY DEF Idle
<1>5. ASSUME NEW b \in Ballots, ballot'[b].phase = "counted" PROVE CountedWell(b)'
  <2>1. CountedWell(b)
    BY <1>4, <1>5 DEF VoteInv
  <2> QED
    BY <1>2, <1>4, <1>5, <2>1 DEF CountedWell
<1> QED
    BY <1>1, <1>3, <1>5 DEF VoteInv

LEMMA BeginVoteStep ==
    ASSUME VoteInv, NEW b \in Ballots, NEW v \in Vote, BeginVote(b, v) PROVE VoteInv'
<1>1. /\ ballot[b] = Idle /\ MayVote(v.expert, v.report) /\ DOMAIN ballot' = Ballots
      /\ UNCHANGED <<report, votes, errors>>
    BY DEF BeginVote
<1>2. ballot'[b] = [phase |-> "checked", vote |-> v, verdict |-> "pending",
                    brings |-> FALSE, alone |-> Voting(v.report) = {}]
    BY <1>1 DEF BeginVote, Voting
<1>3. /\ ballot'[b].phase = "checked" /\ ballot'[b].vote = v /\ ballot'[b] # Idle
      /\ DOMAIN ballot'[b] = {"phase", "vote", "verdict", "brings", "alone"}
    BY <1>2 DEF Idle
<1>4. Entitled(b)'
    BY <1>1, <1>3 DEF Entitled, MayVote
<1>5. ASSUME NEW k \in Ballots \ {b}
      PROVE  \/ ballot'[k] = ballot[k]
             \/ ballot[k] # Idle /\ ballot'[k] = [ballot[k] EXCEPT !.alone = FALSE]
    BY DEF BeginVote, Voting
<1>6. ASSUME NEW k \in Ballots, ballot[k] # Idle
      PROVE  LET other == [ballot[k] EXCEPT !.alone = FALSE]
             IN  /\ other.phase = ballot[k].phase /\ other.vote = ballot[k].vote
                 /\ other.verdict = ballot[k].verdict /\ DOMAIN other = DOMAIN ballot[k]
                 /\ other # Idle
    BY <1>6 DEF VoteInv, Entitled, Idle
<1>7. ASSUME NEW k \in Ballots
      PROVE  \/ ballot'[k] = Idle
             \/ ballot'[k] # Idle /\ ballot'[k].phase = "checked" /\ Entitled(k)'
             \/ /\ ballot[k] # Idle /\ ballot'[k] # Idle
                /\ ballot'[k].phase = ballot[k].phase /\ ballot'[k].vote = ballot[k].vote
                /\ ballot'[k].verdict = ballot[k].verdict
                /\ DOMAIN ballot'[k] = DOMAIN ballot[k]
    BY <1>3, <1>4, <1>5, <1>6
<1> QED
    BY <1>1, <1>7, BallotsMove

LEMMA FailStep == ASSUME VoteInv, NEW b \in Ballots, Fail(b) PROVE VoteInv'
<1>1. /\ ballot' = [ballot EXCEPT ![b] = Idle] /\ UNCHANGED <<report, votes, errors>>
    BY DEF Fail
<1>2. /\ DOMAIN ballot' = Ballots /\ ballot'[b] = Idle
      /\ \A k \in Ballots \ {b} : ballot'[k] = ballot[k]
    BY <1>1 DEF VoteInv
<1> QED
    BY <1>1, <1>2, BallotsMove

LEMMA VerdictTells ==
    ASSUME NEW v
    PROVE  /\ Verdict(v) \in {"pending", "validated", "rejected"}
           /\ Verdict(v) = "validated" => Tally(v, TRUE) >= Quorum
           /\ Verdict(v) = "rejected" => Tally(v, FALSE) >= Quorum
    BY DEF Verdict

LEMMA CountStep == ASSUME VoteInv, NEW b \in Ballots, Count(b) PROVE VoteInv'
<1> DEFINE v == ballot[b].vote
<1>1. /\ ballot[b].phase = "checked" /\ ballot[b] # Idle /\ report[v.report].status # "gone"
      /\ ~\E k \in Ballots : SameVoter(k, b) /\ ballot[k].phase = "counted"
      /\ ~\E w \in votes : SameVote(v, w)
      /\ UNCHANGED <<report, votes, errors>>
    BY DEF Count, SameVote, Idle
<1>2. Entitled(b)
    BY <1>1 DEF VoteInv
<1>3. /\ DOMAIN ballot' = Ballots
      /\ ballot'[b] = [ballot[b] EXCEPT !.phase = "counted", !.verdict = Verdict(v),
                                        !.brings = Verdict(v) = "validated" /\ ~source]
      /\ \A k \in Ballots \ {b} : ballot'[k] = ballot[k]
    BY DEF Count, VoteInv
<1>4. /\ ballot'[b].phase = "counted" /\ ballot'[b].vote = v /\ ballot'[b].verdict = Verdict(v)
      /\ DOMAIN ballot'[b] = {"phase", "vote", "verdict", "brings", "alone"}
    BY <1>2, <1>3 DEF Entitled
<1>5. \A w, side : Tally(w, side)' = Tally(w, side)
    BY <1>1 DEF Tally, Of
<1>6. OnePerExpert' /\ Supported'
    BY <1>1 DEF VoteInv, OnePerExpert, Supported, Of
<1>7. \A k \in Ballots : ballot'[k] # Idle => Entitled(k)'
  <2>1. Entitled(b)'
    BY <1>1, <1>2, <1>4 DEF Entitled
  <2>2. \A k \in Ballots \ {b} : Entitled(k) => Entitled(k)'
    BY <1>1, <1>3 DEF Entitled
  <2> QED
    BY <1>3, <2>1, <2>2 DEF VoteInv
<1>8. \A k \in Ballots \ {b} : ballot[k].phase = "counted" => ~SameVote(v, ballot[k].vote)
  <2>1. ASSUME NEW k \in Ballots \ {b}, ballot[k].phase = "counted" PROVE ~SameVote(v, ballot[k].vote)
    <3>1. ballot[k] # Idle
      BY <2>1 DEF Idle
    <3> QED
      BY <1>1, <2>1, <3>1 DEF SameVoter, SameVote
  <2> QED
    BY <2>1
<1>9. CountedWell(b)'
    BY <1>1, <1>3, <1>4, <1>5, <1>8, VerdictTells, ZenonT(80) DEF CountedWell
<1>10. ASSUME NEW k \in Ballots \ {b}, ballot[k].phase = "counted" PROVE CountedWell(k)'
  <2>1. CountedWell(k) /\ ~SameVote(ballot[k].vote, v)
    BY <1>8, <1>10 DEF VoteInv, SameVote
  <2> QED
    BY <1>1, <1>3, <1>4, <1>5, <2>1, ZenonT(80) DEF CountedWell
<1> HIDE DEF v
<1> QED
    BY <1>1, <1>3, <1>4, <1>6, <1>7, <1>9, <1>10 DEF VoteInv

\* A commit adds the vote that was counted.
LEMMA CastStep == ASSUME VoteInv, NEW b \in Ballots, Cast(b) PROVE VoteInv'
<1> USE NewsroomAssumption
<1>1. PICK v : v = ballot[b].vote
    OBVIOUS
<1>2. PICK verdict : verdict = ballot[b].verdict
    OBVIOUS
<1>3. /\ ballot[b].phase = "counted" /\ ballot[b] # Idle
      /\ votes' = votes \cup {v}
      /\ report' = IF verdict = "pending" THEN report
                   ELSE [report EXCEPT ![v.report].status = verdict]
      /\ errors' = IF verdict = "validated" THEN [errors EXCEPT ![v.report] = @ + 1] ELSE errors
      /\ ballot' = [ballot EXCEPT ![b] = Idle]
    BY <1>1, <1>2 DEF Cast, Idle
<1>4. Entitled(b) /\ CountedWell(b)
    BY <1>3 DEF VoteInv
<1>5. v \in Vote /\ v.report \in Reports /\ verdict \in {"pending", "validated", "rejected"}
    BY <1>1, <1>2, <1>4 DEF Entitled, CountedWell, Vote
<1>6. /\ report' \in [Reports -> Report]
      /\ \A r \in Reports : /\ report'[r].base = report[r].base
                            /\ report'[r].reporter = report[r].reporter
                            /\ r # v.report => report'[r] = report[r]
                            /\ report'[r].status =
                                 IF r = v.report /\ verdict # "pending" THEN verdict
                                 ELSE report[r].status
  <2>1. CASE verdict = "pending"
    BY <1>3, <2>1 DEF VoteInv
  <2>2. CASE verdict # "pending"
    <3>1. [report[v.report] EXCEPT !.status = verdict] \in Report
      BY <1>5, <2>2 DEF VoteInv, Report, Status
    <3>2. report' = [report EXCEPT ![v.report] = [report[v.report] EXCEPT !.status = verdict]]
      BY <1>3, <2>2
    <3>3. /\ [report[v.report] EXCEPT !.status = verdict].status = verdict
          /\ [report[v.report] EXCEPT !.status = verdict].base = report[v.report].base
          /\ [report[v.report] EXCEPT !.status = verdict].reporter = report[v.report].reporter
      BY <1>5 DEF VoteInv, Report
    <3> QED
      BY <1>5, <2>2, <3>1, <3>2, <3>3 DEF VoteInv
  <2> QED
    BY <2>1, <2>2
<1>7. /\ \A r \in Reports : report'[r].status = "none" => report[r].status = "none"
      /\ \A r \in Reports : report'[r].status = "gone" => report[r].status = "gone"
    BY <1>5, <1>6
<1>8. report[v.report].status \notin {"none", "gone"} /\ report[v.report].reporter # v.expert
    BY <1>1, <1>4 DEF Entitled, CountedWell
<1>9. votes' \subseteq Vote /\ \A w \in votes : w.report \in Reports
    BY <1>3, <1>5 DEF VoteInv, Vote
<1>10. errors' \in [Reports -> Nat] /\ \A r \in Reports : errors'[r] > 0 =>
          errors[r] > 0 \/ (r = v.report /\ verdict = "validated")
    BY <1>3, <1>5 DEF VoteInv
<1>11. /\ DOMAIN ballot' = Ballots /\ ballot'[b] = Idle
       /\ \A k \in Ballots \ {b} : ballot'[k] = ballot[k]
    BY <1>3 DEF VoteInv
<1>12. OnePerExpert'
  <2>1. \A w \in votes : ~SameVote(v, w)
    BY <1>1, <1>4 DEF CountedWell
  <2>2. \A w, x \in votes' : SameVote(w, x) => w = x
    BY <1>3, <2>1 DEF VoteInv, OnePerExpert, SameVote
  <2>3. \A w \in votes' : report[w.report].status \notin {"none", "gone"}
                          /\ report[w.report].reporter # w.expert /\ w.report \in Reports
    BY <1>3, <1>5, <1>8, <1>9 DEF VoteInv, OnePerExpert
  <2> QED
    BY <1>6, <1>7, <2>2, <2>3 DEF OnePerExpert
<1>13. \A r, side : Of(r, side) \subseteq Of(r, side)'
    BY <1>3 DEF Of
<1>14. ASSUME NEW w \in Vote, NEW side \in BOOLEAN, Tally(w, side) >= Quorum
       PROVE  Tally(w, side)' >= Quorum
  <2> DEFINE more(S) == S \cup (IF w.approve = side THEN {w} ELSE {})
  <2>1. more(Of(w.report, side)) \subseteq more(Of(w.report, side)')
    BY <1>13
  <2>2. more(Of(w.report, side)') \in SUBSET Vote
    BY <1>9 DEF Of
  <2>3. /\ Tally(w, side) = Cardinality(more(Of(w.report, side)))
        /\ Tally(w, side)' = Cardinality(more(Of(w.report, side)'))
    BY DEF Tally
  <2> HIDE DEF more
  <2>4. /\ Cardinality(more(Of(w.report, side))) \in Nat
        /\ Cardinality(more(Of(w.report, side)')) \in Nat
        /\ Cardinality(more(Of(w.report, side))) <= Cardinality(more(Of(w.report, side)'))
    BY <2>1, <2>2, VotesGrow
  <2> QED
    BY <1>14, <2>3, <2>4
<1>15. ASSUME NEW k \in Ballots, ballot'[k] # Idle
       PROVE  /\ Entitled(k)'
              /\ ballot'[k].phase = "counted" => CountedWell(k)'
  <2>1. k # b /\ ballot'[k] = ballot[k] /\ Entitled(k)
    BY <1>11, <1>15 DEF VoteInv
  <2>2. ballot[k].vote \in Vote /\ ballot[k].vote.report \in Reports
    BY <2>1 DEF Entitled, Vote
  <2>3. Entitled(k)'
    <3>1. PICK r \in Reports : r = ballot[k].vote.report
      BY <2>2
    <3>2. /\ report'[r].status # "none" /\ report'[r].reporter = report[r].reporter
          /\ report'[r].status # "gone" => report[r].status # "gone"
      BY <1>6, <1>7, <1>8, <2>1, <3>1 DEF Entitled
    <3> QED
      BY <2>1, <3>1, <3>2 DEF Entitled
  <2>4. ASSUME ballot[k].phase = "counted" PROVE CountedWell(k)'
    <3>1. CountedWell(k) /\ ~SameVote(ballot[k].vote, v)
      BY <1>1, <1>3, <2>1, <2>4 DEF VoteInv, CountedWell
    <3>2. \A w \in votes' : ~SameVote(ballot[k].vote, w)
      BY <1>3, <3>1 DEF CountedWell
    <3>3. report'[ballot[k].vote.report].status # "gone"
      BY <1>7, <2>2, <3>1 DEF CountedWell
    <3>4. \A j \in Ballots : j # k /\ ballot'[j].phase = "counted" =>
             ~SameVote(ballot[k].vote, ballot'[j].vote)
      BY <1>11, <3>1 DEF CountedWell, Idle
    <3>5. /\ ballot[k].verdict = "validated" => Tally(ballot[k].vote, TRUE)' >= Quorum
          /\ ballot[k].verdict = "rejected" => Tally(ballot[k].vote, FALSE)' >= Quorum
          /\ ballot[k].verdict \in {"pending", "validated", "rejected"}
      <4>1. PICK w \in Vote : w = ballot[k].vote
        BY <2>2
      <4>2. /\ ballot[k].verdict = "validated" => Tally(w, TRUE) >= Quorum
            /\ ballot[k].verdict = "rejected" => Tally(w, FALSE) >= Quorum
            /\ ballot[k].verdict \in {"pending", "validated", "rejected"}
        BY <3>1, <4>1 DEF CountedWell
      <4>3. /\ ballot[k].verdict = "validated" => Tally(w, TRUE)' >= Quorum
            /\ ballot[k].verdict = "rejected" => Tally(w, FALSE)' >= Quorum
        BY <1>14, <4>2
      <4>4. \A side : Tally(w, side)' = Tally(ballot[k].vote, side)'
        BY <2>1, <4>1
      <4> QED
        BY <2>1, <4>1, <4>2, <4>3, <4>4
    <3> QED
      BY <2>1, <3>2, <3>3, <3>4, <3>5 DEF CountedWell
  <2> QED
    BY <2>1, <2>3, <2>4
<1>16. Supported'
  <2>1. ASSUME NEW r \in Reports, NEW side \in BOOLEAN, Cardinality(Of(r, side)) >= Quorum
        PROVE  Cardinality(Of(r, side)') >= Quorum
    <3>1. Of(r, side)' \in SUBSET Vote
      BY <1>9 DEF Of
    <3>2. /\ Cardinality(Of(r, side)) \in Nat /\ Cardinality(Of(r, side)') \in Nat
          /\ Cardinality(Of(r, side)) <= Cardinality(Of(r, side)')
      BY <1>13, <3>1, VotesGrow
    <3> QED
      BY <2>1, <3>2
  <2>2. ASSUME NEW side \in BOOLEAN, Tally(v, side) >= Quorum
        PROVE  Cardinality(Of(v.report, side)') >= Quorum
    <3>1. Of(v.report, side)' = Of(v.report, side) \cup (IF v.approve = side THEN {v} ELSE {})
      BY <1>3 DEF Of
    <3> QED
      BY <2>2, <3>1 DEF Tally
  <2>3. /\ verdict = "validated" => Cardinality(Of(v.report, TRUE)') >= Quorum
        /\ verdict = "rejected" => Cardinality(Of(v.report, FALSE)') >= Quorum
    BY <1>1, <1>2, <1>4, <2>2 DEF CountedWell
  <2>4. ASSUME NEW r \in Reports
        PROVE  /\ report'[r].status = "validated" => Cardinality(Of(r, TRUE)') >= Quorum
               /\ report'[r].status = "rejected" => Cardinality(Of(r, FALSE)') >= Quorum
               /\ errors'[r] > 0 /\ report'[r].status # "gone" => Cardinality(Of(r, TRUE)') >= Quorum
    <3>1. report[r].status = "gone" => report'[r].status = "gone"
      BY <1>6, <1>8
    <3> QED
      BY <1>6, <1>10, <2>1, <2>3, <3>1 DEF VoteInv, Supported
  <2> QED
    BY <2>4 DEF Supported
<1>17. \A k \in Ballots : ballot'[k].phase = "counted" => ballot'[k] # Idle
    BY DEF Idle
<1> QED
    BY <1>6, <1>9, <1>10, <1>11, <1>12, <1>15, <1>16, <1>17 DEF VoteInv, Idle

\* A merge takes reports and their votes away together.
LEMMA MergeStep ==
    ASSUME VoteInv, NEW keep \in Coins, NEW drop \in Coins, NEW retired, Merge(keep, drop, retired)
    PROVE  VoteInv'
<1> USE NewsroomAssumption
<1> DEFINE gone == [status |-> "gone", base |-> Gone, reporter |-> Gone]
<1>1. /\ ~Held(drop) /\ UNCHANGED <<ballot, errors>>
      /\ report' = [r \in Reports |-> IF report[r].base = drop THEN gone ELSE report[r]]
      /\ votes' = { v \in votes : report[v.report].base # drop }
    BY DEF Merge
<1>2. gone \in Report /\ gone.status = "gone"
    BY DEF Report, Status
<1>3. /\ report' \in [Reports -> Report]
      /\ \A r \in Reports : IF report[r].base = drop THEN report'[r].status = "gone"
                            ELSE report'[r] = report[r]
    BY <1>1, <1>2 DEF VoteInv
<1> HIDE DEF gone
<1>4. \A v \in votes' : v \in votes /\ v.report \in Reports /\ report'[v.report] = report[v.report]
    BY <1>1, <1>3 DEF VoteInv, Vote
<1>5. OnePerExpert'
    BY <1>4 DEF VoteInv, OnePerExpert, SameVote
<1>6. ASSUME NEW b \in Ballots, ballot'[b] # Idle PROVE Entitled(b)'
  <2>1. ballot'[b] = ballot[b] /\ Entitled(b)
    BY <1>1, <1>6 DEF VoteInv
  <2>2. PICK r \in Reports : r = ballot[b].vote.report
    BY <2>1 DEF Entitled, Vote
  <2>3. /\ report'[r].status # "none"
        /\ report'[r].status # "gone" => report[r].status # "gone" /\ report'[r] = report[r]
    BY <1>3, <2>1, <2>2 DEF Entitled
  <2> QED
    BY <2>1, <2>2, <2>3 DEF Entitled
<1>7. ASSUME NEW r \in Reports, report[r].base # drop, NEW side PROVE Of(r, side)' = Of(r, side)
    BY <1>1, <1>7 DEF Of
<1>8. ASSUME NEW b \in Ballots, ballot[b].phase = "counted" PROVE CountedWell(b)'
  <2>1. CountedWell(b) /\ ballot[b] # Idle /\ ballot'[b] = ballot[b]
    BY <1>1, <1>8 DEF VoteInv, Idle
  <2>2. PICK v \in Vote : v = ballot[b].vote
    BY <2>1 DEF VoteInv, Entitled
  <2>3. v.report \in Reports /\ report[v.report].base # drop
    BY <1>1, <1>8, <2>1, <2>2 DEF Held, Voting, Vote
  <2>4. \A side : Tally(v, side)' = Tally(v, side)
    BY <1>7, <2>3 DEF Tally
  <2>5. report'[v.report] = report[v.report]
    BY <1>3, <2>3
  <2>6. \A side : Tally(ballot[b].vote, side)' = Tally(v, side)
    BY <2>1, <2>2, <2>4
  <2> QED
    BY <1>1, <1>4, <2>1, <2>2, <2>5, <2>6 DEF CountedWell
<1>9. Supported'
    BY <1>1, <1>3, <1>7 DEF VoteInv, Supported
<1>10. votes' \subseteq Vote
    BY <1>1 DEF VoteInv
<1> QED
    BY <1>1, <1>3, <1>5, <1>6, <1>8, <1>9, <1>10 DEF VoteInv

LEMMA VoteInvStep == VoteInv /\ [Next]_vars => VoteInv'
<1> SUFFICES ASSUME VoteInv, [Next]_vars PROVE VoteInv'
    OBVIOUS
<1>1. ASSUME NEW c, NEW S,
             \/ Happen(c) \/ Compose(c) \/ Publish(c) \/ Join(c) \/ NextDay \/ FailBulletin
             \/ BeginBulletin(c) \/ EndBulletin(S) \/ UNCHANGED vars
      PROVE  VoteInv'
  <2>1. UNCHANGED <<report, votes, ballot, errors>>
    BY <1>1 DEF Happen, Compose, Publish, Join, NextDay, FailBulletin, BeginBulletin, EndBulletin,
       vars, voteVars
  <2> QED
    BY <2>1, VotesQuiet
<1> QED
    BY <1>1, SubmitStep, BeginVoteStep, CountStep, CastStep, FailStep, MergeStep DEF Next

\* VerdictsEarned: no report is decided without the votes of enough experts other than the
\* reporter, however requests and merges overlap.
THEOREM VerdictsHold == Spec => []VerdictsEarned
    BY VoteInvEarned, VoteInvInit, VoteInvStep, PTL DEF Spec

-----------------------------------------------------------------------------
(* A vote that overlaps no other.                                           *)

\* Its report is still to be decided, or a merge deleted it; no other request votes on it, and
\* the verdict counted is the one its votes give.
Undisturbed(b) ==
    LET v == ballot[b].vote
    IN  /\ report[v.report].status \in {"pending", "gone"}
        /\ \A k \in Ballots \ {b} : ballot[k] # Idle => ballot[k].vote.report # v.report
        /\ ballot[b].phase = "counted" => ballot[b].verdict = Verdict(v)

AloneInv ==
    /\ \A b \in Ballots : ballot[b] # Idle /\ ballot[b].alone => Undisturbed(b)
    /\ \A r \in Reports : report[r].status \in {"none", "pending"} => errors[r] = 0

LEMMA AloneInvInit == Init => AloneInv
    BY DEF Init, AloneInv

\* The verdict depends on the votes on the report.
LEMMA SameVerdict ==
    ASSUME NEW v, \A side : Of(v.report, side)' = Of(v.report, side)
    PROVE  Verdict(v)' = Verdict(v)
<1>1. Tally(v, TRUE)' = Tally(v, TRUE) /\ Tally(v, FALSE)' = Tally(v, FALSE)
    BY DEF Tally
<1> QED
    BY <1>1 DEF Verdict

\* A vote that was alone and still is, on a report nothing happened to.
LEMMA StaysAlone ==
    ASSUME AloneInv, NEW b \in Ballots, ballot[b] # Idle, ballot[b].alone,
           ballot'[b].vote = ballot[b].vote, ballot'[b].phase = ballot[b].phase,
           ballot'[b].verdict = ballot[b].verdict,
           \A k \in Ballots \ {b} : ballot'[k] # Idle =>
              \/ ballot[k] # Idle /\ ballot'[k].vote = ballot[k].vote
              \/ ballot'[k].vote.report # ballot[b].vote.report,
           report'[ballot[b].vote.report].status \in {"pending", "gone"},
           ballot[b].phase = "counted" =>
              \A side : Of(ballot[b].vote.report, side)' = Of(ballot[b].vote.report, side)
    PROVE  Undisturbed(b)'
<1>1. PICK v : v = ballot[b].vote
    OBVIOUS
<1>2. Undisturbed(b)
    BY DEF AloneInv
<1>3. \A k \in Ballots \ {b} : ballot'[k] # Idle => ballot'[k].vote.report # v.report
    BY <1>1, <1>2 DEF Undisturbed
<1>4. ballot[b].phase = "counted" => Verdict(v)' = Verdict(v)
    BY <1>1, SameVerdict
<1>5. ballot[b].phase = "counted" => ballot[b].verdict = Verdict(v)
    BY <1>1, <1>2 DEF Undisturbed
<1>6. \A w : w = v => Verdict(w)' = Verdict(v)'
    OBVIOUS
<1> QED
    BY <1>1, <1>3, <1>4, <1>5, <1>6 DEF Undisturbed

LEMMA AloneSubmit ==
    ASSUME VoteInv, AloneInv, NEW u \in Experts, NEW r \in Reports, NEW c \in Coins, Submit(u, r, c)
    PROVE  AloneInv'
<1> DEFINE new == [status |-> "pending", base |-> c, reporter |-> u]
<1>1. /\ report[r].status = "none" /\ report' = [report EXCEPT ![r] = new] /\ new.status = "pending"
      /\ UNCHANGED <<votes, ballot, errors>>
    BY DEF Submit
<1> HIDE DEF new
<1>2. report'[r] = new /\ \A k \in Reports \ {r} : report'[k] = report[k]
    BY <1>1 DEF VoteInv
<1>3. \A k, side : Of(k, side)' = Of(k, side)
    BY <1>1 DEF Of
<1>4. ASSUME NEW b \in Ballots, ballot[b] # Idle, ballot[b].alone PROVE Undisturbed(b)'
  <2>1. Undisturbed(b) /\ ballot[b].vote.report \in Reports
    BY <1>4 DEF AloneInv, VoteInv, Entitled, Vote
  <2>2. report'[ballot[b].vote.report].status \in {"pending", "gone"}
    BY <1>1, <1>2, <2>1 DEF Undisturbed
  <2> QED
    BY <1>1, <1>3, <1>4, <2>2, StaysAlone
<1> QED
    BY <1>1, <1>2, <1>4 DEF AloneInv

LEMMA AloneBegin ==
    ASSUME VoteInv, AloneInv, NEW b \in Ballots, NEW v \in Vote, BeginVote(b, v) PROVE AloneInv'
<1>1. /\ ballot[b] = Idle /\ MayVote(v.expert, v.report)
      /\ UNCHANGED <<report, votes, errors>>
    BY DEF BeginVote
<1>2. /\ ballot'[b] = [phase |-> "checked", vote |-> v, verdict |-> "pending",
                       brings |-> FALSE, alone |-> Voting(v.report) = {}]
      /\ \A k \in Ballots \ {b} : ballot'[k] = IF k \in Voting(v.report)
                                               THEN [ballot[k] EXCEPT !.alone = FALSE]
                                               ELSE ballot[k]
    BY <1>1 DEF BeginVote, Voting
<1>3. /\ ballot'[b].phase = "checked" /\ ballot'[b].vote = v
      /\ ballot'[b].alone = (Voting(v.report) = {})
    BY <1>2
<1>4. ASSUME NEW k \in Ballots \ {b}, ballot'[k] # Idle
      PROVE  /\ ballot[k] # Idle /\ ballot'[k].vote = ballot[k].vote
             /\ ballot'[k].alone => ballot'[k] = ballot[k] /\ k \notin Voting(v.report)
  <2>1. CASE k \in Voting(v.report)
    <3>1. ballot[k] # Idle /\ DOMAIN ballot[k] = {"phase", "vote", "verdict", "brings", "alone"}
      BY <2>1 DEF Voting, VoteInv, Entitled
    <3>2. ballot'[k].alone = FALSE /\ ballot'[k].vote = ballot[k].vote
      BY <1>2, <2>1, <3>1
    <3> QED
      BY <3>1, <3>2
  <2>2. CASE k \notin Voting(v.report)
    BY <1>2, <1>4, <2>2
  <2> QED
    BY <2>1, <2>2
<1>5. ASSUME ballot'[b].alone PROVE Undisturbed(b)'
  <2>1. \A k \in Ballots : ballot[k] # Idle => ballot[k].vote.report # v.report
    BY <1>3, <1>5 DEF Voting
  <2>2. report'[v.report].status = "pending"
    BY <1>1 DEF MayVote
  <2> QED
    BY <1>3, <1>4, <2>1, <2>2 DEF Undisturbed
<1>6. ASSUME NEW k \in Ballots \ {b}, ballot'[k] # Idle, ballot'[k].alone PROVE Undisturbed(k)'
  <2>1. ballot[k] # Idle /\ ballot'[k] = ballot[k] /\ ballot[k].alone /\ Undisturbed(k)
    BY <1>4, <1>6 DEF AloneInv
  <2>2. v.report # ballot[k].vote.report
    BY <1>4, <1>6, <2>1 DEF Voting
  <2>3. \A r, side : Of(r, side)' = Of(r, side)
    BY <1>1 DEF Of
  <2>4. \A j \in Ballots \ {k} : ballot'[j] # Idle =>
           \/ ballot[j] # Idle /\ ballot'[j].vote = ballot[j].vote
           \/ ballot'[j].vote.report # ballot[k].vote.report
    BY <1>3, <1>4, <2>2
  <2>5. report'[ballot[k].vote.report].status \in {"pending", "gone"}
    BY <1>1, <2>1 DEF Undisturbed
  <2> QED
    BY <2>1, <2>3, <2>4, <2>5, StaysAlone
<1> QED
    BY <1>1, <1>5, <1>6 DEF AloneInv

LEMMA AloneFail ==
    ASSUME VoteInv, AloneInv, NEW b \in Ballots, Fail(b) PROVE AloneInv'
<1>1. /\ ballot' = [ballot EXCEPT ![b] = Idle] /\ UNCHANGED <<report, votes, errors>>
    BY DEF Fail
<1>2. ballot'[b] = Idle /\ \A k \in Ballots \ {b} : ballot'[k] = ballot[k]
    BY <1>1 DEF VoteInv
<1>3. ASSUME NEW k \in Ballots, ballot'[k] # Idle, ballot'[k].alone PROVE Undisturbed(k)'
  <2>1. ballot[k] # Idle /\ ballot'[k] = ballot[k] /\ ballot[k].alone /\ Undisturbed(k)
    BY <1>2, <1>3 DEF AloneInv
  <2>2. report'[ballot[k].vote.report].status \in {"pending", "gone"}
    BY <1>1, <2>1 DEF Undisturbed
  <2>3. \A r, side : Of(r, side)' = Of(r, side)
    BY <1>1 DEF Of
  <2> QED
    BY <1>2, <2>1, <2>2, <2>3, StaysAlone
<1> QED
    BY <1>1, <1>3 DEF AloneInv

LEMMA AloneCount ==
    ASSUME VoteInv, AloneInv, NEW b \in Ballots, Count(b) PROVE AloneInv'
<1>1. /\ ballot[b].phase = "checked" /\ ballot[b] # Idle
      /\ UNCHANGED <<report, votes, errors>>
    BY DEF Count, Idle
<1>2. /\ ballot'[b] = [ballot[b] EXCEPT !.phase = "counted", !.verdict = Verdict(ballot[b].vote),
                                        !.brings = Verdict(ballot[b].vote) = "validated" /\ ~source]
      /\ \A k \in Ballots \ {b} : ballot'[k] = ballot[k]
    BY DEF Count, VoteInv
<1>3. /\ ballot'[b].vote = ballot[b].vote /\ ballot'[b].alone = ballot[b].alone
      /\ ballot'[b].verdict = Verdict(ballot[b].vote)
    BY <1>1, <1>2 DEF VoteInv, Entitled
<1>4. \A r, side : Of(r, side)' = Of(r, side)
    BY <1>1 DEF Of
<1>5. ASSUME ballot[b].alone PROVE Undisturbed(b)'
  <2>1. Undisturbed(b)
    BY <1>1, <1>5 DEF AloneInv
  <2>2. Verdict(ballot[b].vote) = Verdict(ballot[b].vote)'
    <3>1. PICK v : v = ballot[b].vote
      OBVIOUS
    <3>2. Verdict(v)' = Verdict(v) /\ v = ballot'[b].vote
      BY <1>3, <1>4, <3>1, SameVerdict
    <3> QED
      BY <3>1, <3>2
  <2> QED
    BY <1>1, <1>2, <1>3, <2>1, <2>2 DEF Undisturbed
<1>6. ASSUME NEW k \in Ballots \ {b}, ballot'[k] # Idle, ballot'[k].alone PROVE Undisturbed(k)'
  <2>1. ballot[k] # Idle /\ ballot'[k] = ballot[k] /\ ballot[k].alone /\ Undisturbed(k)
    BY <1>2, <1>6 DEF AloneInv
  <2>2. report'[ballot[k].vote.report].status \in {"pending", "gone"}
    BY <1>1, <2>1 DEF Undisturbed
  <2> QED
    BY <1>1, <1>2, <1>3, <1>4, <2>1, <2>2, StaysAlone
<1> QED
    BY <1>1, <1>3, <1>5, <1>6 DEF AloneInv

LEMMA AloneCast ==
    ASSUME VoteInv, AloneInv, NEW b \in Ballots, Cast(b) PROVE AloneInv'
<1>1. PICK v : v = ballot[b].vote
    OBVIOUS
<1>2. PICK verdict : verdict = ballot[b].verdict
    OBVIOUS
<1>3. /\ ballot[b].phase = "counted" /\ ballot[b] # Idle
      /\ votes' = votes \cup {v}
      /\ report' = IF verdict = "pending" THEN report
                   ELSE [report EXCEPT ![v.report].status = verdict]
      /\ errors' = IF verdict = "validated" THEN [errors EXCEPT ![v.report] = @ + 1] ELSE errors
      /\ ballot' = [ballot EXCEPT ![b] = Idle]
    BY <1>1, <1>2 DEF Cast, Idle
<1>4. /\ v.report \in Reports /\ verdict \in {"pending", "validated", "rejected"}
    BY <1>1, <1>2, <1>3 DEF VoteInv, Entitled, CountedWell, Vote
<1>5. ballot'[b] = Idle /\ \A k \in Ballots \ {b} : ballot'[k] = ballot[k]
    BY <1>3 DEF VoteInv
<1>6. /\ \A r \in Reports \ {v.report} : report'[r] = report[r] /\ errors'[r] = errors[r]
      /\ verdict # "pending" => report'[v.report].status = verdict
      /\ verdict = "pending" => report' = report /\ errors' = errors
    BY <1>3, <1>4 DEF VoteInv, Report
<1>7. ASSUME NEW k \in Ballots, ballot'[k] # Idle, ballot'[k].alone PROVE Undisturbed(k)'
  <2>1. /\ k # b /\ ballot[k] # Idle /\ ballot'[k] = ballot[k] /\ ballot[k].alone /\ Undisturbed(k)
        /\ ballot[k].vote.report \in Reports
    BY <1>5, <1>7 DEF AloneInv, VoteInv, Entitled, Vote
  <2>2. ballot[k].vote.report # v.report
    BY <1>1, <1>3, <2>1 DEF Undisturbed
  <2>3. report'[ballot[k].vote.report].status \in {"pending", "gone"}
    BY <1>6, <2>1, <2>2 DEF Undisturbed
  <2>4. \A side : Of(ballot[k].vote.report, side)' = Of(ballot[k].vote.report, side)
    <3>1. PICK r : r = ballot[k].vote.report
      OBVIOUS
    <3>2. \A side : Of(r, side)' = Of(r, side)
      BY <1>3, <2>2, <3>1 DEF Of
    <3> QED
      BY <2>1, <3>1, <3>2
  <2> QED
    BY <1>5, <2>1, <2>3, <2>4, StaysAlone
<1>8. ASSUME NEW r \in Reports, report'[r].status \in {"none", "pending"} PROVE errors'[r] = 0
    BY <1>4, <1>6, <1>8 DEF AloneInv
<1> QED
    BY <1>7, <1>8 DEF AloneInv

LEMMA AloneMerge ==
    ASSUME VoteInv, AloneInv, NEW keep \in Coins, NEW drop \in Coins, NEW retired,
           Merge(keep, drop, retired)
    PROVE  AloneInv'
<1>1. /\ ~Held(drop) /\ UNCHANGED <<ballot, errors>>
      /\ report' = [r \in Reports |->
            IF report[r].base = drop THEN [status |-> "gone", base |-> Gone, reporter |-> Gone]
            ELSE report[r]]
      /\ votes' = { v \in votes : report[v.report].base # drop }
    BY DEF Merge
<1>2. \A r \in Reports : IF report[r].base = drop THEN report'[r].status = "gone"
                         ELSE report'[r] = report[r]
    BY <1>1
<1>3. ASSUME NEW b \in Ballots, ballot[b] # Idle, ballot[b].alone PROVE Undisturbed(b)'
  <2>1. Undisturbed(b) /\ ballot[b].vote.report \in Reports
    BY <1>3 DEF AloneInv, VoteInv, Entitled, Vote
  <2>2. report'[ballot[b].vote.report].status \in {"pending", "gone"}
    BY <1>2, <2>1 DEF Undisturbed
  <2>3. ASSUME ballot[b].phase = "counted", NEW side
        PROVE  Of(ballot[b].vote.report, side)' = Of(ballot[b].vote.report, side)
    <3>1. PICK r : r = ballot[b].vote.report
      OBVIOUS
    <3>2. report[r].base # drop
      BY <1>1, <1>3, <2>1, <2>3, <3>1 DEF Held, Voting
    <3>3. Of(r, side)' = Of(r, side)
      BY <1>1, <3>2 DEF Of
    <3> QED
      BY <1>1, <3>1, <3>3
  <2> QED
    BY <1>1, <1>3, <2>2, <2>3, StaysAlone
<1> QED
    BY <1>1, <1>2, <1>3 DEF AloneInv

LEMMA AloneInvStep == VoteInv /\ AloneInv /\ [Next]_vars => AloneInv'
<1> SUFFICES ASSUME VoteInv, AloneInv, [Next]_vars PROVE AloneInv'
    OBVIOUS
<1>1. ASSUME NEW c, NEW S,
             \/ Happen(c) \/ Compose(c) \/ Publish(c) \/ Join(c) \/ NextDay \/ FailBulletin
             \/ BeginBulletin(c) \/ EndBulletin(S) \/ UNCHANGED vars
      PROVE  AloneInv'
  <2>1. UNCHANGED <<report, votes, ballot, errors>>
    BY <1>1 DEF Happen, Compose, Publish, Join, NextDay, FailBulletin, BeginBulletin, EndBulletin,
       vars, voteVars
  <2>2. \A v : Verdict(v)' = Verdict(v)
    BY <2>1, SameVerdict DEF Of
  <2> QED
    BY <2>1, <2>2 DEF AloneInv, Undisturbed
<1> QED
    BY <1>1, AloneSubmit, AloneBegin, AloneCount, AloneCast, AloneFail, AloneMerge DEF Next

\* The commit of a vote that was alone.
LEMMA CastDecides ==
    ASSUME VoteInv, AloneInv, NEW b \in Ballots, Cast(b), ballot[b].alone
    PROVE  LET r == ballot[b].vote.report
           IN  /\ report'[r].status = "pending" =>
                     \A side \in BOOLEAN :
                        Cardinality({ v \in votes' : v.report = r /\ v.approve = side }) < Quorum
               /\ errors'[r] <= 1
<1> USE NewsroomAssumption
<1>1. PICK v : v = ballot[b].vote
    OBVIOUS
<1>2. /\ ballot[b].phase = "counted" /\ ballot[b] # Idle /\ Undisturbed(b) /\ Entitled(b)
      /\ CountedWell(b)
    BY DEF Cast, Idle, AloneInv, VoteInv
<1>3. /\ v \in Vote /\ v.report \in Reports /\ v.approve \in BOOLEAN
      /\ report[v.report].status = "pending" /\ ballot[b].verdict = Verdict(v)
    BY <1>1, <1>2 DEF Undisturbed, Entitled, CountedWell, Vote
<1>4. /\ votes' = votes \cup {v}
      /\ report' = IF Verdict(v) = "pending" THEN report
                   ELSE [report EXCEPT ![v.report].status = Verdict(v)]
      /\ errors' = IF Verdict(v) = "validated" THEN [errors EXCEPT ![v.report] = @ + 1] ELSE errors
    BY <1>1, <1>3 DEF Cast
<1>5. errors[v.report] = 0
    BY <1>3 DEF AloneInv
<1>6. errors'[v.report] <= 1
    BY <1>3, <1>4, <1>5 DEF VoteInv
<1>7. ASSUME report'[v.report].status = "pending", NEW side \in BOOLEAN
      PROVE  Cardinality({ w \in votes' : w.report = v.report /\ w.approve = side }) < Quorum
  <2>1. Verdict(v) = "pending"
    <3>1. Verdict(v) # "pending" => report'[v.report].status = Verdict(v)
      BY <1>3, <1>4 DEF VoteInv, Report
    <3> QED
      BY <1>7, <3>1
  <2>2. ~(Tally(v, TRUE) >= Quorum) /\ ~(Tally(v, FALSE) >= Quorum)
    <3>1. Tally(v, TRUE) \in Nat /\ Tally(v, FALSE) \in Nat
      <4>1. ASSUME NEW s \in BOOLEAN PROVE Tally(v, s) \in Nat
        <5>1. Of(v.report, s) \cup (IF v.approve = s THEN {v} ELSE {}) \in SUBSET Vote
          BY <1>3 DEF Of, VoteInv
        <5> QED
          BY <5>1, VotesGrow DEF Tally
      <4> QED
        BY <4>1
    <3>2. PICK m \in Nat : m = Tally(v, TRUE)
      BY <3>1
    <3>3. PICK n \in Nat : n = Tally(v, FALSE)
      BY <3>1
    <3>4. CASE m >= Quorum
      <4>1. m >= Quorum /\ ~(m < Quorum)
        BY <3>4
      <4>2. Verdict(v) = "validated"
        BY <3>2, <4>1 DEF Verdict
      <4> QED
        BY <2>1, <4>2
    <3>5. CASE m < Quorum /\ n >= Quorum
      <4>1. ~(m >= Quorum)
        BY <3>5
      <4>2. Verdict(v) = "rejected"
        BY <3>2, <3>3, <3>5, <4>1 DEF Verdict
      <4> QED
        BY <2>1, <4>2
    <3>6. CASE m < Quorum /\ n < Quorum
      <4>1. ~(m >= Quorum) /\ ~(n >= Quorum)
        BY <3>6
      <4> QED
        BY <3>2, <3>3, <4>1
    <3>7. m >= Quorum \/ (m < Quorum /\ n >= Quorum) \/ (m < Quorum /\ n < Quorum)
      OBVIOUS
    <3> QED
      BY <3>4, <3>5, <3>6, <3>7
  <2>3. { w \in votes' : w.report = v.report /\ w.approve = side }
           = Of(v.report, side) \cup (IF v.approve = side THEN {v} ELSE {})
    BY <1>4 DEF Of
  <2>4. Of(v.report, side) \cup (IF v.approve = side THEN {v} ELSE {}) \in SUBSET Vote
    BY <1>3 DEF Of, VoteInv
  <2>5. Tally(v, side) \in Nat
    BY <2>4, VotesGrow DEF Tally
  <2>6. ~(Tally(v, side) >= Quorum)
    BY <2>2
  <2>7. Tally(v, side) < Quorum
    BY <2>5, <2>6
  <2> QED
    BY <2>3, <2>7 DEF Tally
<1> QED
    BY <1>1, <1>6, <1>7

\* AloneDecides: a vote that overlaps no other on its report decides it if it may, and brings
\* its error into the catalogue once.
THEOREM AloneVote == Spec => AloneDecides
<1>1. VoteInv /\ AloneInv /\ [Next]_vars =>
         [\A b \in Ballots :
             Cast(b) /\ ballot[b].alone =>
                LET r == ballot[b].vote.report
                IN  /\ report'[r].status = "pending" =>
                          \A side \in BOOLEAN :
                             Cardinality({ v \in votes' : v.report = r /\ v.approve = side }) < Quorum
                    /\ errors'[r] <= 1]_vars
    BY CastDecides
<1> QED
    BY <1>1, VoteInvInit, VoteInvStep, AloneInvInit, AloneInvStep, PTL DEF Spec, AloneDecides

-----------------------------------------------------------------------------
(* Events and news.                                                         *)

AnyEvent == [id : Nat \ {0}, of : Coins \cup {Gone}]

\* No two events have the same id; the next one's is free.
LogInv ==
    /\ log \in Seq(AnyEvent) /\ Len(log) <= MaxEvents
    /\ \A i \in 1..Len(log) : log[i].id <= Len(log)
    /\ \A i, j \in 1..Len(log) : log[i].id = log[j].id => i = j

LEMMA Inserted ==
    ASSUME NEW S, NEW s \in Seq(S), NEW e \in S, NEW i \in 1..(Len(s) + 1)
    PROVE  /\ InsertAt(s, i, e) \in Seq(S)
           /\ Len(InsertAt(s, i, e)) = Len(s) + 1
           /\ \A k \in 1..(Len(s) + 1) : InsertAt(s, i, e)[k] =
                 IF k < i THEN s[k] ELSE IF k = i THEN e ELSE s[k - 1]
<1> DEFINE front == SubSeq(s, 1, i - 1)
           back == SubSeq(s, i, Len(s))
           most == front \o <<e>>
<1>1. i \in Int /\ 1 <= i /\ i <= Len(s) + 1 /\ Len(s) \in Nat
    OBVIOUS
<1>2. \A k \in 1..Len(s) : s[k] \in S
    OBVIOUS
<1>3. /\ front \in Seq(S) /\ Len(front) = i - 1
      /\ \A k \in 1..(i - 1) : front[k] = s[k]
  <2>1. \A k \in 1..(i - 1) : s[k] \in S
    BY <1>1, <1>2
  <2>2. 1 \in Int /\ i - 1 \in Int
    BY <1>1
  <2>3. /\ front \in Seq(S) /\ Len(front) = IF 1 <= i - 1 THEN i - 1 - 1 + 1 ELSE 0
        /\ \A k \in 1 .. (i - 1) - 1 + 1 : front[k] = s[1 + k - 1]
    BY <2>1, <2>2, SubSeqProperties
  <2> HIDE DEF front
  <2>4. \A k \in 1..(i - 1) : 1 + k - 1 = k
    BY <1>1
  <2> QED
    BY <1>1, <2>3, <2>4
<1>4. /\ back \in Seq(S) /\ Len(back) = Len(s) - i + 1
      /\ \A k \in 1..(Len(s) - i + 1) : back[k] = s[i + k - 1]
  <2>1. \A k \in i..Len(s) : s[k] \in S
    BY <1>1, <1>2
  <2>2. /\ back \in Seq(S) /\ Len(back) = IF i <= Len(s) THEN Len(s) - i + 1 ELSE 0
        /\ \A k \in 1 .. Len(s) - i + 1 : back[k] = s[i + k - 1]
    BY <1>1, <2>1, SubSeqProperties
  <2> HIDE DEF back
  <2> QED
    BY <1>1, <2>2
<1> HIDE DEF front, back
<1>5. /\ most \in Seq(S) /\ Len(most) = i
      /\ \A k \in 1..i : most[k] = IF k < i THEN s[k] ELSE e
  <2>1. <<e>> \in Seq(S) /\ Len(<<e>>) = 1 /\ <<e>>[1] = e
    OBVIOUS
  <2>2. /\ most \in Seq(S) /\ Len(most) = Len(front) + 1
        /\ \A k \in 1 .. Len(front) + 1 : most[k] =
              IF k <= Len(front) THEN front[k] ELSE <<e>>[k - Len(front)]
    BY <1>3, <2>1, ConcatProperties
  <2> HIDE DEF most
  <2> QED
    BY <1>1, <1>3, <2>1, <2>2
<1> HIDE DEF most
<1>6. /\ most \o back \in Seq(S) /\ Len(most \o back) = Len(s) + 1
      /\ \A k \in 1 .. Len(s) + 1 : (most \o back)[k] = IF k <= i THEN most[k] ELSE back[k - i]
  <2>1. /\ most \o back \in Seq(S) /\ Len(most \o back) = Len(most) + Len(back)
        /\ \A k \in 1 .. Len(most) + Len(back) : (most \o back)[k] =
              IF k <= Len(most) THEN most[k] ELSE back[k - Len(most)]
    BY <1>4, <1>5, ConcatProperties
  <2>2. Len(most) = i /\ Len(most) + Len(back) = Len(s) + 1
    BY <1>1, <1>4, <1>5
  <2> QED
    BY <2>1, <2>2
<1>7. InsertAt(s, i, e) = most \o back
    BY DEF InsertAt, front, back, most
<1>8. ASSUME NEW k \in 1..(Len(s) + 1)
      PROVE  (most \o back)[k] = IF k < i THEN s[k] ELSE IF k = i THEN e ELSE s[k - 1]
  <2>1. CASE k <= i
    BY <1>1, <1>5, <1>6, <2>1
  <2>2. CASE k > i
    <3>1. k - i \in 1..(Len(s) - i + 1) /\ i + (k - i) - 1 = k - 1
      BY <1>1, <2>2
    <3> QED
      BY <1>1, <1>4, <1>6, <2>2, <3>1
  <2>3. k <= i \/ k > i
    BY <1>1
  <2> QED
    BY <2>1, <2>2, <2>3
<1> QED
    BY <1>6, <1>7, <1>8

LEMMA LogInvInit == Init => LogInv
    BY NewsroomAssumption DEF Init, LogInv, AnyEvent

\* An event among others, which may have moved to another coin.
LEMMA LogGrows ==
    ASSUME LogInv, NEW events \in Seq(AnyEvent), Len(events) = Len(log), Len(log) < MaxEvents,
           \A i \in 1..Len(log) : events[i].id = log[i].id,
           NEW c \in Coins, log' \in Logged(events, [id |-> Len(log) + 1, of |-> c])
    PROVE  LogInv'
<1> DEFINE new == [id |-> Len(log) + 1, of |-> c]
<1>1. new \in AnyEvent /\ new.id = Len(log) + 1 /\ Len(log) \in Nat
    BY DEF AnyEvent, LogInv
<1> HIDE DEF new
<1>2. PICK i \in 1..(Len(log) + 1) : log' = InsertAt(events, i, new)
    BY DEF Logged, new
<1>3. /\ log' \in Seq(AnyEvent) /\ Len(log') = Len(log) + 1
      /\ \A k \in 1..(Len(log) + 1) :
            log'[k] = IF k < i THEN events[k] ELSE IF k = i THEN new ELSE events[k - 1]
  <2>1. i \in 1..(Len(events) + 1)
    BY <1>1
  <2>2. /\ InsertAt(events, i, new) \in Seq(AnyEvent)
        /\ Len(InsertAt(events, i, new)) = Len(events) + 1
        /\ \A k \in 1..(Len(events) + 1) : InsertAt(events, i, new)[k] =
              IF k < i THEN events[k] ELSE IF k = i THEN new ELSE events[k - 1]
    BY <1>1, <2>1, Inserted
  <2> QED
    BY <1>2, <2>2
<1>4. ASSUME NEW k \in 1..(Len(log) + 1), k # i
      PROVE  \E m \in 1..Len(log) : /\ m = (IF k < i THEN k ELSE k - 1)
                                    /\ log'[k].id = log[m].id
  <2>1. CASE k < i
    <3>1. k \in 1..Len(log)
      BY <1>1, <2>1
    <3> QED
      BY <1>3, <2>1, <3>1
  <2>2. CASE k > i
    <3>1. k - 1 \in 1..Len(log) /\ ~(k < i)
      BY <1>1, <2>2
    <3> QED
      BY <1>3, <1>4, <3>1
  <2> QED
    BY <1>4, <2>1, <2>2
<1>5. \A m \in 1..Len(log) : log[m].id \in Nat /\ log[m].id <= Len(log)
  <2>1. \A m \in 1..Len(log) : log[m] \in AnyEvent
    BY DEF LogInv
  <2> QED
    BY <2>1 DEF LogInv, AnyEvent
<1>6. log'[i].id = Len(log) + 1
    BY <1>1, <1>3
<1>7. ASSUME NEW k \in 1..(Len(log) + 1), k # i PROVE log'[k].id <= Len(log) /\ log'[k].id \in Nat
    BY <1>4, <1>5, <1>7
<1>8. \A k \in 1..(Len(log) + 1) : log'[k].id <= Len(log) + 1
    BY <1>1, <1>6, <1>7
<1>9. ASSUME NEW k \in 1..(Len(log) + 1), NEW m \in 1..(Len(log) + 1), log'[k].id = log'[m].id
      PROVE  k = m
  <2>1. CASE k = i \/ m = i
    BY <1>1, <1>6, <1>7, <1>9, <2>1
  <2>2. CASE k # i /\ m # i
    <3>1. PICK x \in 1..Len(log) : x = (IF k < i THEN k ELSE k - 1) /\ log'[k].id = log[x].id
      BY <1>4, <2>2
    <3>2. PICK y \in 1..Len(log) : y = (IF m < i THEN m ELSE m - 1) /\ log'[m].id = log[y].id
      BY <1>4, <2>2
    <3>3. x = y
      BY <1>9, <3>1, <3>2 DEF LogInv
    <3> QED
      BY <1>1, <2>2, <3>1, <3>2, <3>3
  <2> QED
    BY <2>1, <2>2
<1>10. Len(log') <= MaxEvents
    BY <1>1, <1>3, NewsroomAssumption
<1> QED
    BY <1>3, <1>8, <1>9, <1>10 DEF LogInv

LEMMA LogInvStep == LogInv /\ [Next]_vars => LogInv'
<1> SUFFICES ASSUME LogInv, [Next]_vars PROVE LogInv'
    OBVIOUS
<1>1. ASSUME NEW c \in Coins, Happen(c) PROVE LogInv'
    BY <1>1, LogGrows DEF Happen, LogInv
<1>2. ASSUME NEW keep \in Coins, NEW drop \in Coins, NEW retired, Merge(keep, drop, retired)
      PROVE  LogInv'
  <2> DEFINE events == [i \in DOMAIN log |-> Moved(log[i], keep, drop, retired)]
  <2>1. \A i \in 1..Len(log) : log[i] \in AnyEvent
    BY DEF LogInv
  <2>2. \A e \in AnyEvent : /\ Moved(e, keep, drop, retired) \in AnyEvent
                            /\ Moved(e, keep, drop, retired).id = e.id
    BY DEF Moved, AnyEvent
  <2>3. DOMAIN log = 1..Len(log) /\ Len(log) \in Nat
    BY DEF LogInv
  <2>4. /\ events \in Seq(AnyEvent) /\ Len(events) = Len(log)
        /\ \A i \in 1..Len(log) : events[i].id = log[i].id
    BY <2>1, <2>2, <2>3
  <2>5. Len(log) < MaxEvents /\ log' \in Logged(events, [id |-> Len(log) + 1, of |-> keep])
    BY <1>2 DEF Merge
  <2> HIDE DEF events
  <2> QED
    BY <2>4, <2>5, LogGrows
<1>3. ASSUME NEW c, NEW S, NEW u, NEW r, NEW v,
             \/ Compose(c) \/ Publish(c) \/ Join(c) \/ NextDay \/ FailBulletin
             \/ BeginBulletin(c) \/ EndBulletin(S) \/ Submit(u, r, c) \/ BeginVote(c, v)
             \/ Count(c) \/ Cast(c) \/ Fail(c) \/ UNCHANGED vars
      PROVE  LogInv'
  <2>1. log' = log
    BY <1>3 DEF Compose, Publish, Join, NextDay, FailBulletin, BeginBulletin, EndBulletin, Submit,
       BeginVote, Count, Cast, Fail, vars, newsVars
  <2> QED
    BY <2>1 DEF LogInv
<1> QED
    BY <1>1, <1>2, <1>3 DEF Next

\* A set of positions has a first one.
LEMMA FirstOf ==
    ASSUME NEW n \in Nat, NEW S \in SUBSET (1..n), S # {}
    PROVE  \E i \in S : \A j \in S : i <= j
<1> DEFINE T == { 1..i : i \in S }
<1>1. T # {} /\ T \subseteq SUBSET (1..n)
  <2>1. \A i \in S : 1..i \subseteq 1..n
    OBVIOUS
  <2> QED
    BY <2>1
<1>2. IsWellFoundedOn(StrictSubsetOrdering(1..n), FiniteSubsetsOf(1..n))
    BY FS_StrictSubsetOrderingWellFounded
<1>3. T \subseteq FiniteSubsetsOf(1..n)
    BY <1>1, FS_Interval, FS_FiniteSubsetsOfFinite
<1> HIDE DEF T
<1>4. PICK x \in T : \A y \in T : ~ (<<y, x>> \in StrictSubsetOrdering(1..n))
    BY <1>1, <1>2, <1>3, WFMin
<1>5. PICK i \in S : x = 1..i
    BY DEF T
<1>6. ASSUME NEW j \in S, j < i PROVE FALSE
  <2>1. 1..j \in T
    BY DEF T
  <2>2. 1..j \subseteq x /\ 1..j # x
    <3>1. i \in 1..i /\ i \notin 1..j
      BY <1>6
    <3> QED
      BY <1>5, <1>6, <3>1
  <2>3. <<1..j, x>> \in StrictSubsetOrdering(1..n)
    BY <1>1, <2>1, <2>2 DEF StrictSubsetOrdering
  <2> QED
    BY <1>4, <2>1, <2>3
<1> QED
    BY <1>6

\* NextRunTells: an event of a coin in the catalogue is told by the next run, unless a page of
\* events that cannot be told comes before it.
THEOREM NextRun == Spec => []NextRunTells
<1>1. LogInv => NextRunTells
  <2> SUFFICES ASSUME LogInv, \E e \in Range(log) : e.of # Gone /\ e.id \notin told,
                      Cardinality(Mute) < Limit
               PROVE  Rendered # {}
    BY DEF NextRunTells
  <2>1. DOMAIN log = 1..Len(log) /\ Len(log) \in Nat
    BY DEF LogInv
  <2>2. Range(log) = { log[i] : i \in 1..Len(log) }
    BY <2>1 DEF Range
  <2> DEFINE due == { i \in Untold : log[i].of # Gone }
  <2>3. due # {} /\ due \in SUBSET (1..Len(log))
    BY <2>1, <2>2 DEF Untold
  <2>4. PICK i \in due : \A j \in due : i <= j
    <3> HIDE DEF due
    <3> QED
      BY <2>1, <2>3, FirstOf
  <2> DEFINE before == { j \in Untold : j < i }
             f == [j \in before |-> log[j]]
  <2>5. IsFiniteSet(Mute)
    <3> DEFINE g == [j \in 1..Len(log) |-> log[j]]
    <3>1. g \in Surjection(1..Len(log), Range(log))
      BY <2>2 DEF Surjection
    <3>2. IsFiniteSet(1..Len(log))
      BY <2>1, FS_Interval
    <3>3. IsFiniteSet(Range(log))
      BY <3>1, <3>2, FS_Surjection
    <3> QED
      BY <3>3, FS_Subset DEF Mute
  <2>6. \A j \in before : log[j] \in Mute /\ j \in 1..Len(log)
    <3>1. \A j \in before : j \notin due /\ j \in 1..Len(log) /\ log[j].id \notin told
      BY <2>1, <2>3, <2>4 DEF Untold
    <3> QED
      BY <2>2, <3>1 DEF Mute, Untold
  <2>7. f \in Injection(before, Mute)
    BY <2>6 DEF Injection, IsInjective, LogInv
  <2>8. IsFiniteSet(before) /\ Cardinality(before) <= Cardinality(Mute)
    <3> HIDE DEF before, f
    <3> QED
      BY <2>5, <2>7, FS_Injection
  <2>9. Cardinality(before) \in Nat /\ Cardinality(Mute) \in Nat /\ Limit \in Nat
    BY <2>5, <2>8, FS_CardinalityType, NewsroomAssumption
  <2>10. Cardinality(before) < Limit
    BY <2>8, <2>9
  <2>11. i \in Page
    BY <2>10 DEF Page
  <2> QED
    BY <2>11 DEF Rendered
<1> QED
    BY <1>1, LogInvInit, LogInvStep, PTL DEF Spec

-----------------------------------------------------------------------------
(* Types.  What counts and who voted is in VoteInv, the events in LogInv.     *)

NewsTyped ==
    /\ coins \subseteq Coins /\ told \subseteq Events
    /\ edition \in [Publishers -> SUBSET Events]

Counted == [phase : {"checked", "counted"}, vote : Vote,
            verdict : {"pending", "validated", "rejected"}, brings : BOOLEAN, alone : BOOLEAN]
BallotTyped == ballot \in [Ballots -> Ballot] /\ source \in BOOLEAN

Printed == [written : BOOLEAN, quiet : BOOLEAN, mail : [Readers -> Nat]]
Draft == [of : {"none", "today", "yesterday"}, readers : SUBSET Readers, parts : SUBSET Parts]
PressTyped == accounts \subseteq Readers /\ bulletin \in Printed /\ draft \in Draft

LEMMA LogTyped == LogInv => log \in Seq(Event) /\ Len(log) <= MaxEvents
<1> SUFFICES ASSUME LogInv PROVE log \in Seq(Event) /\ Len(log) <= MaxEvents
    OBVIOUS
<1>1. log \in Seq(AnyEvent) /\ Len(log) <= MaxEvents /\ Len(log) \in Nat
    BY DEF LogInv
<1>2. ASSUME NEW i \in 1..Len(log) PROVE log[i] \in Event
  <2>1. log[i] \in AnyEvent /\ log[i].id <= Len(log)
    BY <1>1 DEF LogInv
  <2>2. log[i].id \in Events
    BY <1>1, <2>1, NewsroomAssumption DEF AnyEvent, Events
  <2> QED
    BY <2>1, <2>2 DEF AnyEvent, Event
<1> QED
    BY <1>1, <1>2

\* What is rendered is in the log.
LEMMA RenderedTyped == LogInv => { e.id : e \in Rendered } \subseteq Events
<1> SUFFICES ASSUME LogInv, NEW i \in Page PROVE log[i].id \in Events
    BY DEF Rendered
<1>1. log \in Seq(Event)
    BY LogTyped
<1>2. i \in DOMAIN log
    BY DEF Page, Untold
<1>3. log[i] \in Event
    BY <1>1, <1>2
<1> QED
    BY <1>3 DEF Event

LEMMA NewsStep == LogInv /\ NewsTyped /\ [Next]_vars => NewsTyped'
<1> SUFFICES ASSUME LogInv, NewsTyped, [Next]_vars PROVE NewsTyped'
    OBVIOUS
<1>1. ASSUME NEW p \in Publishers, Compose(p) PROVE NewsTyped'
  <2>1. { e.id : e \in Rendered } \in SUBSET Events
    BY RenderedTyped
  <2>2. edition' \in [Publishers -> SUBSET Events]
    BY <1>1, <2>1 DEF Compose, NewsTyped
  <2> QED
    BY <1>1, <2>2 DEF Compose, NewsTyped
<1>2. ASSUME NEW p \in Publishers, Publish(p) PROVE NewsTyped'
    BY <1>2 DEF Publish, NewsTyped
<1>3. ASSUME NEW keep \in Coins, NEW drop \in Coins, NEW retired, Merge(keep, drop, retired)
      PROVE  NewsTyped'
    BY <1>3 DEF Merge, NewsTyped
<1>4. ASSUME NEW c, NEW S, NEW u, NEW r, NEW v,
             \/ Happen(c) \/ Join(c) \/ NextDay \/ FailBulletin
             \/ BeginBulletin(c) \/ EndBulletin(S) \/ Submit(u, r, c) \/ BeginVote(c, v)
             \/ Count(c) \/ Cast(c) \/ Fail(c) \/ UNCHANGED vars
      PROVE  NewsTyped'
  <2>1. coins' = coins /\ told' = told /\ edition' = edition
    BY <1>4 DEF Happen, Join, NextDay, FailBulletin, BeginBulletin, EndBulletin, Submit,
       BeginVote, Count, Cast, Fail, vars, newsVars
  <2> QED
    BY <2>1 DEF NewsTyped
<1> QED
    BY <1>1, <1>2, <1>3, <1>4 DEF Next

LEMMA BallotIs == Ballot = {Idle} \cup Counted
    BY DEF Ballot, Counted

LEMMA BallotStep == BallotTyped /\ [Next]_vars => BallotTyped'
<1> SUFFICES ASSUME BallotTyped, [Next]_vars PROVE BallotTyped'
    OBVIOUS
<1>1. ASSUME NEW b \in Ballots, NEW v \in Vote, BeginVote(b, v) PROVE BallotTyped'
  <2>1. /\ source' = source
        /\ ballot' = [k \in Ballots |->
              CASE k = b -> [phase |-> "checked", vote |-> v, verdict |-> "pending",
                             brings |-> FALSE, alone |-> Voting(v.report) = {}]
                [] k \in Voting(v.report) \ {b} -> [ballot[k] EXCEPT !.alone = FALSE]
                [] OTHER -> ballot[k]]
    BY <1>1 DEF BeginVote
  <2>2. ASSUME NEW k \in Ballots, k \in Voting(v.report)
        PROVE  [ballot[k] EXCEPT !.alone = FALSE] \in Ballot
    <3>1. ballot[k] \in Counted
      BY <2>2, BallotIs DEF BallotTyped, Voting
    <3>2. [ballot[k] EXCEPT !.alone = FALSE] \in Counted
      BY <3>1 DEF Counted
    <3> QED
      BY <3>2, BallotIs
  <2>3. [phase |-> "checked", vote |-> v, verdict |-> "pending",
         brings |-> FALSE, alone |-> Voting(v.report) = {}] \in Ballot
    <3> DEFINE lone == Voting(v.report) = {}
    <3>1. lone \in BOOLEAN
      OBVIOUS
    <3> HIDE DEF lone
    <3>2. [phase |-> "checked", vote |-> v, verdict |-> "pending",
           brings |-> FALSE, alone |-> lone] \in Counted
      BY <3>1, Zenon DEF Counted
    <3> QED
      BY <3>2, BallotIs DEF lone
  <2>4. ASSUME NEW k \in Ballots PROVE ballot'[k] \in Ballot
    <3>1. CASE k = b
      BY <2>1, <2>3, <3>1, Zenon
    <3>2. CASE k # b /\ k \in Voting(v.report)
      BY <2>1, <2>2, <3>2, Zenon
    <3>3. CASE k # b /\ k \notin Voting(v.report)
      <4>1. ballot'[k] = ballot[k]
        BY <2>1, <3>3, Zenon
      <4> QED
        BY <4>1 DEF BallotTyped
    <3> QED
      BY <3>1, <3>2, <3>3
  <2> QED
    BY <2>1, <2>4, Zenon DEF BallotTyped
<1>2. ASSUME NEW b \in Ballots, Count(b) PROVE BallotTyped'
  <2> DEFINE x == ballot[b]
             w == Verdict(x.vote)
             sure == w = "validated" /\ ~source
             y == [x EXCEPT !.phase = "counted", !.verdict = w, !.brings = sure]
  <2>1. x.phase = "checked" /\ source' = source
    BY <1>2 DEF Count
  <2>2. x \in Counted
    BY <2>1, BallotIs DEF BallotTyped, Idle
  <2>3. ballot' = [ballot EXCEPT ![b] = y]
    BY <1>2, ZenonT(40) DEF Count
  <2>4. w \in {"pending", "validated", "rejected"}
    BY DEF Verdict
  <2>5. sure \in BOOLEAN
    OBVIOUS
  <2> HIDE DEF x, w, sure
  <2>6. y = [phase |-> "counted", vote |-> x.vote, verdict |-> w, brings |-> sure,
             alone |-> x.alone]
    <3>1. y = [f \in DOMAIN x |-> IF f = "brings" THEN sure ELSE IF f = "verdict" THEN w
                                  ELSE IF f = "phase" THEN "counted" ELSE x[f]]
      BY Zenon
    <3>2. DOMAIN x = {"phase", "vote", "verdict", "brings", "alone"}
      BY <2>2 DEF Counted
    <3> HIDE DEF y
    <3> QED
      BY <3>1, <3>2
  <2>7. x.vote \in Vote /\ x.alone \in BOOLEAN
    BY <2>2, Zenon DEF Counted
  <2> HIDE DEF y
  <2>8. y \in Counted
    BY <2>4, <2>5, <2>6, <2>7, Zenon DEF Counted
  <2>9. y \in Ballot
    BY <2>8, BallotIs
  <2> QED
    BY <2>1, <2>3, <2>9 DEF BallotTyped
<1>3. ASSUME NEW b \in Ballots, Cast(b) PROVE BallotTyped'
  <2>1. source' = (source \/ ballot[b].brings) /\ ballot' = [ballot EXCEPT ![b] = Idle]
    BY <1>3 DEF Cast
  <2>2. source' \in BOOLEAN
    BY <2>1
  <2> QED
    BY <2>1, <2>2, BallotIs DEF BallotTyped
<1>4. ASSUME NEW b \in Ballots, Fail(b) PROVE BallotTyped'
    BY <1>4, BallotIs DEF Fail, BallotTyped
<1>5. ASSUME NEW c, NEW d, NEW S, NEW u, NEW r,
             \/ Happen(c) \/ Compose(c) \/ Publish(c) \/ Join(c) \/ NextDay \/ FailBulletin
             \/ BeginBulletin(c) \/ EndBulletin(S) \/ Submit(u, r, c) \/ Merge(c, d, S)
             \/ UNCHANGED vars
      PROVE  BallotTyped'
  <2>1. ballot' = ballot /\ source' = source
    BY <1>5 DEF Happen, Compose, Publish, Join, NextDay, FailBulletin, BeginBulletin, EndBulletin,
       Submit, Merge, vars, voteVars
  <2> QED
    BY <2>1, Zenon DEF BallotTyped
<1> QED
    BY <1>1, <1>2, <1>3, <1>4, <1>5 DEF Next

LEMMA PressStep == PressTyped /\ [Next]_vars => PressTyped'
<1> SUFFICES ASSUME PressTyped, [Next]_vars PROVE PressTyped'
    OBVIOUS
<1>1. NoDraft \in Draft
    BY DEF NoDraft, Draft
<1>2. ASSUME NEW u \in Readers, Join(u) PROVE PressTyped'
  <2>1. bulletin' = bulletin /\ draft' = draft /\ accounts' \subseteq Readers
    BY <1>2 DEF Join, PressTyped
  <2> QED
    BY <2>1 DEF PressTyped
<1>3. CASE NextDay
  <2>1. bulletin' = Blank /\ accounts' = accounts
        /\ draft' = IF draft = NoDraft THEN draft ELSE [draft EXCEPT !.of = "yesterday"]
    BY <1>3 DEF NextDay
  <2>2. [draft EXCEPT !.of = "yesterday"] \in Draft
    BY DEF PressTyped, Draft
  <2>3. Blank \in Printed
    <3>1. [u \in Readers |-> 0] \in [Readers -> Nat]
      OBVIOUS
    <3> QED
      BY <3>1, Zenon DEF Blank, Printed
  <2>4. draft' \in Draft
    BY <2>1, <2>2 DEF PressTyped
  <2> QED
    BY <2>1, <2>3, <2>4, Zenon DEF PressTyped
<1>4. ASSUME NEW market \in Markets, BeginBulletin(market) PROVE PressTyped'
  <2>1. /\ draft' = [of |-> "today", readers |-> accounts, parts |-> Composed(market)]
        /\ accounts' = accounts /\ bulletin' = bulletin
    BY <1>4 DEF BeginBulletin
  <2>2. Composed(market) \subseteq Parts
    BY NewsroomAssumption DEF Composed, Parts
  <2>3. draft' \in Draft
    BY <2>1, <2>2 DEF PressTyped, Draft
  <2> QED
    BY <2>1, <2>3, Zenon DEF PressTyped
<1>5. ASSUME NEW readers \in SUBSET accounts, EndBulletin(readers) PROVE PressTyped'
  <2> DEFINE mail == [u \in Readers |-> bulletin.mail[u] + (IF u \in readers THEN 1 ELSE 0)]
             still == draft.parts = {"figure"}
  <2>1. /\ draft' = NoDraft /\ accounts' = accounts
        /\ bulletin' = IF draft.of = "yesterday" THEN bulletin
                       ELSE [written |-> TRUE, quiet |-> still, mail |-> mail]
    BY <1>5 DEF EndBulletin
  <2>2. still \in BOOLEAN
    OBVIOUS
  <2>3. mail \in [Readers -> Nat]
    <3>1. bulletin.mail \in [Readers -> Nat]
      BY Zenon DEF PressTyped, Printed
    <3> QED
      BY <3>1
  <2> HIDE DEF mail, still
  <2>4. [written |-> TRUE, quiet |-> still, mail |-> mail] \in Printed
    BY <2>2, <2>3, Zenon DEF Printed
  <2>5. bulletin' \in Printed
    BY <2>1, <2>4, Zenon DEF PressTyped
  <2> QED
    BY <1>1, <2>1, <2>5, Zenon DEF PressTyped
<1>6. CASE FailBulletin
    BY <1>1, <1>6, Zenon DEF FailBulletin, PressTyped
<1>7. ASSUME NEW c, NEW d, NEW S, NEW u, NEW r, NEW v,
             \/ Happen(c) \/ Compose(c) \/ Publish(c) \/ Submit(u, r, c) \/ BeginVote(c, v)
             \/ Count(c) \/ Cast(c) \/ Fail(c) \/ Merge(c, d, S) \/ UNCHANGED vars
      PROVE  PressTyped'
  <2>1. UNCHANGED pressVars
    BY <1>7 DEF Happen, Compose, Publish, Submit, BeginVote, Count, Cast, Fail, Merge, vars
  <2> QED
    BY <2>1, Zenon DEF PressTyped, pressVars
<1> QED
    BY <1>2, <1>3, <1>4, <1>5, <1>6, <1>7 DEF Next

LEMMA NewsroomInit == Init => NewsTyped /\ BallotTyped /\ PressTyped
<1> SUFFICES ASSUME Init PROVE NewsTyped /\ BallotTyped /\ PressTyped
    OBVIOUS
<1>1. NewsTyped
    BY DEF Init, NewsTyped
<1>2. BallotTyped
    BY BallotIs DEF Init, BallotTyped
<1>3. PressTyped
  <2>1. Blank \in Printed
    <3>1. [u \in Readers |-> 0] \in [Readers -> Nat]
      OBVIOUS
    <3> QED
      BY <3>1, Zenon DEF Blank, Printed
  <2>2. NoDraft \in Draft
    BY DEF NoDraft, Draft
  <2>3. accounts = {} /\ bulletin = Blank /\ draft = NoDraft
    BY Zenon DEF Init
  <2>4. accounts \subseteq Readers
    BY <2>3
  <2> QED
    BY <2>1, <2>2, <2>3, <2>4, Zenon DEF PressTyped
<1> QED
    BY <1>1, <1>2, <1>3

\* The newsroom's state is well typed: an event has an id of the log's, a vote an expert and a
\* report, a report the type it is about or none, and a bulletin the parts that have a heading.
THEOREM RoomTypes == Spec => []TypeOK
<1>1. LogInv /\ VoteInv /\ NewsTyped /\ BallotTyped /\ PressTyped => TypeOK
  <2> SUFFICES ASSUME LogInv, VoteInv, NewsTyped, BallotTyped, PressTyped PROVE TypeOK
    OBVIOUS
  <2>1. log \in Seq(Event) /\ Len(log) <= MaxEvents
    BY LogTyped
  <2>2. report \in [Reports -> Report] /\ votes \subseteq Vote /\ errors \in [Reports -> Nat]
    BY Zenon DEF VoteInv
  <2> QED
    BY <2>1, <2>2, Zenon DEF NewsTyped, BallotTyped, PressTyped, Printed, Draft, TypeOK
<1> QED
    BY <1>1, NewsroomInit, NewsStep, BallotStep, PressStep, LogInvInit, LogInvStep, VoteInvInit,
       VoteInvStep, PTL DEF Spec
================================================================================
