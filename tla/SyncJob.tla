-------------------------------- MODULE SyncJob --------------------------------
(***************************************************************************)
(* One synchronisation job of the scheduler, through failures and crashes:  *)
(*   scheduler/jobs.py      the job lock, the sync_run row, its cursor       *)
(*   scheduler/service.py   when the job runs next                          *)
(*   api/routers/sync.py    the administrator's "run it now"                *)
(*   cli.py                 the same job started from a second process      *)
(* The body is the loop the resumable jobs share (run_ebay_market,          *)
(* run_numista_catalog, run_web_listings): for every unit not in the cursor,*)
(* commit what the source says, in one transaction or in several, then put  *)
(* the unit in the cursor and save it.                                      *)
(*                                                                         *)
(* Left out: what a unit is and in which order units come (any order here), *)
(* designs that went away, statistics, error texts.  Time is counted in     *)
(* ticks and only as far as it matters to a plan (Longest): STARTUP_DELAY   *)
(* and STAGGER are less than a tick.                                        *)
(***************************************************************************)
EXTENDS Naturals, Sequences, FiniteSets

CONSTANTS
    Units,      \* what a run works through: country/year/marketplace, issuer, design
    Parts,      \* transactions a unit is committed in: an issuer has one for each of its types
    Interval,   \* the job's cadence, in ticks
    Retry,      \* RETRY_DELAY, in ticks
    Scheduler,  \* the scheduler's own call of the job
    Manuals,    \* calls by POST /sync/{job} the server may hold at once (bound)
    Clis,       \* runs from the command line, each a process of its own
    MaxFaults,  \* bound on failures, refusals, crashes, skips and calls by hand
    NoUnit, Nobody

Servers == {Scheduler} \cup Manuals
Tasks == Servers \cup Clis

ASSUME SyncAssumption ==
    /\ Interval \in Nat /\ Retry \in Nat /\ MaxFaults \in Nat /\ Parts \in Nat \ {0}
    /\ IsFiniteSet(Units)
    /\ NoUnit \notin Units /\ Nobody \notin Tasks
    /\ Scheduler \notin Manuals /\ Servers \cap Clis = {}

VARIABLES
    up,       \* the server process runs
    wait,     \* ticks until the scheduler's next run
    pc,       \* per task: where it is, see TypeOK
    unit,     \* per task: the unit it fetched and has not yet put into the cursor
    part,     \* per task: the transactions of that unit it has committed, less than Parts
    cursor,   \* per task: the cursor dictionary in memory
    target,   \* per task that opens a run: whose run it found RUNNING and is to close
    missed,   \* per task that opens a run: who opened one since that transaction began
    queue,    \* the job lock: its holder, then the tasks that wait for it
    row,      \* per task: the last sync_run row it inserted
    latest,   \* the task whose row has the latest started_at
    finished, \* the status of the row with the latest finished_at, "none" without one
    age,      \* ticks since that finished_at
    faults,   \* failures, refusals, crashes, skips and calls by hand so far
    served,   \* units committed in full since the last success, by whichever runs
    begun,    \* units of which a transaction was committed since the last success
    repeats,  \* units begun again, counted as far as MaxFaults + 1
    losses,   \* processes lost and rows left open so far
    broken,   \* runs closed as FAILED between two transactions of one unit
    overlap,  \* processes got in each other's way: see LookUp and OpenRun
    crossed   \* the tasks whose run was opened while another process opened one

taskVars == <<pc, unit, part, cursor, target, missed>>
ageVars  == <<finished, age>>
audit    == <<served, begun, repeats, broken, overlap, crossed>>
vars == <<up, wait, taskVars, queue, row, latest, ageVars, faults, audit, losses>>

-----------------------------------------------------------------------------
Row == [status : {"none", "running", "succeeded", "failed"}, cursor : SUBSET Units]

Init ==
    /\ up = TRUE /\ wait = 0
    /\ pc = [t \in Tasks |-> "idle"]
    /\ unit = [t \in Tasks |-> NoUnit] /\ part = [t \in Tasks |-> 0]
    /\ cursor = [t \in Tasks |-> {}]
    /\ target = [t \in Tasks |-> Nobody] /\ missed = [t \in Tasks |-> {}]
    /\ queue = <<>>
    /\ row = [t \in Tasks |-> [status |-> "none", cursor |-> {}]]
    /\ latest = Nobody
    /\ finished = "none" /\ age = 0
    /\ faults = 0 /\ served = {} /\ begun = {} /\ repeats = 0 /\ losses = 0 /\ broken = 0
    /\ overlap = FALSE /\ crossed = {}

\* plan_next_run at boot, as the ticks to wait.
Left(delay, since) == IF since < delay THEN delay - since ELSE 0
\* Mutant of PlanNextRun: a restart forgets the last failure.
PlanFromSuccess == IF finished = "succeeded" THEN Left(Interval, age) ELSE 0
PlanNextRun ==
    CASE finished = "failed"    -> Left(Retry, age)
      [] finished = "succeeded" -> Left(Interval, age)
      [] finished = "none"      -> 0

\* plan_after_result.
PlanAfter(status) == IF status = "failed" THEN Retry ELSE Interval

\* The cadence may be shorter than the retry delay: any number of hours above zero is accepted.
Longest == IF Retry <= Interval THEN Interval ELSE Retry

Tick ==
    /\ wait' = IF wait > 0 THEN wait - 1 ELSE 0
    /\ age' = IF age < Longest THEN age + 1 ELSE age
    /\ UNCHANGED <<up, taskVars, queue, row, latest, finished, faults, audit, losses>>

-----------------------------------------------------------------------------
(* Who asks for a run.                                                      *)

\* The timer fires; max_instances=1 keeps it from firing on top of itself.
Fire ==
    /\ up /\ wait = 0 /\ pc[Scheduler] = "idle"
    /\ pc' = [pc EXCEPT ![Scheduler] = "queued"]
    /\ queue' = Append(queue, Scheduler)
    /\ UNCHANGED <<up, wait, unit, part, cursor, target, missed, row, latest, ageVars, faults,
                   audit, losses>>

\* The source has no key (_skipped), or reading the keys fails: no row.
Skip ==
    /\ up /\ wait = 0 /\ pc[Scheduler] = "idle"
    /\ faults < MaxFaults
    /\ wait' = Interval
    /\ faults' = faults + 1
    /\ UNCHANGED <<up, taskVars, queue, row, latest, ageVars, audit, losses>>

\* trigger_job answers 202 when is_running is false at that moment ...
Trigger(m) ==
    /\ up /\ pc[m] = "idle" /\ queue = <<>>
    /\ faults < MaxFaults
    /\ faults' = faults + 1
    /\ pc' = [pc EXCEPT ![m] = "checked"]
    /\ UNCHANGED <<up, wait, unit, part, cursor, target, missed, queue, row, latest, ageVars,
                   audit, losses>>

\* ... and its background task asks for the lock later.
Background(m) ==
    /\ pc[m] = "checked"
    /\ pc' = [pc EXCEPT ![m] = "queued"]
    /\ queue' = Append(queue, m)
    /\ UNCHANGED <<up, wait, unit, part, cursor, target, missed, row, latest, ageVars, faults,
                   audit, losses>>

\* A command-line run: its lock is in its own process.
RunCli(c) ==
    /\ pc[c] = "idle"
    /\ faults < MaxFaults
    /\ faults' = faults + 1
    /\ pc' = [pc EXCEPT ![c] = "queued"]
    /\ UNCHANGED <<up, wait, unit, part, cursor, target, missed, queue, row, latest, ageVars,
                   audit, losses>>

HoldsLock(t) == t \in Clis \/ (queue # <<>> /\ Head(queue) = t)

-----------------------------------------------------------------------------
(* A run.                                                                   *)

\* A run whose row was opened and is not yet closed by its own task.
InBody(t) == pc[t] \in {"running", "fetched", "committed", "refused"}
\* The first transaction of a run is on its way.
Opening(t) == pc[t] \in {"begun", "looked"}

\* _last_cursor: the cursor of the latest run unless that one succeeded.
Resumed(r) == IF r.status \in {"running", "failed"} THEN r.cursor ELSE {}

\* The latest run as the history shows it.
LatestRow == IF latest = Nobody THEN [status |-> "none", cursor |-> {}] ELSE row[latest]

\* _run_job_locked opens a run in one transaction.  It begins, which is what started_at of
\* the row it will insert says ...
Begin(t) ==
    /\ pc[t] = "queued" /\ HoldsLock(t)
    /\ pc' = [pc EXCEPT ![t] = "begun"]
    /\ UNCHANGED <<up, wait, unit, part, cursor, target, missed, queue, row, latest, ageVars,
                   faults, audit, losses>>

\* ... looks for the latest run that is committed, takes over the cursor of one that did not
\* succeed, and is to close one still marked RUNNING, alive in another process or not ...
LookUp(t) ==
    /\ pc[t] = "begun"
    /\ pc' = [pc EXCEPT ![t] = "looked"]
    /\ cursor' = [cursor EXCEPT ![t] = Resumed(LatestRow)]
    /\ target' = [target EXCEPT ![t] = IF LatestRow.status = "running" THEN latest ELSE Nobody]
    /\ overlap' = (overlap \/ (LatestRow.status = "running" /\ InBody(latest)))
    /\ UNCHANGED <<up, wait, unit, part, missed, queue, row, latest, ageVars, faults, losses,
                   served, begun, repeats, broken, crossed>>

\* Mutant of CloseOrphan: the run a crash left open stays open.
LeaveOrphan(last) == row
\* _last_cursor: the run found RUNNING is closed as FAILED, whatever it has become since.
CloseOrphan(last) == [row EXCEPT ![last].status = "failed"]

\* ... and commits that and its own row.  Whoever opened a run since this one began is not in
\* what it read, and may have begun before or after it; a row of theirs is not the one found.
OpenRun(t) ==
    LET late    == missed[t] # {}
        closing == target[t] # Nobody
        closed  == IF closing /\ target[t] \notin missed[t] THEN CloseOrphan(target[t]) ELSE row
    IN  /\ pc[t] = "looked"
        /\ pc' = [pc EXCEPT ![t] = "running"]
        /\ row' = [closed EXCEPT ![t] = [status |-> "running", cursor |-> cursor[t]]]
        /\ latest' \in {t} \cup (IF late THEN {latest} ELSE {})
        /\ IF closing THEN finished' = "failed" /\ age' = 0 ELSE UNCHANGED ageVars
        /\ target' = [target EXCEPT ![t] = Nobody]
        /\ missed' = [k \in Tasks |-> IF k = t THEN {}
                                       ELSE IF Opening(k) THEN missed[k] \cup {t} ELSE missed[k]]
        /\ overlap' = (overlap \/ late)
        /\ crossed' = (crossed \ {t}) \cup (IF late THEN missed[t] \cup {t} ELSE {})
        /\ UNCHANGED <<up, wait, unit, part, cursor, queue, faults, served, begun, repeats,
                       broken, losses>>

\* The next unit not in the cursor is asked of the source ...
Fetch(t, u) ==
    /\ pc[t] = "running" /\ u \notin cursor[t]
    /\ pc' = [pc EXCEPT ![t] = "fetched"]
    /\ unit' = [unit EXCEPT ![t] = u]
    /\ UNCHANGED <<up, wait, part, cursor, target, missed, queue, row, latest, ageVars, faults,
                   audit, losses>>

\* ... and what it brings is committed, in Parts transactions (the source is asked again
\* between them).
Commit(t) ==
    LET whole == part[t] + 1 = Parts
        again == part[t] = 0 /\ unit[t] \in begun /\ repeats <= MaxFaults
    IN  /\ pc[t] = "fetched"
        /\ pc' = [pc EXCEPT ![t] = IF whole THEN "committed" ELSE "fetched"]
        /\ part' = [part EXCEPT ![t] = IF whole THEN 0 ELSE part[t] + 1]
        /\ served' = IF whole THEN served \cup {unit[t]} ELSE served
        /\ begun' = begun \cup {unit[t]}
        /\ repeats' = IF again THEN repeats + 1 ELSE repeats
        /\ UNCHANGED <<up, wait, unit, cursor, target, missed, queue, row, latest, ageVars,
                       faults, losses, broken, overlap, crossed>>

\* Mutant of Done: the unit enters the cursor when it is asked for.
DoneEarly(t) == cursor[t] \cup ({unit[t]} \ {NoUnit})
\* The cursor in memory: a unit enters it after its commit.
Done(t) == cursor[t] \cup (IF pc[t] = "committed" THEN {unit[t]} ELSE {})

\* Mutant of Saved: the checkpoint writes the cursor as it was when the run began.
SavedNothing(t, done) == row[t]
\* checkpoint: the row gets the cursor in memory.
Saved(t, done) == [row[t] EXCEPT !.cursor = done]

Checkpointed(t, next) ==
    /\ pc[t] = "committed"
    /\ pc' = [pc EXCEPT ![t] = next]
    /\ cursor' = [cursor EXCEPT ![t] = Done(t)]
    /\ unit' = [unit EXCEPT ![t] = NoUnit]
    /\ row' = [row EXCEPT ![t] = Saved(t, Done(t))]
    /\ UNCHANGED <<up, wait, part, target, missed, queue, latest, ageVars, audit, losses>>

Checkpoint(t) == Checkpointed(t, "running") /\ UNCHANGED faults

\* run_web_listings: the search engine refused, so this is enough for today.
StopForToday(t) ==
    /\ faults < MaxFaults
    /\ faults' = faults + 1
    /\ Checkpointed(t, "refused")

\* Mutant of Released: the lock is not given back.
StillHeld(t) == queue
\* Leaving the lock, which a task of the server holds as long as it runs: the next one of the
\* queue holds it.
Released(t) == IF t \in Servers THEN Tail(queue) ELSE queue

\* The task returns: the lock goes to the next one; the scheduler plans the next run.
Return(t, left) ==
    /\ pc' = [pc EXCEPT ![t] = "idle"]
    /\ unit' = [unit EXCEPT ![t] = NoUnit] /\ part' = [part EXCEPT ![t] = 0]
    /\ cursor' = [cursor EXCEPT ![t] = {}]
    /\ target' = [target EXCEPT ![t] = Nobody] /\ missed' = [missed EXCEPT ![t] = {}]
    /\ queue' = Released(t)
    /\ wait' = IF t = Scheduler THEN left ELSE wait

\* The loop over the units is through.
Complete(t) == cursor[t] = Units

\* A run that succeeds drops its cursor, be it through or refused.
Succeed(t) ==
    /\ (pc[t] = "running" /\ Complete(t)) \/ pc[t] = "refused"
    /\ row' = [row EXCEPT ![t] = [status |-> "succeeded", cursor |-> {}]]
    /\ finished' = "succeeded" /\ age' = 0
    /\ served' = {} /\ begun' = {}
    /\ Return(t, PlanAfter("succeeded"))
    /\ UNCHANGED <<up, latest, faults, repeats, losses, broken, overlap, crossed>>

\* The source pauses, or the body raises anywhere, perhaps between two transactions of a
\* unit: the run is closed as FAILED and keeps the cursor in memory "so the next run resumes".
FailRun(t) ==
    /\ InBody(t) /\ pc[t] # "refused"
    /\ faults < MaxFaults
    /\ faults' = faults + 1
    /\ broken' = IF part[t] > 0 THEN broken + 1 ELSE broken
    /\ row' = [row EXCEPT ![t] = [status |-> "failed", cursor |-> Done(t)]]
    /\ finished' = "failed" /\ age' = 0
    /\ Return(t, PlanAfter("failed"))
    /\ UNCHANGED <<up, latest, served, begun, repeats, overlap, crossed, losses>>

\* An exception outside the run's own try leaves the next run to the interval trigger, which
\* had planned it when this one began: the first transaction fails and there is no row ...
FailOpening(t) ==
    /\ Opening(t)
    /\ faults < MaxFaults
    /\ faults' = faults + 1
    /\ \E left \in 0..Interval : Return(t, left)
    /\ UNCHANGED <<up, row, latest, ageVars, audit, losses>>

\* ... or the database goes away, the closing transaction fails too, and the row stays RUNNING.
LoseRun(t) ==
    /\ InBody(t)
    /\ faults < MaxFaults
    /\ faults' = faults + 1 /\ losses' = losses + 1
    /\ \E left \in 0..Interval : Return(t, left)
    /\ UNCHANGED <<up, row, latest, ageVars, audit>>

\* The server process ends wherever it is.
Crash ==
    /\ up /\ faults < MaxFaults
    /\ up' = FALSE
    /\ faults' = faults + 1 /\ losses' = losses + 1
    /\ pc' = [t \in Tasks |-> IF t \in Servers THEN "idle" ELSE pc[t]]
    /\ unit' = [t \in Tasks |-> IF t \in Servers THEN NoUnit ELSE unit[t]]
    /\ part' = [t \in Tasks |-> IF t \in Servers THEN 0 ELSE part[t]]
    /\ cursor' = [t \in Tasks |-> IF t \in Servers THEN {} ELSE cursor[t]]
    /\ target' = [t \in Tasks |-> IF t \in Servers THEN Nobody ELSE target[t]]
    /\ missed' = [t \in Tasks |-> IF t \in Servers THEN {} ELSE missed[t]]
    /\ queue' = <<>>
    /\ wait' = 0
    /\ UNCHANGED <<row, latest, ageVars, audit>>

\* build_scheduler.
Restart ==
    /\ ~up
    /\ up' = TRUE
    /\ wait' = PlanNextRun
    /\ UNCHANGED <<taskVars, queue, row, latest, ageVars, faults, audit, losses>>

Next ==
    \/ Tick \/ Fire \/ Skip \/ Crash \/ Restart
    \/ \E m \in Manuals : Trigger(m) \/ Background(m)
    \/ \E c \in Clis : RunCli(c)
    \/ \E t \in Tasks :
          \/ Begin(t) \/ LookUp(t) \/ OpenRun(t) \/ FailOpening(t)
          \/ Commit(t) \/ Checkpoint(t) \/ StopForToday(t)
          \/ Succeed(t) \/ FailRun(t) \/ LoseRun(t)
          \/ \E u \in Units : Fetch(t, u)

Spec == Init /\ [][Next]_vars

\* The clock runs, the event loop serves every task, and an operator or the service
\* manager brings the server back.  Faults are finitely many, sources come back; so are calls
\* by hand, to keep the instances small.
Progress(t) ==
    \/ Background(t) \/ Begin(t) \/ LookUp(t) \/ OpenRun(t)
    \/ Commit(t) \/ Checkpoint(t) \/ Succeed(t)
    \/ \E u \in Units : Fetch(t, u)
Fairness ==
    /\ WF_vars(Tick) /\ WF_vars(Fire) /\ WF_vars(Restart)
    /\ \A t \in Tasks : WF_vars(Progress(t))
FairSpec == Spec /\ Fairness

-----------------------------------------------------------------------------
(* Properties.                                                              *)

TypeOK ==
    /\ up \in BOOLEAN /\ wait \in 0..Longest
    /\ pc \in [Tasks -> {"idle", "checked", "queued", "begun", "looked", "running", "fetched",
                          "committed", "refused"}]
    /\ unit \in [Tasks -> Units \cup {NoUnit}] /\ part \in [Tasks -> 0..(Parts - 1)]
    /\ cursor \in [Tasks -> SUBSET Units]
    /\ target \in [Tasks -> Tasks \cup {Nobody}] /\ missed \in [Tasks -> SUBSET Tasks]
    /\ queue \in Seq(Servers)
    /\ row \in [Tasks -> Row] /\ latest \in Tasks \cup {Nobody}
    /\ finished \in {"none", "succeeded", "failed"} /\ age \in 0..Longest
    /\ faults \in 0..MaxFaults /\ served \subseteq Units /\ begun \subseteq Units
    /\ repeats \in 0..(MaxFaults + 1) /\ losses \in 0..MaxFaults /\ broken \in 0..MaxFaults
    /\ overlap \in BOOLEAN /\ crossed \subseteq Tasks

\* The history shows one unfinished run, the latest: _run_job_locked always closes a run and
\* _last_cursor closes what a crash left.  Only where two processes opened a run across each
\* other, neither seeing the other's row, do both stay open, and nobody else's.
OneOpenRun == \A t \in Tasks : row[t].status = "running" => t = latest \/ t \in crossed

(* A second process, started from the command line, closes a run of the server that is  *)
(* alive as if a crash had left it ("cannot be alive (we hold the job lock)"), or opens  *)
(* one across the server's: the next three say what holds as long as neither happened.    *)

\* No unit is skipped by mistake: what the next run would resume from holds only units
\* committed in full since the last success, through failures, crashes and lost rows.
CursorHonest ==
    ~overlap /\ latest # Nobody => Resumed(row[latest]) \subseteq served

\* A source is asked twice for the same unit in a cycle only after a break within that unit:
\* a process or a closing transaction was lost before its checkpoint, or a run failed between
\* two of its transactions.  One break costs one unit, never the work before it.
RepeatsNeedBreak == ~overlap => repeats <= losses + broken

\* A source on which the scheduler's run failed, with no run after it, is left alone for
\* the retry delay, restarts of the server included.
RetryRespected ==
    [][Fire /\ ~overlap /\ latest = Scheduler /\ row[latest].status = "failed"
          => age >= Retry]_vars

\* Every unit is synchronised again and again: cycle after cycle gets through all of them.
AlwaysServed == []<>(served = Units)
================================================================================
