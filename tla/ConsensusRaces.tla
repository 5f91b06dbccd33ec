----------------------------- MODULE ConsensusRaces -----------------------------
(***************************************************************************)
(* The transactions of Consensus when they overlap.  run_ecb_discover,     *)
(* run_numista_catalog and run_reconcile hold different job locks; each    *)
(* works in a session of its own, READ COMMITTED, over many coins before it *)
(* commits.  For one coin a session loads the type, later reads the claims  *)
(* and decides its writes, and later still commits them.                    *)
(*                                                                         *)
(* A row that two sessions write is locked by the first until it commits;   *)
(* that orders their commits and changes neither session's decision, which  *)
(* was made on what it read before.  Here commits come in any order.        *)
(***************************************************************************)
EXTENDS Consensus

CONSTANTS
    Reconciler,     \* the reconcile job
    MaxAborts,      \* bound on sessions that roll back
    Idle

Jobs == Sources \cup {Reconciler}

ASSUME RacesAssumption ==
    Reconciler \notin Sources /\ MaxAborts \in Nat

VARIABLES
    session,    \* per job: nothing, the type it loaded, or the writes it decided and
                \* whether it had a value to report
    alone,      \* per job: no other session was open since this one opened
    aborts

raceVars == <<vars, session, alone, aborts>>

RaceInit ==
    /\ Init
    /\ session = [j \in Jobs |-> Idle]
    /\ alone = [j \in Jobs |-> FALSE]
    /\ aborts = 0

-----------------------------------------------------------------------------
In(j, phase) == session[j] # Idle /\ session[j].phase = phase

Opened(j, t, drop) ==
    /\ session[j] = Idle
    /\ session' = [session EXCEPT ![j] = [phase |-> "loaded", type |-> t, drop |-> drop,
                                          loaded |-> column[t]]]
    /\ alone' = [k \in Jobs |-> k = j /\ \A i \in Jobs \ {j} : session[i] = Idle]
    /\ UNCHANGED <<vars, aborts>>

\* The source's job comes to the coin and loads its type; a new id is nobody else's.
Open(s, t) ==
    /\ Describes(s, t)
    /\ Unborn(t) => t \notin {session[j].type : j \in {i \in Jobs : session[i] # Idle}}
    /\ Opened(s, t, NoType)

OpenMerge(keep, drop) == MayMerge(keep, drop) /\ Opened(Reconciler, keep, drop)

Decided(j, w, resolves) ==
    /\ session' = [session EXCEPT ![j] = [phase |-> "decided", type |-> w.type,
                                          drop |-> w.drop, writes |-> w,
                                          resolves |-> resolves]]
    /\ Clocked(w)
    /\ UNCHANGED <<known, claims, winners, column, revised, alone, aborts>>

\* The source has a value for the field ...
Speak(s, v) ==
    LET x == session[s]
    IN  /\ In(s, "loaded")
        /\ Recorded(x.type, s, v) # {} => now < MaxClaims
        /\ \E w \in SourceWrites(s, x.type, v, x.loaded) : Decided(s, w, TRUE)

\* ... or none.
Pass(s) == In(s, "loaded") /\ Decided(s, Written(s, session[s].type, {}, NoWrites), FALSE)

DecideMerge ==
    LET x == session[Reconciler]
    IN  /\ In(Reconciler, "loaded")
        /\ \E w \in MergeWrites(x.type, x.drop, x.loaded) : Decided(Reconciler, w, TRUE)

\* The type's row was there when the session loaded it and is deleted by now: an UPDATE of
\* it matches no row, which the session takes for an error.
Refused(w) == ~w.attach /\ ~Alive(w.type) /\ w.field.value # NoValue

Close(j) ==
    /\ session' = [session EXCEPT ![j] = Idle]
    /\ alone' = [alone EXCEPT ![j] = FALSE]

Commit(j) ==
    /\ In(j, "decided") /\ ~Refused(session[j].writes)
    /\ Apply(session[j].writes)
    /\ Close(j)
    /\ UNCHANGED <<now, aborts>>

\* The refused session rolls back.
Refuse(j) ==
    /\ In(j, "decided") /\ Refused(session[j].writes)
    /\ Close(j)
    /\ UNCHANGED <<vars, aborts>>

\* A source, the database or the process fails: the run rolls back and ends.
Abort(j) ==
    /\ session[j] # Idle
    /\ aborts < MaxAborts
    /\ aborts' = aborts + 1
    /\ Close(j)
    /\ UNCHANGED vars

RaceNext ==
    \/ \E s \in Sources : \/ \E t \in Types : Open(s, t)
                          \/ \E v \in Values : Speak(s, v)
                          \/ Pass(s)
    \/ \E keep, drop \in Types : OpenMerge(keep, drop)
    \/ DecideMerge
    \/ \E j \in Jobs : Commit(j) \/ Refuse(j) \/ Abort(j)

RaceSpec == RaceInit /\ [][RaceNext]_raceVars

\* The scheduler runs both sources' jobs again and again, Numista's ends with a
\* reconciliation, a run goes on to its commit, and a source that lists the coin does not stop
\* reporting the figure for good.
Advance(j) ==
    \/ \E t \in Types : j \in Sources /\ Open(j, t)
    \/ j = Reconciler /\ (DecideMerge \/ \E keep, drop \in Types : OpenMerge(keep, drop))
    \/ Commit(j) \/ Refuse(j)
Fairness ==
    /\ \A j \in Jobs : WF_raceVars(Advance(j))
    /\ \A s \in Sources : SF_raceVars(\E v \in Values : Speak(s, v))
FairSpec == RaceSpec /\ Fairness

-----------------------------------------------------------------------------
(* Properties.                                                              *)

\* Every type of the coin that is in the catalogue is resolved.
CatalogueResolved == \A t \in Types : Alive(t) => Resolved(t)

\* A run repairs what overlapping runs left: one that had the coin to itself and a value to
\* report, new or not, leaves its type with one flagged claim, the leading one, in the
\* column.  (The ingestions call resolve_field whether or not a claim was recorded.)
AloneRepairs ==
    [][\A s \in Sources, t \in Types :
          /\ alone[s] /\ In(s, "decided") /\ aborts' = aborts /\ session'[s] = Idle
          /\ session[s].type = t /\ session[s].resolves
          => Resolved(t)']_raceVars

\* Once the sources stop changing their mind the catalogue settles on the right answer.
Settles == <>[]CatalogueResolved
=================================================================================
