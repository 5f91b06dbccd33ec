------------------------------- MODULE Consensus -------------------------------
(***************************************************************************)
(* What the catalogue knows about one field (mintage_total) of one coin,    *)
(* which the ECB and Numista both describe:                                 *)
(*   catalog/claims.py        record_claim and resolve_field                *)
(*   consensus/resolver.py    normalize and resolve                         *)
(*   catalog/ingest_ecb.py, ingest_numista.py    the type a source finds,   *)
(*                            creates or attaches to, and its claims         *)
(*   catalog/reconcile.py     merge_types, when the coin got two types       *)
(* Every action is one committed transaction; in ConsensusRaces they overlap.*)
(*                                                                         *)
(* A transaction is a record of the writes it makes: the sessions flush only *)
(* attributes whose value changed from the value read.  Left out: the other *)
(* fields, which are resolved alike and apart, texts, images, issues, the    *)
(* score by which Numista's coin is recognised (either outcome is possible). *)
(***************************************************************************)
EXTENDS Naturals

CONSTANTS
    Types,          \* ids a coin_type row of the coin may get
    Ecb, Numista,   \* the two sources that make claims
    Rank,           \* source.authority_rank
    Values,         \* the values a source may report, as written
    Norm(_),        \* resolver.normalize for the field
    MaxClaims,      \* bound on the claims ever recorded
    NoType, NoValue

Sources == {Ecb, Numista}

ASSUME ConsensusAssumption ==
    /\ Ecb # Numista
    /\ Rank \in [Sources -> Nat]
    /\ MaxClaims \in Nat
    /\ NoType \notin Types /\ NoValue \notin Values

\* seed.py gives the ECB 100 and Numista 50.
ASSUME RankAssumption == Rank[Numista] < Rank[Ecb]

VARIABLES
    known,      \* per source: the type that carries its reference (ecb_ref, numista_type_id)
    claims,     \* fact_claim rows of the field; their observed_at tells them apart
    winners,    \* observed_at of the rows flagged is_winner
    column,     \* coin_type.mintage_total
    revised,    \* the latest fact_revised events of a type, as <<previous, current>>
    now         \* the clock, which moves when a claim is recorded

vars == <<known, claims, winners, column, revised, now>>

-----------------------------------------------------------------------------
Claim == [type : Types, source : Sources, value : Values, at : Nat]

Rows(t) == {c \in claims : c.type = t}
Alive(t) == \E s \in Sources : known[s] = t
\* No row and no claim uses the id.
Unborn(t) == ~Alive(t) /\ Rows(t) = {} /\ column[t] = NoValue

Init ==
    /\ known = [s \in Sources |-> NoType]
    /\ claims = {}
    /\ winners = {}
    /\ column = [t \in Types |-> NoValue]
    /\ revised = [t \in Types |-> {}]
    /\ now = 0

(* The resolver.                                                            *)

\* _precedence: authority first, then the time of observation.
Outranks(c, d) == \/ Rank[d.source] < Rank[c.source]
                  \/ Rank[d.source] = Rank[c.source] /\ d.at <= c.at

IsBest(c, rows) == c \in rows /\ \A d \in rows : Outranks(c, d)
\* resolve: the first claim by precedence.
Best(rows) == CHOOSE c \in rows : IsBest(c, rows)

\* Mutant of Asserted: any earlier claim of the source will do, not only its latest.
AssertedEver(rows, s, v) == \E c \in rows : c.source = s /\ Norm(c.value) = Norm(v)
\* record_claim: the source's latest claim already has this value.
Asserted(rows, s, v) ==
    \E c \in rows : /\ c.source = s
                    /\ \A d \in rows : d.source = s => d.at <= c.at
                    /\ Norm(c.value) = Norm(v)

\* The row record_claim adds, if any.
Recorded(t, s, v) ==
    IF Asserted(Rows(t), s, v) THEN {}
    ELSE {[type |-> t, source |-> s, value |-> v, at |-> now]}

\* The flags resolve_field takes back.
Unflagged(rows, best) == {c.at : c \in rows \ {best}} \cap winners

\* Mutant of Revision: only another source revises.
RevisionByOther(p, best) == IF p.source # best.source THEN {<<p.value, best.value>>} ELSE {}
\* The event for a winner that takes over from p, if the normalised value differs.
Revision(p, best) ==
    IF Norm(p.value) # Norm(best.value) THEN {<<p.value, best.value>>} ELSE {}

-----------------------------------------------------------------------------
(* A transaction's writes.                                                  *)

\* resolve_field on the rows read: the flags, the column of a target loaded with the
\* value `loaded`, and the event.  With two flagged rows (after a merge) the database's
\* order decides which one is the previous winner.
FieldWrites(t, rows, loaded) ==
    LET best    == Best(rows)
        flagged == {c \in rows : c.at \in winners}
    IN  {[flag |-> {best.at} \ winners,
          unflag |-> Unflagged(rows, best),
          value |-> IF best.value = loaded THEN NoValue ELSE best.value,
          event |-> e] :
            e \in IF flagged = {} THEN {{}} ELSE {Revision(p, best) : p \in flagged}}

NoWrites == [flag |-> {}, unflag |-> {}, value |-> NoValue, event |-> {}]

\* What a source's transaction adds: the reference of the type, a claim, the resolution.
Written(s, t, add, f) ==
    [source |-> s, type |-> t, attach |-> known[s] # t, drop |-> NoType, add |-> add,
     move |-> {}, field |-> f]

\* Mutant of SourceWrites: the field is resolved only when a claim was recorded.
SourceWritesIfNew(s, t, v, loaded) ==
    LET new == Recorded(t, s, v)
    IN  IF new = {} THEN {Written(s, t, {}, NoWrites)}
        ELSE {Written(s, t, new, f) : f \in FieldWrites(t, Rows(t) \cup new, loaded)}
\* One source describes the coin, with the value v: record_claim, then resolve_field.
SourceWrites(s, t, v, loaded) ==
    LET new == Recorded(t, s, v)
    IN  {Written(s, t, new, f) : f \in FieldWrites(t, Rows(t) \cup new, loaded)}

\* merge_types moves everything of drop to keep ...
MergedWith(keep, drop, f) ==
    [source |-> Numista, type |-> keep, attach |-> TRUE, drop |-> drop, add |-> {},
     move |-> Rows(drop), field |-> f]

\* Mutant of MergeWrites: the fields are not resolved again after the move.
MergeMovesOnly(keep, drop, loaded) == {MergedWith(keep, drop, NoWrites)}
\* ... and resolves the fields again.
MergeWrites(keep, drop, loaded) ==
    LET rows == Rows(keep) \cup Rows(drop)
    IN  {MergedWith(keep, drop, f) :
            f \in IF rows = {} THEN {NoWrites} ELSE FieldWrites(keep, rows, loaded)}

Moved(c, w) == IF c \in w.move THEN [c EXCEPT !.type = w.type] ELSE c

\* The writes reach the tables.  Events follow the claims of a merged type.
Apply(w) ==
    LET f == w.field
        earlier == IF w.drop = NoType THEN revised[w.type]
                   ELSE revised[w.type] \cup revised[w.drop]
    IN  /\ known' = [s \in Sources |-> IF s = w.source /\ w.attach THEN w.type ELSE known[s]]
        /\ claims' = {Moved(c, w) : c \in claims} \cup w.add
        /\ winners' = (winners \ f.unflag) \cup f.flag
        /\ column' = [t \in Types |-> IF t = w.drop THEN NoValue
                                      ELSE IF t = w.type /\ f.value # NoValue THEN f.value
                                      ELSE column[t]]
        /\ revised' = [t \in Types |-> IF t = w.drop THEN {}
                                       ELSE IF t # w.type THEN revised[t]
                                       ELSE IF f.event # {} THEN f.event ELSE earlier]

\* A claim takes the time at which it is recorded.
Clocked(w) == now' = IF w.add = {} THEN now ELSE now + 1

\* The type a source describes: the one with its reference, or a new one; Numista may
\* also recognise the ECB's (_attach_or_create).
Describes(s, t) ==
    \/ known[s] = t
    \/ known[s] = NoType /\ Unborn(t)
    \/ known[s] = NoType /\ s = Numista /\ known[Ecb] = t

-----------------------------------------------------------------------------
\* run_ecb_discover or run_numista_catalog comes to the coin.
Ingest(s, t, v) ==
    /\ Describes(s, t)
    /\ Recorded(t, s, v) # {} => now < MaxClaims
    /\ \E w \in SourceWrites(s, t, v, column[t]) : Apply(w) /\ Clocked(w)

\* ... and the source says nothing of this field.
IngestWithout(s, t) ==
    /\ Describes(s, t)
    /\ Apply(Written(s, t, {}, NoWrites))
    /\ UNCHANGED now

MayMerge(keep, drop) ==
    known[Ecb] = keep /\ known[Numista] = drop /\ keep # drop

\* link_by_elimination pairs the two types.
Merge(keep, drop) ==
    /\ MayMerge(keep, drop)
    /\ \E w \in MergeWrites(keep, drop, column[keep]) : Apply(w)
    /\ UNCHANGED now

Next ==
    \/ \E s \in Sources, t \in Types : \/ \E v \in Values : Ingest(s, t, v)
                                       \/ IngestWithout(s, t)
    \/ \E keep, drop \in Types : Merge(keep, drop)

Spec == Init /\ [][Next]_vars

-----------------------------------------------------------------------------
(* Properties.                                                              *)

TypeOK ==
    /\ known \in [Sources -> Types \cup {NoType}]
    /\ claims \subseteq Claim
    /\ winners \subseteq Nat
    /\ column \in [Types -> Values \cup {NoValue}]
    /\ revised \in [Types -> SUBSET (Values \X Values)]
    /\ now \in Nat

\* c has the highest authority among the claims on its type and, of its source's, is the
\* latest.
Leads(c) ==
    \A d \in claims : d.type = c.type =>
        Rank[d.source] < Rank[c.source] \/ (Rank[d.source] = Rank[c.source] /\ d.at <= c.at)

\* The catalogue shows one answer, and the right one: of the claims on a type the leading
\* one is flagged, no other is, and the column holds its value.  (resolve_field after
\* every claim, and after a merge brought two flagged claims together.)
Resolved(t) ==
    /\ \A c \in Rows(t) : c.at \in winners <=> Leads(c)
    /\ \A c \in Rows(t) : Leads(c) => column[t] = c.value
AuthorityWins == \A t \in Types : Resolved(t)

\* No silent revision: when the value of a type changes beyond the way it is written, an
\* event tells from what to what.
RevisionTold ==
    [][\A t \in Types :
          /\ column[t] # NoValue /\ \E s \in Sources : known'[s] = t
          /\ Norm(column'[t]) # Norm(column[t])
          => \E e \in revised'[t] : Norm(e[1]) = Norm(column[t]) /\ e[2] = column'[t]]_vars
================================================================================
