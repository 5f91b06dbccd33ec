-------------------------------- MODULE Variants --------------------------------
(***************************************************************************)
(* The variants (coin_issue rows) of one coin and what hangs off them:     *)
(*   catalog/issues.py           placeholders, made and dropped            *)
(*   catalog/ingest_ecb.py       the ECB's type and its placeholder        *)
(*   catalog/ingest_numista.py   Numista's issues, adopted or inserted     *)
(*   catalog/reconcile.py        merge_types of the two types of the coin  *)
(* run_numista_catalog and run_reconcile hold different job locks; market *)
(* observations and collectors' pieces arrive at any time: a session reads *)
(* and decides its writes in one step and commits them in a later one.     *)
(*                                                                         *)
(* A variant is year, mint mark, finish and packaging.  Left out: the      *)
(* fields of the type (see Consensus), images, texts, editions; price rows *)
(* and alerts, which go with their variant, and followed coins, which go   *)
(* with a type that is merged away.                                        *)
(***************************************************************************)
EXTENDS Naturals, Sequences, FiniteSets, SequencesExt

CONSTANTS
    Variants,
    Plain,          \* no mint mark, circulation finish, loose
    Placeholders,   \* what ensure_placeholder_issue makes, in its order: Plain, or the German mints
    NumistaIssues,  \* Numista's ids of the coin's issues
    VariantOf,      \* the variant each of them says it is
    Answers,        \* lists of issues Numista may answer with; it describes all in the last
    MaxRows,        \* bound on the coin_issue rows ever inserted
    Observations, Pieces,
    MaxFaults,      \* bound on sessions that roll back for a reason of their own
    NoVariant, NoIssue, NoRow, Idle

Rows == 1..MaxRows
Jobs == {"numista", "reconcile"}

ASSUME VariantsAssumption ==
    /\ Plain \in Variants /\ Placeholders \in Seq(Variants) /\ Placeholders # <<>>
    /\ \A i, k \in DOMAIN Placeholders : i # k => Placeholders[i] # Placeholders[k]
    /\ VariantOf \in [NumistaIssues -> Variants]
    /\ Answers \in Seq(Seq(NumistaIssues)) /\ Answers # <<>>
    /\ MaxRows \in Nat /\ MaxFaults \in Nat
    /\ NoVariant \notin Variants /\ NoIssue \notin NumistaIssues /\ NoRow \notin Rows

VARIABLES
    official,   \* the type with the ECB's reference is there
    numista,    \* the type with Numista's id: none, one of its own, or the official one
    row,        \* coin_issue rows
    hangs,      \* market_observation.issue_id, NoRow before the observation is recorded
    lost,       \* observations deleted by a cascade
    piece,      \* collection_item.issue_id, NoRow when there is no such piece
    session,    \* per job: what it read and the writes it decided
    alone,      \* per job: nothing was committed since it read
    late,       \* observations recorded while a session was open
    faults

jobVars == <<session, alone, faults>>
vars == <<official, numista, row, hangs, lost, piece, late, jobVars>>

-----------------------------------------------------------------------------
RowType == {"unused", "official", "own", "gone"}
Row == [type : RowType, variant : Variants \cup {NoVariant}, issue : NumistaIssues \cup {NoIssue}]

NotARow(state) == [type |-> state, variant |-> NoVariant, issue |-> NoIssue]

\* The rows of a type in a table; the ones no source but the ECB knows of.
Of(table, t) == {r \in Rows : table[r].type = t}
Unnamed(table, t) == {r \in Of(table, t) : table[r].issue = NoIssue}

Init ==
    /\ official = FALSE /\ numista = "none"
    /\ row = [r \in Rows |-> NotARow("unused")]
    /\ hangs = [o \in Observations |-> NoRow] /\ lost = {}
    /\ piece = [p \in Pieces |-> NoRow]
    /\ session = [j \in Jobs |-> Idle] /\ alone = [j \in Jobs |-> FALSE]
    /\ late = {} /\ faults = 0

\* The id an inserted row gets: one nobody took, committed or in an open session.
Free(table) ==
    {r \in Rows : /\ table[r].type = "unused" /\ row[r].type = "unused"
                  /\ \A j \in Jobs : session[j] # Idle => session[j].after[r].type = "unused"}
Inserted(table, t, v, n) ==
    [table EXCEPT ![Min(Free(table))] = [type |-> t, variant |-> v, issue |-> n]]

Committed == alone' = [j \in Jobs |-> FALSE]

(* Markets and collectors.                                                 *)

\* A market job matched a listing to the variant, or a collector reported a purchase.
Observe(o, r) ==
    /\ hangs[o] = NoRow /\ o \notin lost
    /\ row[r].type \in {"official", "own"}
    /\ hangs' = [hangs EXCEPT ![o] = r]
    /\ late' = IF \A j \in Jobs : session[j] = Idle THEN late ELSE late \cup {o}
    /\ Committed
    /\ UNCHANGED <<official, numista, row, lost, piece, session, faults>>

\* add_item; the price stays private, so no observation comes with it.
Collect(p, r) ==
    /\ piece[p] = NoRow
    /\ row[r].type \in {"official", "own"}
    /\ piece' = [piece EXCEPT ![p] = r]
    /\ Committed
    /\ UNCHANGED <<official, numista, row, hangs, lost, late, session, faults>>

-----------------------------------------------------------------------------
(* The ECB.                                                                *)

\* ensure_placeholder_issue: a type without a row gets its placeholders.
EnsurePlaceholder(table) ==
    IF Of(table, "official") # {} THEN table
    ELSE LET A[i \in 0..Len(Placeholders)] ==
                 IF i = 0 THEN table
                 ELSE Inserted(A[i - 1], "official", Placeholders[i], NoIssue)
         IN  A[Len(Placeholders)]

\* ingest_ecb_entries comes to the coin.
IngestEcb ==
    /\ ~official \/ Of(row, "official") = {}
    /\ Cardinality(Free(row)) >= Len(Placeholders)
    /\ official' = TRUE
    /\ row' = EnsurePlaceholder(row)
    /\ Committed
    /\ UNCHANGED <<numista, hangs, lost, piece, late, session, faults>>

-----------------------------------------------------------------------------
(* What a session decides.                                                 *)

\* _upsert_issue: the row with Numista's id, wherever it is, else the type's row of the same
\* variant, which takes the id, else a new one.
Upserted(table, t, n) ==
    LET same == {r \in Of(table, t) : table[r].variant = VariantOf[n]}
    IN  IF \E r \in Rows : table[r].issue = n THEN table
        ELSE IF same # {} THEN [table EXCEPT ![CHOOSE r \in same : TRUE].issue = n]
        ELSE Inserted(table, t, VariantOf[n], n)

\* The issues of an answer, one after the other.
UpsertedAll(t, listed) ==
    LET A[i \in 0..Len(listed)] ==
            IF i = 0 THEN row ELSE Upserted(A[i - 1], t, listed[i])
    IN  A[Len(listed)]

\* drop_unreferenced_placeholders, where `on` says what observations hang off.
DropUnreferenced(table, t, on) ==
    [r \in Rows |-> IF /\ Of(table, t) # Unnamed(table, t)
                       /\ r \in Unnamed(table, t) /\ table[r].variant = Plain
                       /\ \A o \in Observations : on[o] # r
                    THEN NotARow("gone") ELSE table[r]]

\* Mutant of Twins: any issue of Numista's will do.
AnyTwin(p) == Of(row, "own")
\* _retire_colliding_placeholders: the incoming issue of the same variant as placeholder p.
Twins(p) == {r \in Of(row, "own") : row[r].variant = row[p].variant}

\* Mutant of Retired: a placeholder is left where the incoming issue is to come.
RetiredNone == {}
\* The placeholders that would collide.
Retired == {p \in Unnamed(row, "official") : Twins(p) # {}}

\* Mutant of HandedOver: the observations stay where they are.
HandedNothing == hangs
\* The observations of a retired placeholder go to its twin.
HandedOver ==
    [o \in Observations |-> IF hangs[o] \in Retired THEN CHOOSE r \in Twins(hangs[o]) : TRUE
                                                    ELSE hangs[o]]

\* A session's writes: the rows that differ between before and after, the observations that
\* hang elsewhere, the type that carries Numista's id (names), a type merged away.
Decided(j, t, table, on, merges) ==
    /\ session[j] = Idle
    /\ session' = [session EXCEPT ![j] =
                      [type |-> t, names |-> numista # t, merges |-> merges,
                       before |-> row, after |-> table, from |-> hangs, to |-> on]]
    /\ alone' = [alone EXCEPT ![j] = TRUE]
    /\ UNCHANGED <<official, numista, row, hangs, lost, piece, late, faults>>

\* The type ingest_numista_type works on: the one with Numista's id, else the ECB's if the
\* titles match (_attach_or_create), else a new one.
Describes(t) == \/ numista # "none" /\ t = numista
                \/ numista = "none" /\ t = "own"
                \/ numista = "none" /\ t = "official" /\ official

\* ingest_numista_type with the issues Numista lists.
IngestNumista(t, listed) ==
    /\ Describes(t)
    /\ Cardinality(Free(row)) >= Len(listed)
    /\ Decided("numista", t, IF listed = <<>> THEN row
                             ELSE DropUnreferenced(UpsertedAll(t, listed), t, hangs), hangs, FALSE)

\* merge_types, for link_by_elimination, which both jobs call.
Merge(j) ==
    LET moved == [r \in Rows |-> IF r \in Retired THEN NotARow("gone")
                                 ELSE IF row[r].type = "own" THEN [row[r] EXCEPT !.type = "official"]
                                 ELSE row[r]]
    IN  /\ official /\ numista = "own"
        /\ Decided(j, "official", DropUnreferenced(moved, "official", HandedOver),
                   HandedOver, TRUE)

-----------------------------------------------------------------------------
(* Its commit.                                                             *)

\* A row with the attributes the session changed.
Written(now, old, new) ==
    [type    |-> IF new.type # old.type THEN new.type ELSE now.type,
     variant |-> IF new.variant # old.variant THEN new.variant ELSE now.variant,
     issue   |-> IF new.issue # old.issue THEN new.issue ELSE now.issue]

\* The deletion of a type takes the rows along that are (still) its own.
Cascades(x, written) == x.merges /\ written.type = "own"

\* The table once the session's writes are in it.
After(x) ==
    [r \in Rows |->
        LET written == Written(row[r], x.before[r], x.after[r])
        IN  IF "gone" \in {row[r].type, written.type} \/ Cascades(x, written)
            THEN NotARow("gone") ELSE written]

Dropped(table) == {r \in Rows : table[r].type = "gone"}

\* RESTRICT: a collector's piece is of a variant that is to go.
Restricted(table) == \E p \in Pieces : piece[p] \in Dropped(table)

\* uq_coin_issue_variant, and Numista's id is unique as well.
Collides(table) ==
    \E r, q \in Rows :
       /\ r # q
       /\ \/ /\ table[r].type = table[q].type
             /\ table[r].variant = table[q].variant /\ table[r].variant # NoVariant
          \/ table[r].issue = table[q].issue /\ table[r].issue # NoIssue

\* A type or a row the session writes to is no longer there.
Vanished(x) ==
    \/ x.merges /\ numista # "own"
    \/ numista # "own" /\ ~x.names /\ \E r \in Rows : x.after[r].type = "own" /\ x.before[r].type = "unused"
    \/ \E r \in Rows : /\ row[r].type = "gone" /\ x.after[r].type # "gone"
                       /\ x.after[r] # x.before[r]

\* The database refuses the session's writes.
Refused(x, table) == Restricted(table) \/ Collides(table) \/ Vanished(x)

Commit(j) ==
    LET x     == session[j]
        table == After(x)
        on    == [o \in Observations |-> IF x.to[o] # x.from[o] THEN x.to[o] ELSE hangs[o]]
    IN  /\ x # Idle /\ ~Refused(x, table)
        /\ row' = table
        /\ numista' = IF x.names THEN x.type ELSE numista
        /\ hangs' = [o \in Observations |-> IF on[o] \in Dropped(table) THEN NoRow ELSE on[o]]
        /\ lost' = lost \cup {o \in Observations : on[o] \in Dropped(table)}
        /\ session' = [session EXCEPT ![j] = Idle]
        /\ Committed
        /\ UNCHANGED <<official, piece, late, faults>>

RollBack(j) ==
    /\ session' = [session EXCEPT ![j] = Idle]
    /\ alone' = [alone EXCEPT ![j] = FALSE]
    /\ UNCHANGED <<official, numista, row, hangs, lost, piece, late>>

Refuse(j) ==
    /\ session[j] # Idle /\ Refused(session[j], After(session[j]))
    /\ RollBack(j) /\ UNCHANGED faults
Abort(j) == session[j] # Idle /\ faults < MaxFaults /\ faults' = faults + 1 /\ RollBack(j)

Next ==
    \/ \E r \in Rows : \/ \E o \in Observations : Observe(o, r)
                       \/ \E p \in Pieces : Collect(p, r)
    \/ IngestEcb
    \/ \E t \in {"official", "own"}, k \in DOMAIN Answers : IngestNumista(t, Answers[k])
    \/ \E j \in Jobs : Merge(j) \/ Commit(j) \/ Refuse(j) \/ Abort(j)

Spec == Init /\ [][Next]_vars

-----------------------------------------------------------------------------
(* Properties.                                                             *)

\* Types, and no row without its type and no observation without its row.
TypeOK ==
    /\ official \in BOOLEAN /\ numista \in {"none", "own", "official"}
    /\ row \in [Rows -> Row]
    /\ \A r \in Rows : /\ row[r].type = "own" => numista = "own"
                       /\ row[r].type = "official" => official
    /\ hangs \in [Observations -> Rows \cup {NoRow}] /\ lost \subseteq Observations
    /\ piece \in [Pieces -> Rows \cup {NoRow}]
    /\ \A o \in Observations : hangs[o] # NoRow => row[hangs[o]].type \in {"official", "own"}
    /\ late \subseteq Observations /\ faults \in 0..MaxFaults

\* Market data keeps its variant: whatever is merged, adopted or retired, an observation
\* hangs off a row of the variant it was recorded for.
SameVariant ==
    [][\A o \in Observations :
          hangs[o] # NoRow /\ hangs'[o] # NoRow
          => row'[hangs'[o]].variant = row[hangs[o]].variant]_vars

\* ... and it is not lost, except to a session that looked before it was recorded and deletes
\* the row after (drop_unreferenced_placeholders, _retire_colliding_placeholders).
LostOnlyWhenLate == lost \subseteq late

\* A session to which nothing happened since it read is refused for one reason only: a
\* collector's piece is of a placeholder that is to go.  No merge, adoption or insertion
\* violates uq_coin_issue_variant on its own.
AloneGoesThrough ==
    \A j \in Jobs :
        session[j] # Idle /\ alone[j] /\ Refused(session[j], After(session[j]))
        => Restricted(After(session[j]))
=================================================================================
