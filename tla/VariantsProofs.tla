----------------------------- MODULE VariantsProofs -----------------------------
(***************************************************************************)
(* The variants of a coin, for any variants, issues and answers of Numista, *)
(* placeholders, observations, pieces and rows.                             *)
(***************************************************************************)
EXTENDS Variants, Linking, FiniteSetTheorems, WellFoundedInduction, TLAPS

-----------------------------------------------------------------------------
(* Lists, one item after the other.                                         *)

\* A set of positions has a first one.
LEMMA FirstOf ==
    ASSUME NEW n \in Nat, NEW S \in SUBSET (1..n), S # {}
    PROVE  \E i \in S : \A j \in S : i <= j
<1> DEFINE T == { 1..i : i \in S }
<1>1. T # {} /\ T \subseteq SUBSET (1..n)
  <2>1. \A i \in S : 1..i \subseteq 1..n
    OBVIOUS
  <2> QED
    BY <2>1
<1>2. IsWellFoundedOn(StrictSubsetOrdering(1..n), FiniteSubsetsOf(1..n))
    BY FS_StrictSubsetOrderingWellFounded
<1>3. T \subseteq FiniteSubsetsOf(1..n)
    BY <1>1, FS_Interval, FS_FiniteSubsetsOfFinite
<1> HIDE DEF T
<1>4. PICK x \in T : \A y \in T : ~ (<<y, x>> \in StrictSubsetOrdering(1..n))
    BY <1>1, <1>2, <1>3, WFMin
<1>5. PICK i \in S : x = 1..i
    BY DEF T
<1>6. ASSUME NEW j \in S, j < i PROVE FALSE
  <2>1. 1..j \in T
    BY DEF T
  <2>2. 1..j \subseteq x /\ 1..j # x
    <3>1. i \in 1..i /\ i \notin 1..j
      BY <1>6
    <3> QED
      BY <1>5, <1>6, <3>1
  <2>3. <<1..j, x>> \in StrictSubsetOrdering(1..n)
    BY <1>1, <2>1, <2>2 DEF StrictSubsetOrdering
  <2> QED
    BY <1>4, <2>1, <2>3
<1> QED
    BY <1>6

\* What holds before a list and is kept by each item holds after it.
LEMMA AlongAList ==
    ASSUME NEW n \in Nat, NEW P, P[0], \A i \in 1..n : P[i - 1] => P[i]
    PROVE  \A i \in 0..n : P[i]
<1> DEFINE S == { i \in 1..n : ~P[i] }
<1>1. SUFFICES ASSUME S # {} PROVE FALSE
    OBVIOUS
<1>2. PICK i \in S : \A j \in S : i <= j
    BY <1>1, FirstOf
<1>3. CASE i = 1
    BY <1>3
<1>4. CASE i # 1
  <2>1. i - 1 \in 1..n /\ ~(i <= i - 1)
    BY <1>4
  <2>2. P[i - 1]
    BY <1>2, <2>1
  <2> QED
    BY <2>2
<1> QED
    BY <1>3, <1>4

\* Step by step there is a value for each item.
StepOf(n, S) == [(1..n) \X S -> S]
Walk(g, n, S, base, step) ==
    /\ g \in [0..n -> S] /\ g[0] = base
    /\ \A i \in 1..n : g[i] = step[<<i, g[i - 1]>>]
LEMMA Stepwise ==
    ASSUME NEW S, NEW base \in S, NEW n \in Nat, NEW step \in StepOf(n, S)
    PROVE  \E g : Walk(g, n, S, base, step)
<1>0. step \in [(1..n) \X S -> S]
    BY DEF StepOf
<1> DEFINE Q(k) == \E g \in [0..k -> S] : /\ g[0] = base
                                          /\ \A i \in 1..k : g[i] = step[<<i, g[i - 1]>>]
           P == [k \in 0..n |-> Q(k)]
<1>1. Q(0)
  <2> DEFINE g == [i \in 0..0 |-> base]
  <2>1. g \in [0..0 -> S] /\ g[0] = base /\ \A i \in 1..0 : FALSE
    OBVIOUS
  <2> HIDE DEF g
  <2> QED
    BY <2>1
<1>2. ASSUME NEW k \in 1..n, Q(k - 1) PROVE Q(k)
  <2>1. PICK g \in [0..(k - 1) -> S] :
           g[0] = base /\ \A i \in 1..(k - 1) : g[i] = step[<<i, g[i - 1]>>]
    BY <1>2
  <2> DEFINE v == step[<<k, g[k - 1]>>]
             h == [i \in 0..k |-> IF i = k THEN v ELSE g[i]]
  <2>2. k - 1 \in 0..(k - 1) /\ g[k - 1] \in S /\ v \in S
    BY <1>0
  <2>3. \A i \in 0..k : i # k => i \in 0..(k - 1)
    OBVIOUS
  <2> HIDE DEF v
  <2>4. h \in [0..k -> S]
    BY <2>2, <2>3
  <2>5. \A i \in 0..k : h[i] = IF i = k THEN v ELSE g[i]
    OBVIOUS
  <2> HIDE DEF h
  <2>6. h[0] = base
    BY <2>1, <2>5
  <2>7. ASSUME NEW i \in 1..k PROVE h[i] = step[<<i, h[i - 1]>>]
    <3>1. i - 1 \in 0..k /\ i - 1 # k /\ h[i - 1] = g[i - 1]
      BY <2>5
    <3>2. CASE i = k
      BY <2>5, <3>1, <3>2 DEF v
    <3>3. CASE i # k
      <4>1. i \in 1..(k - 1)
        BY <3>3
      <4> QED
        BY <2>1, <2>5, <3>1, <3>3, <4>1
    <3> QED
      BY <3>2, <3>3
  <2> QED
    BY <2>4, <2>6, <2>7
<1>3. \A k \in 0..n : P[k] <=> Q(k)
    OBVIOUS
<1>4. P[0] /\ \A k \in 1..n : P[k - 1] => P[k]
  <2>1. \A k \in 1..n : k \in 0..n /\ k - 1 \in 0..n
    OBVIOUS
  <2> HIDE DEF Q, P
  <2> QED
    BY <1>1, <1>2, <1>3, <2>1
<1>5. P[n]
  <2> HIDE DEF Q, P
  <2> QED
    BY <1>4, AlongAList
<1> QED
    BY <1>3, <1>5 DEF Walk

-----------------------------------------------------------------------------
(* The inductive invariant.                                                 *)

\* A row that is there, and what a row may be.
LiveRow == [type : {"official", "own"}, variant : Variants, issue : NumistaIssues \cup {NoIssue}]
RowValue == LiveRow \cup {NotARow("unused"), NotARow("gone")}
Table == [Rows -> RowValue]
Live(table, r) == table[r].type \in {"official", "own"}
Named(table, r) == table[r].issue # NoIssue

\* The types have rows of their own kind only: Numista's all carry an id; while Numista has a
\* type of its own, or none, the ECB's carry none.
Sorted(table, who) ==
    \A r \in Rows : /\ table[r].type = "own" => who = "own" /\ Named(table, r)
                    /\ table[r].type = "official" /\ who # "official" => ~Named(table, r)

RowsOK ==
    /\ row \in Table /\ ~Collides(row) /\ Sorted(row, numista)
    /\ numista \in {"none", "own", "official"} /\ official \in BOOLEAN
    /\ numista = "official" => official
    /\ \A r \in Rows : row[r].type = "official" => official
MarketOK ==
    /\ hangs \in [Observations -> Rows \cup {NoRow}]
    /\ lost \subseteq Observations /\ late \subseteq Observations
    /\ \A o \in Observations : /\ hangs[o] # NoRow => Live(row, hangs[o])
                               /\ o \in lost => hangs[o] = NoRow
    /\ lost \subseteq late

\* What a session decided, whatever happened since.  Rows keep their variant, and their id
\* once they have one; what is dropped has none and nothing hangs off it; what is new has one.
Keeps(x, r) ==
    /\ x.before[r].type = "gone" => x.after[r] = x.before[r]
    /\ Live(x.before, r) /\ x.after[r].type # "gone" =>
          /\ Live(x.after, r) /\ x.after[r].variant = x.before[r].variant
          /\ Named(x.before, r) => Named(x.after, r)
          /\ IF x.merges THEN x.after[r].type = "official"
             ELSE x.after[r].type = x.before[r].type
    /\ Live(x.before, r) /\ x.after[r].type = "gone" =>
          /\ ~Named(x.before, r) /\ \A o \in Observations : x.to[o] # r
    /\ x.before[r].type = "unused" /\ x.after[r] # x.before[r] =>
          x.after[r].type = x.type /\ Named(x.after, r) /\ ~x.merges
    /\ ~x.merges /\ x.before[r].type # x.type /\ Live(x.before, r) => x.after[r] = x.before[r]
    /\ x.before[r].type = "own" => Named(x.before, r)
Moves(x, o) ==
    /\ x.from[o] # NoRow => Live(x.before, x.from[o])
    /\ x.to[o] # x.from[o] =>
          /\ x.merges /\ x.from[o] # NoRow
          /\ x.to[o] \in Rows /\ x.before[x.to[o]].type = "own"
          /\ x.before[x.to[o]].variant = x.before[x.from[o]].variant
Plan(x) ==
    /\ x.type \in {"official", "own"} /\ x.names \in BOOLEAN /\ x.merges \in BOOLEAN
    /\ x.before \in Table /\ x.after \in Table /\ ~Collides(x.after)
    /\ x.from \in [Observations -> Rows \cup {NoRow}]
    /\ x.to \in [Observations -> Rows \cup {NoRow}]
    /\ x.merges => x.names /\ x.type = "official"
    /\ \A r \in Rows : Keeps(x, r)
    /\ \A o \in Observations : Moves(x, o)

\* How far the catalogue may have moved on since.
Since(x, r) ==
    /\ x.before[r].type = "gone" => row[r].type = "gone"
    /\ Live(x.before, r) /\ row[r].type # "gone" =>
          /\ Live(row, r) /\ row[r].variant = x.before[r].variant
          /\ Named(x.before, r) => Named(row, r)
          /\ row[r].type # x.before[r].type =>
                x.before[r].type = "own" /\ row[r].type = "official" /\ numista = "official"
    /\ x.before[r].type = "unused" /\ x.after[r] # x.before[r] => row[r].type = "unused"
    /\ x.merges /\ numista = "own" /\ Live(x.before, r) => row[r].type # "gone"
Found(x, o) ==
    /\ x.from[o] = NoRow /\ hangs[o] # NoRow => o \in late
    /\ x.from[o] # NoRow /\ hangs[o] = NoRow => o \in lost
    /\ x.from[o] # NoRow /\ hangs[o] # NoRow =>
          /\ row[hangs[o]].variant = x.before[x.from[o]].variant
          /\ hangs[o] # x.from[o] =>
                /\ numista = "official"
                /\ Live(x.before, hangs[o]) => Named(x.before, hangs[o])
    /\ x.merges /\ numista = "own" /\ x.from[o] # NoRow => hangs[o] = x.from[o]
Names(j, x) ==
    IF x.merges THEN numista # "none" /\ official
    ELSE /\ j = "numista" /\ (x.type = "official" => official)
         /\ IF x.names THEN numista = "none"
            ELSE numista = "official" \/ numista = x.type
\* An undisturbed session.
Undisturbed(j, x) ==
    alone[j] => /\ row = x.before /\ hangs = x.from
                /\ x.merges => numista = "own"
                /\ ~x.names => numista = x.type

OpenOK(j, x) ==
    /\ Plan(x) /\ Names(j, x) /\ Undisturbed(j, x)
    /\ \A r \in Rows : Since(x, r)
    /\ \A o \in Observations : Found(x, o)
SessionsOK == \A j \in Jobs : \A x : session[j] = x /\ x # Idle => OpenOK(j, x)
\* Two sessions insert different rows.
Apart == \A r \in Rows : \A j, k \in Jobs :
            /\ j # k /\ session[j] # Idle /\ session[k] # Idle
            /\ session[j].before[r].type = "unused" /\ session[k].before[r].type = "unused"
            => session[j].after[r].type = "unused" \/ session[k].after[r].type = "unused"

VarInv ==
    /\ RowsOK /\ MarketOK /\ Apart
    /\ SessionsOK
    /\ alone \in [Jobs -> BOOLEAN] /\ DOMAIN session = Jobs

-----------------------------------------------------------------------------
(* Tables.                                                                  *)

LEMMA RowFacts ==
    ASSUME NEW v \in RowValue
    PROVE  /\ v.type \in {"unused", "gone", "official", "own"}
           /\ v.variant \in Variants \cup {NoVariant}
           /\ v.issue \in NumistaIssues \cup {NoIssue}
           /\ v.type \in {"official", "own"} => v \in LiveRow
           /\ v.type = "unused" => v = NotARow("unused")
           /\ v.type = "gone" => v = NotARow("gone")
           /\ v.type \notin {"official", "own"} => v.variant = NoVariant /\ v.issue = NoIssue
    BY DEF RowValue, LiveRow, NotARow

LEMMA FreeRows ==
    ASSUME NEW table
    PROVE  /\ Free(table) \in SUBSET Rows /\ IsFiniteSet(Free(table))
           /\ Cardinality(Free(table)) \in Nat
           /\ Free(table) # {} => Min(Free(table)) \in Free(table)
<1>1. Free(table) \in SUBSET (1..MaxRows) /\ MaxRows \in Nat
    BY VariantsAssumption DEF Free, Rows
<1>2. IsFiniteSet(Free(table)) /\ Cardinality(Free(table)) \in Nat
  <2>1. IsFiniteSet(1..MaxRows)
    BY <1>1, FS_Interval
  <2> QED
    BY <1>1, <2>1, FS_Subset, FS_CardinalityType
<1>3. ASSUME Free(table) # {} PROVE Min(Free(table)) \in Free(table)
  <2>1. PICK i \in Free(table) : \A k \in Free(table) : i <= k
    BY <1>1, <1>3, FirstOf
  <2> QED
    BY <2>1 DEF Min
<1> QED
    BY <1>1, <1>2, <1>3 DEF Rows

LEMMA InsertedType ==
    ASSUME NEW table \in Table, NEW t \in {"official", "own"}, NEW v \in Variants,
           NEW n \in NumistaIssues \cup {NoIssue}
    PROVE  Inserted(table, t, v, n) \in Table
<1>1. [type |-> t, variant |-> v, issue |-> n] \in RowValue
    BY DEF RowValue, LiveRow
<1> HIDE DEF RowValue
<1> QED
    BY <1>1 DEF Inserted, Table

LEMMA InsertedRow ==
    ASSUME NEW table \in Table, NEW t, NEW v, NEW n, Free(table) # {}
    PROVE  \E r \in Free(table) :
              /\ Inserted(table, t, v, n)[r] = [type |-> t, variant |-> v, issue |-> n]
              /\ \A q \in Rows \ {r} : Inserted(table, t, v, n)[q] = table[q]
<1>1. Min(Free(table)) \in Free(table) /\ Free(table) \in SUBSET Rows
    BY FreeRows
<1> QED
    BY <1>1 DEF Inserted, Table

\* What rows an ingestion adds or changes, in a table of type t.
Adds(old, new, t) ==
    \A r \in Rows :
       /\ Live(old, r) =>
             /\ new[r].type = old[r].type /\ new[r].variant = old[r].variant
             /\ Named(old, r) => Named(new, r)
             /\ old[r].type # t => new[r] = old[r]
       /\ old[r].type = "gone" => new[r] = old[r]
       /\ old[r].type = "unused" /\ new[r] # old[r] =>
             new[r].type = t /\ r \in Free(old)
NewNamed(old, new) ==
    \A r \in Rows : old[r].type = "unused" /\ new[r] # old[r] => Named(new, r)
\* It leaves all free rows but one.
TakesOne(old, new) == \E f : Free(old) \ {f} \in SUBSET Free(new)

LEMMA TakesOneLeaves ==
    ASSUME NEW old, NEW new, TakesOne(old, new)
    PROVE  Cardinality(Free(new)) >= Cardinality(Free(old)) - 1
<1>1. PICK f : Free(old) \ {f} \in SUBSET Free(new)
    BY DEF TakesOne
<1>2. /\ IsFiniteSet(Free(old)) /\ IsFiniteSet(Free(new))
      /\ Cardinality(Free(old)) \in Nat /\ Cardinality(Free(new)) \in Nat
    BY FreeRows
<1>3. Cardinality(Free(old) \ {f}) = IF f \in Free(old) THEN Cardinality(Free(old)) - 1
                                     ELSE Cardinality(Free(old))
    BY <1>2, FS_RemoveElement
<1>4. Cardinality(Free(old) \ {f}) <= Cardinality(Free(new))
    BY <1>1, <1>2, FS_Subset
<1> QED
    BY <1>2, <1>3, <1>4

LEMMA AddsTransitive ==
    ASSUME NEW a \in Table, NEW b \in Table, NEW c \in Table, NEW t \in {"official", "own"},
           Adds(a, b, t), Adds(b, c, t)
    PROVE  Adds(a, c, t) /\ (NewNamed(a, b) /\ NewNamed(b, c) => NewNamed(a, c))
<1>1. \A r \in Rows : /\ a[r].type \in {"unused", "gone", "official", "own"}
                      /\ b[r].type \in {"unused", "gone", "official", "own"}
                      /\ a[r].type = "unused" => a[r] = NotARow("unused")
                      /\ b[r].type = "unused" => b[r] = NotARow("unused")
  <2> TAKE r \in Rows
  <2>1. a[r] \in RowValue /\ b[r] \in RowValue
    BY DEF Table
  <2> QED
    BY <2>1, RowFacts
<1>2. Free(b) \in SUBSET Free(a)
    BY <1>1 DEF Adds, Free, Live
<1>3. Adds(a, c, t)
    BY <1>1, <1>2 DEF Adds, Live
<1>4. ASSUME NewNamed(a, b), NewNamed(b, c) PROVE NewNamed(a, c)
    BY <1>1, <1>4 DEF Adds, NewNamed, Live
<1> QED
    BY <1>3, <1>4

LEMMA InsertedAdds ==
    ASSUME NEW table \in Table, NEW t \in {"official", "own"}, NEW v \in Variants,
           NEW n \in NumistaIssues \cup {NoIssue}, Free(table) # {}
    PROVE  LET new == Inserted(table, t, v, n)
           IN  /\ new \in Table /\ Adds(table, new, t) /\ TakesOne(table, new)
               /\ n # NoIssue => NewNamed(table, new)
               /\ (~Collides(table) /\ (\A q \in Of(table, t) : table[q].variant # v)
                      /\ (n # NoIssue => \A q \in Rows : table[q].issue # n)) => ~Collides(new)
               /\ \A q \in Of(new, t) : q \in Of(table, t) \/ new[q].variant = v
<1> DEFINE new == Inserted(table, t, v, n)
<1>1. PICK r \in Free(table) : /\ new[r] = [type |-> t, variant |-> v, issue |-> n]
                               /\ \A q \in Rows \ {r} : new[q] = table[q]
    BY InsertedRow
<1>2. new \in Table
    BY InsertedType
<1> HIDE DEF new
<1>3. r \in Rows /\ table[r].type = "unused"
    BY DEF Free
<1>4. /\ new[r].type = t /\ new[r].variant = v /\ new[r].issue = n
      /\ v # NoVariant
    BY <1>1, VariantsAssumption
<1>5. Adds(table, new, t)
    BY <1>1, <1>3, <1>4 DEF Adds, Live, Named
<1>6. TakesOne(table, new)
  <2>1. Free(table) \ {r} \in SUBSET Free(new)
    BY <1>1 DEF Free
  <2> QED
    BY <2>1 DEF TakesOne
<1>7. n # NoIssue => NewNamed(table, new)
    BY <1>1, <1>4 DEF NewNamed, Named
<1>8. ASSUME ~Collides(table), \A q \in Of(table, t) : table[q].variant # v,
             n # NoIssue => \A q \in Rows : table[q].issue # n
      PROVE  ~Collides(new)
    BY <1>1, <1>3, <1>4, <1>8 DEF Collides, Of
<1>9. \A q \in Of(new, t) : q \in Of(table, t) \/ new[q].variant = v
    BY <1>1, <1>4 DEF Of
<1> QED
    BY <1>2, <1>5, <1>6, <1>7, <1>8, <1>9 DEF new

\* _upsert_issue.
LEMMA UpsertedType ==
    ASSUME NEW table \in Table, NEW t \in {"official", "own"}, NEW n \in NumistaIssues
    PROVE  Upserted(table, t, n) \in Table
<1>1. VariantOf[n] \in Variants
    BY VariantsAssumption
<1> DEFINE same == {r \in Of(table, t) : table[r].variant = VariantOf[n]}
           c == CHOOSE r \in same : TRUE
<1>2. CASE \E r \in Rows : table[r].issue = n
    BY <1>2 DEF Upserted
<1>3. CASE ~(\E r \in Rows : table[r].issue = n) /\ same # {}
  <2>1. Upserted(table, t, n) = [table EXCEPT ![c].issue = n]
    BY <1>3 DEF Upserted
  <2>2. c \in same /\ c \in Rows /\ table[c] \in RowValue /\ table[c].type = t
    BY <1>3 DEF Of, Table
  <2>3. [table[c] EXCEPT !.issue = n] \in RowValue
    BY <2>2, RowFacts DEF RowValue, LiveRow
  <2> HIDE DEF c, same
  <2> QED
    BY <2>1, <2>2, <2>3 DEF Table
<1>4. CASE ~(\E r \in Rows : table[r].issue = n) /\ same = {}
  <2>1. Upserted(table, t, n) = Inserted(table, t, VariantOf[n], n)
    BY <1>4 DEF Upserted
  <2> QED
    BY <1>1, <2>1, InsertedType
<1> QED
    BY <1>2, <1>3, <1>4

LEMMA UpsertedAdds ==
    ASSUME NEW table \in Table, ~Collides(table), NEW t \in {"official", "own"},
           NEW n \in NumistaIssues, Free(table) # {}
    PROVE  LET new == Upserted(table, t, n)
           IN  /\ ~Collides(new) /\ Adds(table, new, t) /\ NewNamed(table, new)
               /\ TakesOne(table, new)
<1> DEFINE new == Upserted(table, t, n)
           same == {r \in Of(table, t) : table[r].variant = VariantOf[n]}
           c == CHOOSE r \in same : TRUE
<1>0. VariantOf[n] \in Variants /\ n # NoIssue
    BY VariantsAssumption
<1>1. CASE \E r \in Rows : table[r].issue = n
  <2>1. new = table
    BY <1>1 DEF Upserted
  <2>2. TakesOne(table, table) /\ Adds(table, table, t) /\ NewNamed(table, table)
    BY DEF TakesOne, Adds, NewNamed, Named
  <2> QED
    BY <2>1, <2>2
<1>2. CASE ~(\E r \in Rows : table[r].issue = n) /\ same # {}
  <2>1. new = [table EXCEPT ![c].issue = n]
    BY <1>2 DEF Upserted
  <2>2. c \in same /\ c \in Rows /\ table[c] \in RowValue /\ table[c].type = t
    BY <1>2 DEF Of, Table
  <2>3. table[c] \in LiveRow
    BY <2>2, RowFacts
  <2> HIDE DEF c, same, new
  <2>4. /\ new[c].type = t /\ new[c].variant = table[c].variant /\ new[c].issue = n
        /\ \A q \in Rows \ {c} : new[q] = table[q]
    BY <2>1, <2>2, <2>3 DEF Table, LiveRow
  <2>5. Adds(table, new, t)
    BY <1>0, <2>2, <2>4 DEF Adds, Live, Named
  <2>6. NewNamed(table, new)
    BY <2>2, <2>4 DEF NewNamed
  <2>7. Free(table) \ {c} \in SUBSET Free(new)
    BY <2>4 DEF Free
  <2>8. ~Collides(new)
    BY <1>2, <2>2, <2>4 DEF Collides
  <2> QED
    BY <2>5, <2>6, <2>7, <2>8 DEF TakesOne, new
<1>3. CASE ~(\E r \in Rows : table[r].issue = n) /\ same = {}
  <2>1. new = Inserted(table, t, VariantOf[n], n)
    BY <1>3 DEF Upserted
  <2>2. \A q \in Of(table, t) : table[q].variant # VariantOf[n]
    BY <1>3
  <2> HIDE DEF new
  <2> QED
    BY <1>0, <1>3, <2>1, <2>2, InsertedAdds DEF new
<1> QED
    BY <1>1, <1>2, <1>3

\* The issues of an answer: the table is grown by rows of Numista's, and keeps its keys.
LEMMA UpsertedAllAdds ==
    ASSUME row \in Table, ~Collides(row), NEW t \in {"official", "own"},
           NEW listed \in Seq(NumistaIssues), Cardinality(Free(row)) >= Len(listed)
    PROVE  LET new == UpsertedAll(t, listed)
           IN  new \in Table /\ ~Collides(new) /\ Adds(row, new, t) /\ NewNamed(row, new)
<1> DEFINE n == Len(listed)
           A == CHOOSE A : A = [i \in 0..n |-> IF i = 0 THEN row ELSE Upserted(A[i - 1], t, listed[i])]
           step == [p \in (1..n) \X Table |-> Upserted(p[2], t, listed[p[1]])]
<1>1. n \in Nat /\ \A i \in 1..n : listed[i] \in NumistaIssues
    OBVIOUS
<1>2. step \in [(1..n) \X Table -> Table]
  <2>1. \A p \in (1..n) \X Table : Upserted(p[2], t, listed[p[1]]) \in Table
    BY <1>1, UpsertedType
  <2> HIDE DEF n
  <2> QED
    BY <2>1
<1>3. A = [i \in 0..n |-> IF i = 0 THEN row ELSE Upserted(A[i - 1], t, listed[i])]
  <2>1. PICK g \in [0..n -> Table] :
           g[0] = row /\ \A i \in 1..n : g[i] = step[<<i, g[i - 1]>>]
    <3> HIDE DEF step, n
    <3>1. row \in Table /\ n \in Nat /\ step \in StepOf(n, Table)
      BY <1>1, <1>2 DEF StepOf
    <3>2. \E g : Walk(g, n, Table, row, step)
      BY ONLY <3>1, Stepwise
    <3> QED
      BY <3>2 DEF Walk
  <2>2. ASSUME NEW i \in 1..n PROVE g[i] = Upserted(g[i - 1], t, listed[i])
    <3>1. i - 1 \in 0..n
      BY <1>1
    <3>2. <<i, g[i - 1]>> \in (1..n) \X Table
      BY <3>1
    <3> HIDE DEF n
    <3> QED
      BY <2>1, <3>2
  <2>3. g = [i \in 0..n |-> IF i = 0 THEN row ELSE Upserted(g[i - 1], t, listed[i])]
    <3>1. \A i \in 0..n : g[i] = IF i = 0 THEN row ELSE Upserted(g[i - 1], t, listed[i])
      BY <1>1, <2>1, <2>2
    <3>2. g = [i \in 0..n |-> g[i]]
      OBVIOUS
    <3> HIDE DEF n
    <3> QED
      BY <3>1, <3>2
  <2> HIDE DEF n
  <2> QED
    BY <2>3
<1>4. UpsertedAll(t, listed) = A[n]
    BY DEF UpsertedAll
<1> HIDE DEF A, step
<1>5. A[0] = row /\ \A i \in 1..n : A[i] = Upserted(A[i - 1], t, listed[i])
  <2> HIDE DEF n
  <2>1. 0 \in 0..n /\ \A i \in 1..n : i \in 0..n /\ i # 0
    BY <1>1
  <2> QED
    BY <1>3, <2>1
<1> DEFINE Q(i) == /\ A[i] \in Table /\ ~Collides(A[i])
                   /\ Adds(row, A[i], t) /\ NewNamed(row, A[i])
                   /\ Cardinality(Free(A[i])) >= Cardinality(Free(row)) - i
           P == [i \in 0..n |-> Q(i)]
<1>6. Q(0)
  <2>1. Adds(row, row, t) /\ NewNamed(row, row) /\ Cardinality(Free(row)) \in Nat
    BY FreeRows DEF Adds, NewNamed, Named
  <2> QED
    BY <1>5, <2>1
<1>7. ASSUME NEW i \in 1..n, Q(i - 1) PROVE Q(i)
  <2> DEFINE a == A[i - 1]
  <2>1. /\ a \in Table /\ ~Collides(a) /\ Adds(row, a, t) /\ NewNamed(row, a)
        /\ Cardinality(Free(a)) >= Cardinality(Free(row)) - (i - 1)
        /\ A[i] = Upserted(a, t, listed[i]) /\ listed[i] \in NumistaIssues
    BY <1>1, <1>5, <1>7
  <2>2. Free(a) # {}
    <3>1. /\ Cardinality(Free(a)) \in Nat /\ Cardinality(Free(row)) \in Nat
          /\ Free(a) = {} => Cardinality(Free(a)) = 0
      BY FreeRows, FS_EmptySet
    <3> QED
      BY <1>1, <2>1, <3>1
  <2> HIDE DEF a
  <2>3. /\ A[i] \in Table /\ ~Collides(A[i]) /\ Adds(a, A[i], t) /\ NewNamed(a, A[i])
        /\ TakesOne(a, A[i])
    BY <2>1, <2>2, UpsertedAdds, UpsertedType
  <2>4. Adds(row, A[i], t) /\ NewNamed(row, A[i])
    BY <2>1, <2>3, AddsTransitive
  <2>5. Cardinality(Free(A[i])) >= Cardinality(Free(a)) - 1
    BY <2>3, TakesOneLeaves
  <2>6. /\ Cardinality(Free(A[i])) \in Nat /\ Cardinality(Free(a)) \in Nat
        /\ Cardinality(Free(row)) \in Nat
    BY FreeRows
  <2>7. Cardinality(Free(A[i])) >= Cardinality(Free(row)) - i
    BY <1>1, <2>1, <2>5, <2>6
  <2> QED
    BY <2>3, <2>4, <2>7
<1>8. Q(n)
  <2>1. \A i \in 0..n : P[i] <=> Q(i)
    OBVIOUS
  <2>2. \A i \in 1..n : i \in 0..n /\ i - 1 \in 0..n
    BY <1>1
  <2>3. 0 \in 0..n /\ n \in 0..n
    BY <1>1
  <2> HIDE DEF P, Q, n
  <2>4. P[0] /\ \A i \in 1..n : P[i - 1] => P[i]
    BY <1>6, <1>7, <2>1, <2>2, <2>3
  <2>5. P[n]
    BY <1>1, <2>3, <2>4, AlongAList
  <2> QED
    BY <2>1, <2>3, <2>5
<1> QED
    BY <1>4, <1>8

\* ensure_placeholder_issue: what it adds to a type without a row.
Placed(old, new) ==
    \A r \in Rows : \/ new[r] = old[r]
                    \/ /\ r \in Free(old) /\ new[r].type = "official" /\ new[r].variant \in Variants
                       /\ new[r].issue = NoIssue

LEMMA PlaceholderAdds ==
    ASSUME row \in Table, ~Collides(row), Cardinality(Free(row)) >= Len(Placeholders)
    PROVE  LET new == EnsurePlaceholder(row)
           IN  new \in Table /\ ~Collides(new) /\ Placed(row, new)
<1> DEFINE t == "official"
           n == Len(Placeholders)
           A == CHOOSE A : A = [i \in 0..n |->
                   IF i = 0 THEN row ELSE Inserted(A[i - 1], t, Placeholders[i], NoIssue)]
           step == [p \in (1..n) \X Table |-> Inserted(p[2], t, Placeholders[p[1]], NoIssue)]
<1>1. /\ n \in Nat /\ \A i \in 1..n : Placeholders[i] \in Variants /\ Placeholders[i] # NoVariant
      /\ \A i, k \in 1..n : i # k => Placeholders[i] # Placeholders[k]
    BY VariantsAssumption
<1>2. step \in StepOf(n, Table)
  <2>1. \A p \in (1..n) \X Table : Inserted(p[2], t, Placeholders[p[1]], NoIssue) \in Table
    BY <1>1, InsertedType
  <2> HIDE DEF n
  <2> QED
    BY <2>1 DEF StepOf
<1>3. A = [i \in 0..n |-> IF i = 0 THEN row ELSE Inserted(A[i - 1], t, Placeholders[i], NoIssue)]
  <2>1. PICK g : Walk(g, n, Table, row, step)
    <3> HIDE DEF step, n
    <3>1. row \in Table /\ n \in Nat /\ step \in StepOf(n, Table)
      BY <1>1, <1>2
    <3> QED
      BY ONLY <3>1, Stepwise
  <2>2. /\ g \in [0..n -> Table] /\ g[0] = row
        /\ \A i \in 1..n : g[i] = step[<<i, g[i - 1]>>]
    BY <2>1 DEF Walk
  <2>3. ASSUME NEW i \in 1..n PROVE g[i] = Inserted(g[i - 1], t, Placeholders[i], NoIssue)
    <3>1. i - 1 \in 0..n
      BY <1>1
    <3>2. <<i, g[i - 1]>> \in (1..n) \X Table
      BY <2>2, <3>1
    <3> HIDE DEF n
    <3> QED
      BY <2>2, <3>2
  <2>4. g = [i \in 0..n |-> IF i = 0 THEN row ELSE Inserted(g[i - 1], t, Placeholders[i], NoIssue)]
    <3>1. \A i \in 0..n : g[i] = IF i = 0 THEN row ELSE Inserted(g[i - 1], t, Placeholders[i], NoIssue)
      BY <1>1, <2>2, <2>3
    <3>2. g = [i \in 0..n |-> g[i]]
      BY <2>2
    <3> HIDE DEF n
    <3> QED
      BY <3>1, <3>2
  <2> HIDE DEF n
  <2> QED
    BY <2>4
<1>4. CASE Of(row, "official") # {}
  <2>1. EnsurePlaceholder(row) = row
    BY <1>4 DEF EnsurePlaceholder
  <2> QED
    BY <2>1 DEF Placed
<1>5. CASE Of(row, "official") = {}
  <2>1. EnsurePlaceholder(row) = A[n]
    BY <1>5 DEF EnsurePlaceholder
  <2> HIDE DEF A, step
  <2>2. A[0] = row /\ \A i \in 1..n : A[i] = Inserted(A[i - 1], t, Placeholders[i], NoIssue)
    <3> HIDE DEF n
    <3>1. 0 \in 0..n /\ \A i \in 1..n : i \in 0..n /\ i # 0
      BY <1>1
    <3> QED
      BY <1>3, <3>1
  <2> DEFINE New(i, r) == /\ r \in Free(row) /\ A[i][r].type = t /\ A[i][r].issue = NoIssue
                          /\ \E k \in 1..i : A[i][r].variant = Placeholders[k]
             Q(i) == /\ A[i] \in Table /\ ~Collides(A[i])
                     /\ \A r \in Rows : A[i][r] = row[r] \/ New(i, r)
                     /\ Cardinality(Free(A[i])) >= Cardinality(Free(row)) - i
             P == [i \in 0..n |-> Q(i)]
  <2>3. Q(0)
    <3>1. Cardinality(Free(row)) \in Nat
      BY FreeRows
    <3> QED
      BY <2>2, <3>1
  <2>4. ASSUME NEW i \in 1..n, Q(i - 1) PROVE Q(i)
    <3> DEFINE a == A[i - 1]
               b == A[i]
               v == Placeholders[i]
    <3>1. /\ a \in Table /\ ~Collides(a) /\ \A r \in Rows : a[r] = row[r] \/ New(i - 1, r)
          /\ Cardinality(Free(a)) >= Cardinality(Free(row)) - (i - 1)
          /\ b = Inserted(a, t, v, NoIssue) /\ v \in Variants
      BY <1>1, <2>2, <2>4
    <3>2. Free(a) # {}
      <4>1. /\ Cardinality(Free(a)) \in Nat /\ Cardinality(Free(row)) \in Nat
            /\ Free(a) = {} => Cardinality(Free(a)) = 0
        BY FreeRows, FS_EmptySet
      <4> HIDE DEF a
      <4> QED
        BY <1>1, <3>1, <4>1
    <3>3. \A q \in Of(a, t) : a[q].variant # v
      <4> SUFFICES ASSUME NEW q \in Rows, a[q].type = t PROVE a[q].variant # v
        BY DEF Of
      <4>1. a[q] # row[q]
        BY <1>5 DEF Of
      <4>2. PICK k \in 1..(i - 1) : a[q].variant = Placeholders[k]
        BY <3>1, <4>1
      <4>3. k \in 1..n /\ k # i
        BY <1>1
      <4> QED
        BY <1>1, <4>2, <4>3
    <3>4. /\ b \in Table /\ TakesOne(a, b) /\ ~Collides(b)
      <4> HIDE DEF a, b, v
      <4> QED
        BY <3>1, <3>2, <3>3, InsertedAdds
    <3>5. PICK f \in Free(a) : /\ b[f] = [type |-> t, variant |-> v, issue |-> NoIssue]
                               /\ \A q \in Rows \ {f} : b[q] = a[q]
      <4> HIDE DEF a, b, v
      <4> QED
        BY <3>1, <3>2, InsertedRow
    <3>6. ASSUME NEW r \in Rows PROVE b[r] = row[r] \/ New(i, r)
      <4>1. CASE r = f
        <5>1. f \in Free(row)
          BY <3>5 DEF Free
        <5>2. b[r].type = t /\ b[r].issue = NoIssue /\ b[r].variant = Placeholders[i] /\ i \in 1..i
          BY <3>5, <4>1
        <5> QED
          BY <4>1, <5>1, <5>2
      <4>2. CASE r # f
        <5>1. b[r] = a[r]
          BY <3>5, <4>2
        <5>2. \A k \in 1..(i - 1) : k \in 1..i
          OBVIOUS
        <5> QED
          BY <3>1, <5>1, <5>2
      <4> QED
        BY <4>1, <4>2
    <3>7. Cardinality(Free(b)) >= Cardinality(Free(a)) - 1
      <4> HIDE DEF a, b
      <4> QED
        BY <3>4, TakesOneLeaves
    <3>8. /\ Cardinality(Free(b)) \in Nat /\ Cardinality(Free(a)) \in Nat
          /\ Cardinality(Free(row)) \in Nat
      BY FreeRows
    <3>9. Cardinality(Free(b)) >= Cardinality(Free(row)) - i
      <4> HIDE DEF a, b
      <4> QED
        BY <1>1, <3>1, <3>7, <3>8
    <3> QED
      BY <3>4, <3>6, <3>9
  <2>5. Q(n)
    <3>1. \A i \in 0..n : P[i] <=> Q(i)
      OBVIOUS
    <3>2. \A i \in 1..n : i \in 0..n /\ i - 1 \in 0..n
      BY <1>1
    <3>3. 0 \in 0..n /\ n \in 0..n
      BY <1>1
    <3> HIDE DEF P, Q, n
    <3>4. P[0] /\ \A i \in 1..n : P[i - 1] => P[i]
      BY <2>3, <2>4, <3>1, <3>2, <3>3
    <3>5. P[n]
      BY <1>1, <3>3, <3>4, AlongAList
    <3> QED
      BY <3>1, <3>3, <3>5
  <2>6. Placed(row, A[n])
    BY <1>1, <2>5 DEF Placed
  <2> QED
    BY <2>1, <2>5, <2>6
<1> QED
  <2> HIDE DEF A, n, step
  <2> QED
    BY <1>4, <1>5

-----------------------------------------------------------------------------
(* Plans.                                                                   *)

LEMMA DropFacts ==
    ASSUME NEW table \in Table, NEW t, NEW on
    PROVE  LET new == DropUnreferenced(table, t, on)
           IN  /\ new \in Table /\ (~Collides(table) => ~Collides(new))
               /\ \A r \in Rows : \/ new[r] = table[r]
                                  \/ /\ new[r] = NotARow("gone") /\ table[r].type = t
                                     /\ ~Named(table, r) /\ \A o \in Observations : on[o] # r
<1> DEFINE new == DropUnreferenced(table, t, on)
           out(r) == /\ Of(table, t) # Unnamed(table, t)
                     /\ r \in Unnamed(table, t) /\ table[r].variant = Plain
                     /\ \A o \in Observations : on[o] # r
<1>1. new = [r \in Rows |-> IF out(r) THEN NotARow("gone") ELSE table[r]]
    BY DEF DropUnreferenced
<1>2. \A r \in Rows : out(r) => /\ table[r].type = t /\ ~Named(table, r)
                                /\ \A o \in Observations : on[o] # r
    BY DEF Unnamed, Of, Named
<1> HIDE DEF new, out
<1>3. \A r \in Rows : \/ new[r] = table[r]
                      \/ /\ new[r] = NotARow("gone") /\ table[r].type = t
                         /\ ~Named(table, r) /\ \A o \in Observations : on[o] # r
    BY <1>1, <1>2
<1>4. new \in Table
    BY <1>1 DEF Table, RowValue
<1>5. ASSUME ~Collides(table) PROVE ~Collides(new)
  <2>1. NotARow("gone").variant = NoVariant /\ NotARow("gone").issue = NoIssue
    BY DEF NotARow
  <2>2. \A r \in Rows : new[r] = table[r] \/ (new[r].variant = NoVariant /\ new[r].issue = NoIssue)
    BY <1>3, <2>1
  <2> QED
    BY <1>5, <2>2 DEF Collides
<1> QED
    BY <1>3, <1>4, <1>5 DEF new

LEMMA TableRows ==
    ASSUME NEW table \in Table, NEW r \in Rows
    PROVE  /\ table[r].type \in {"unused", "gone", "official", "own"}
           /\ table[r].type = "unused" => table[r] = NotARow("unused")
           /\ table[r].type = "gone" => table[r] = NotARow("gone")
           /\ Live(table, r) => table[r] \in LiveRow
           /\ ~Live(table, r) => table[r].variant = NoVariant /\ table[r].issue = NoIssue
           /\ NotARow("gone").type = "gone" /\ NotARow("unused").type = "unused"
<1>1. table[r] \in RowValue
    BY DEF Table
<1> QED
    BY <1>1, RowFacts DEF Live, NotARow

\* What ingest_numista_type decides.
LEMMA IngestPlan ==
    ASSUME RowsOK, MarketOK, NEW t \in {"official", "own"}, NEW listed \in Seq(NumistaIssues),
           Cardinality(Free(row)) >= Len(listed),
           NEW x, x.type = t, x.names = (numista # t), x.merges = FALSE, x.before = row,
           x.after = IF listed = <<>> THEN row
                     ELSE DropUnreferenced(UpsertedAll(t, listed), t, hangs),
           x.from = hangs, x.to = hangs
    PROVE  Plan(x) /\ \A r \in Rows : row[r].type = "unused" /\ x.after[r] # row[r] => r \in Free(row)
<1>1. /\ row \in Table /\ ~Collides(row)
      /\ \A r \in Rows : row[r].type = "own" => Named(row, r)
    BY DEF RowsOK, Sorted
<1>2. /\ hangs \in [Observations -> Rows \cup {NoRow}]
      /\ \A o \in Observations : hangs[o] # NoRow => Live(row, hangs[o])
    BY DEF MarketOK
<1> DEFINE u == UpsertedAll(t, listed)
           d == DropUnreferenced(u, t, hangs)
<1>3. u \in Table /\ ~Collides(u) /\ Adds(row, u, t) /\ NewNamed(row, u)
    BY <1>1, UpsertedAllAdds
<1>4. /\ d \in Table /\ ~Collides(d)
      /\ \A r \in Rows : \/ d[r] = u[r]
                         \/ /\ d[r] = NotARow("gone") /\ u[r].type = t
                            /\ ~Named(u, r) /\ \A o \in Observations : hangs[o] # r
  <2> HIDE DEF u
  <2> QED
    BY <1>3, DropFacts
<1>5. \/ x.after = row
      \/ x.after = d
    OBVIOUS
<1> HIDE DEF u, d
<1>6. x.after \in Table /\ ~Collides(x.after)
    BY <1>1, <1>4, <1>5
<1>7. ASSUME NEW r \in Rows
      PROVE  Keeps(x, r) /\ (row[r].type = "unused" /\ x.after[r] # row[r] => r \in Free(row))
  <2>1. /\ row[r].type \in {"unused", "gone", "official", "own"}
        /\ row[r].type = "gone" => ~Live(row, r)
        /\ row[r].type = "unused" => ~Live(row, r)
        /\ NotARow("gone").type = "gone"
    BY <1>1, TableRows DEF Live
  <2>2. CASE x.after = row
    BY <1>1, <2>1, <2>2 DEF Keeps, Live
  <2>3. CASE x.after = d
    <3>1. CASE row[r].type = "gone"
      <4>1. u[r] = row[r]
        BY <1>3, <3>1 DEF Adds
      <4>2. d[r] = u[r]
        BY <1>4, <3>1, <4>1
      <4> QED
        BY <2>1, <2>3, <3>1, <4>1, <4>2 DEF Keeps
    <3>2. CASE row[r].type = "unused"
      <4>1. u[r] = row[r] \/ (u[r].type = t /\ r \in Free(row) /\ Named(u, r))
        BY <1>3, <3>2 DEF Adds, NewNamed
      <4>2. d[r] = u[r]
        BY <1>4, <3>2, <4>1
      <4> QED
        BY <2>1, <2>3, <3>2, <4>1, <4>2 DEF Keeps, Named
    <3>3. CASE Live(row, r)
      <4>1. /\ u[r].type = row[r].type /\ u[r].variant = row[r].variant
            /\ Named(row, r) => Named(u, r)
            /\ row[r].type # t => u[r] = row[r]
        BY <1>3, <3>3 DEF Adds
      <4>2. row[r].type # "gone" /\ row[r].type # "unused"
        BY <3>3 DEF Live
      <4>3. CASE d[r] = u[r]
        BY <1>1, <2>3, <3>3, <4>1, <4>2, <4>3 DEF Keeps, Live, Named
      <4>4. CASE /\ d[r] = NotARow("gone") /\ u[r].type = t
                 /\ ~Named(u, r) /\ \A o \in Observations : hangs[o] # r
        <5>1. ~Named(row, r) /\ row[r].type = t /\ row[r].type # "own"
          BY <1>1, <4>1, <4>4
        <5> QED
          BY <2>1, <2>3, <3>3, <4>2, <4>4, <5>1 DEF Keeps, Live, Named
      <4> QED
        BY <1>4, <4>3, <4>4
    <3> QED
      BY <2>1, <3>1, <3>2, <3>3 DEF Live
  <2> QED
    BY <1>5, <2>2, <2>3
<1>8. \A o \in Observations : Moves(x, o)
    BY <1>2 DEF Moves
<1> QED
    BY <1>1, <1>2, <1>6, <1>7, <1>8 DEF Plan

\* What merge_types decides.
LEMMA MergePlan ==
    ASSUME RowsOK, MarketOK, numista = "own",
           NEW moved, moved = [r \in Rows |->
                                 IF r \in Retired THEN NotARow("gone")
                                 ELSE IF row[r].type = "own" THEN [row[r] EXCEPT !.type = "official"]
                                 ELSE row[r]],
           NEW x, x.type = "official", x.names = TRUE, x.merges = TRUE, x.before = row,
           x.after = DropUnreferenced(moved, "official", HandedOver),
           x.from = hangs, x.to = HandedOver
    PROVE  Plan(x) /\ \A r \in Rows : row[r].type = "unused" => x.after[r] = row[r]
<1>1. /\ row \in Table /\ ~Collides(row)
      /\ \A r \in Rows : /\ row[r].type = "own" => Named(row, r)
                         /\ row[r].type = "official" => ~Named(row, r)
    BY DEF RowsOK, Sorted
<1>2. /\ hangs \in [Observations -> Rows \cup {NoRow}] /\ NoRow \notin Rows
      /\ \A o \in Observations : hangs[o] # NoRow => Live(row, hangs[o])
    BY VariantsAssumption DEF MarketOK
<1>3. \A p \in Retired : /\ p \in Rows /\ row[p].type = "official" /\ ~Named(row, p)
                         /\ Twins(p) # {}
    BY DEF Retired, Unnamed, Of, Named
<1>4. \A p, q : q \in Twins(p) => /\ q \in Rows /\ row[q].type = "own"
                                  /\ row[q].variant = row[p].variant
    BY DEF Twins, Of
<1>5. \A o \in Observations :
         IF hangs[o] \in Retired THEN HandedOver[o] \in Twins(hangs[o])
         ELSE HandedOver[o] = hangs[o]
    BY <1>3 DEF HandedOver
<1>6. HandedOver \in [Observations -> Rows \cup {NoRow}]
  <2>1. HandedOver = [o \in Observations |-> HandedOver[o]]
    BY DEF HandedOver
  <2>2. \A o \in Observations : HandedOver[o] \in Rows \cup {NoRow}
    BY <1>2, <1>4, <1>5
  <2> QED
    BY <2>1, <2>2
<1>7. ASSUME NEW r \in Rows
      PROVE  /\ moved[r] \in RowValue
             /\ r \in Retired => moved[r] = NotARow("gone")
             /\ r \notin Retired /\ row[r].type = "own" =>
                   /\ moved[r].type = "official" /\ moved[r].variant = row[r].variant
                   /\ moved[r].issue = row[r].issue
             /\ r \notin Retired /\ row[r].type # "own" => moved[r] = row[r]
  <2>1. row[r] \in RowValue
    BY <1>1 DEF Table
  <2>2. row[r].type = "own" => row[r] \in LiveRow
    BY <2>1, RowFacts
  <2>3. CASE r \in Retired
    BY <2>3 DEF RowValue
  <2>4. CASE r \notin Retired /\ row[r].type = "own"
    BY <2>2, <2>4 DEF LiveRow, RowValue
  <2>5. CASE r \notin Retired /\ row[r].type # "own"
    BY <2>1, <2>5
  <2> QED
    BY <2>3, <2>4, <2>5
<1>8. moved \in Table
    BY <1>7 DEF Table
<1>9. ~Collides(moved)
  <2>1. ASSUME NEW r \in Rows, NEW q \in Rows, r # q
        PROVE  ~ \/ /\ moved[r].type = moved[q].type
                    /\ moved[r].variant = moved[q].variant /\ moved[r].variant # NoVariant
                 \/ moved[r].issue = moved[q].issue /\ moved[r].issue # NoIssue
    <3>1. /\ ~(/\ row[r].type = row[q].type /\ row[r].variant = row[q].variant
               /\ row[r].variant # NoVariant)
          /\ ~(row[r].issue = row[q].issue /\ row[r].issue # NoIssue)
      BY <1>1, <2>1 DEF Collides
    <3>2. /\ r \notin Retired /\ q \notin Retired /\ row[r].type = "official" /\ row[q].type = "own"
             => row[r].variant # row[q].variant
          /\ r \notin Retired /\ q \notin Retired /\ row[q].type = "official" /\ row[r].type = "own"
             => row[r].variant # row[q].variant
      BY <1>1 DEF Retired, Twins, Unnamed, Of, Named
    <3>3. NotARow("gone").variant = NoVariant /\ NotARow("gone").issue = NoIssue
      BY DEF NotARow
    <3>4. CASE r \in Retired \/ q \in Retired
      BY <1>7, <3>3, <3>4
    <3>5. CASE r \notin Retired /\ q \notin Retired
      <4>1. /\ moved[r].issue = row[r].issue /\ moved[q].issue = row[q].issue
            /\ moved[r].variant = row[r].variant /\ moved[q].variant = row[q].variant
            /\ moved[r].type = IF row[r].type = "own" THEN "official" ELSE row[r].type
            /\ moved[q].type = IF row[q].type = "own" THEN "official" ELSE row[q].type
        BY <1>7, <3>5
      <4> QED
        BY <3>1, <3>2, <3>5, <4>1
    <3> QED
      BY <3>4, <3>5
  <2> QED
    BY <2>1 DEF Collides
<1>10. /\ x.after \in Table /\ ~Collides(x.after)
       /\ \A r \in Rows : \/ x.after[r] = moved[r]
                          \/ /\ x.after[r] = NotARow("gone") /\ moved[r].type = "official"
                             /\ ~Named(moved, r) /\ \A o \in Observations : HandedOver[o] # r
    BY <1>8, <1>9, DropFacts
<1>11. ASSUME NEW r \in Rows
       PROVE  Keeps(x, r) /\ (row[r].type = "unused" => x.after[r] = row[r])
  <2>1. /\ row[r].type \in {"unused", "gone", "official", "own"}
        /\ NotARow("gone").type = "gone"
    BY <1>1, TableRows
  <2>2. CASE r \in Retired
    <3>1. x.after[r] = NotARow("gone")
      BY <1>7, <1>10, <2>2
    <3>2. row[r].type = "official" /\ ~Named(row, r)
      BY <1>3, <2>2
    <3>3. \A o \in Observations : HandedOver[o] # r
      BY <1>4, <1>5, <2>2, <3>2
    <3> QED
      BY <2>1, <3>1, <3>2, <3>3 DEF Keeps, Live, Named
  <2>3. CASE r \notin Retired /\ row[r].type = "own"
    <3>1. Named(row, r) /\ Named(moved, r)
      BY <1>1, <1>7, <2>3 DEF Named
    <3>2. x.after[r] = moved[r]
      BY <1>10, <3>1
    <3>3. /\ x.after[r].type = "official" /\ x.after[r].variant = row[r].variant
          /\ x.after[r].issue = row[r].issue
      <4>1. /\ moved[r].type = "official" /\ moved[r].variant = row[r].variant
            /\ moved[r].issue = row[r].issue
        BY <1>7, <2>3
      <4> QED
        BY <3>2, <4>1
    <3> QED
      BY <2>1, <2>3, <3>1, <3>3 DEF Keeps, Live, Named
  <2>4. CASE r \notin Retired /\ row[r].type = "official"
    <3>1. moved[r] = row[r] /\ ~Named(row, r)
      BY <1>1, <1>7, <2>4
    <3>2. CASE x.after[r] = row[r]
      BY <2>1, <2>4, <3>1, <3>2 DEF Keeps, Live, Named
    <3>3. CASE x.after[r] = NotARow("gone") /\ \A o \in Observations : HandedOver[o] # r
      BY <2>1, <2>4, <3>1, <3>3 DEF Keeps, Live, Named
    <3> QED
      BY <1>10, <3>1, <3>2, <3>3
  <2>5. CASE row[r].type \in {"unused", "gone"}
    <3>1. moved[r] = row[r]
      BY <1>3, <1>7, <2>5
    <3>2. x.after[r] = row[r]
      BY <1>10, <2>5, <3>1
    <3> QED
      BY <2>5, <3>2 DEF Keeps, Live
  <2> QED
    BY <2>1, <2>2, <2>3, <2>4, <2>5
<1>12. ASSUME NEW o \in Observations PROVE Moves(x, o)
  <2>1. CASE hangs[o] \in Retired
    <3>1. hangs[o] \in Rows /\ HandedOver[o] \in Twins(hangs[o])
      BY <1>3, <1>5, <2>1
    <3> QED
      BY <1>2, <1>4, <3>1 DEF Moves
  <2>2. CASE hangs[o] \notin Retired
    BY <1>2, <1>5, <2>2 DEF Moves
  <2> QED
    BY <2>1, <2>2
<1> QED
    BY <1>1, <1>2, <1>6, <1>10, <1>11, <1>12 DEF Plan

-----------------------------------------------------------------------------
(* Markets, collectors and the ECB.                                         *)

LEMMA PlanPrime ==
    /\ \A x : Plan(x)' <=> Plan(x)
    /\ \A table, r : (Live(table, r)' <=> Live(table, r)) /\ (Named(table, r)' <=> Named(table, r))
    BY DEF Plan, Keeps, Moves, Live, Named, Collides, Table, RowValue, LiveRow, NotARow, Rows

\* A step that leaves the catalogue alone.
LEMMA SameCatalogue ==
    ASSUME row' = row, numista' = numista, official' = official
    PROVE  /\ RowsOK' <=> RowsOK
           /\ \A j, x : Names(j, x)' <=> Names(j, x)
           /\ \A x, r : Since(x, r)' <=> Since(x, r)
           /\ \A r : Live(row, r)' <=> Live(row, r)
<1>1. RowsOK' <=> RowsOK
    BY DEF RowsOK, Sorted, Collides, Named, Table, RowValue, LiveRow, NotARow, Rows
<1>2. \A j, x : Names(j, x)' <=> Names(j, x)
    BY DEF Names
<1>3. \A x, r : Since(x, r)' <=> Since(x, r)
    BY DEF Since, Live, Named
<1> QED
    BY <1>1, <1>2, <1>3 DEF Live

\* ... and the market data.
LEMMA SameMarket ==
    ASSUME row' = row, numista' = numista, hangs' = hangs, lost' = lost, late' = late
    PROVE  /\ MarketOK' <=> MarketOK
           /\ \A x, o : Found(x, o)' <=> Found(x, o)
    BY DEF MarketOK, Found, Live, Named, Rows

LEMMA ObserveStep ==
    ASSUME VarInv, NEW q \in Observations, NEW p \in Rows, Observe(q, p)
    PROVE  VarInv'
<1>1. /\ hangs[q] = NoRow /\ q \notin lost /\ p \in Rows /\ Live(row, p)
      /\ hangs' = [hangs EXCEPT ![q] = p]
      /\ late' = IF \A j \in Jobs : session[j] = Idle THEN late ELSE late \cup {q}
      /\ UNCHANGED <<official, numista, row, lost, piece, session, faults>>
      /\ alone' = [j \in Jobs |-> FALSE] /\ NoRow \notin Rows
    BY VariantsAssumption DEF Observe, Committed, Live
<1>2. /\ RowsOK' /\ \A j, x : Names(j, x)' <=> Names(j, x)
      /\ \A x, r : Since(x, r)' <=> Since(x, r)
      /\ \A r : Live(row, r)' <=> Live(row, r)
    BY <1>1, SameCatalogue DEF VarInv
<1>3. /\ hangs' \in [Observations -> Rows \cup {NoRow}] /\ hangs'[q] = p
      /\ \A o \in Observations \ {q} : hangs'[o] = hangs[o]
      /\ late \subseteq late' /\ late' \subseteq Observations
    BY <1>1 DEF VarInv, MarketOK
<1>4. MarketOK'
    BY <1>1, <1>2, <1>3 DEF VarInv, MarketOK, Live
<1>5. Apart'
    BY <1>1 DEF VarInv, Apart
<1>6. SessionsOK'
  <2> SUFFICES ASSUME NEW j \in Jobs, NEW x, session'[j] = x, x # Idle
               PROVE  OpenOK(j, x)'
    BY DEF SessionsOK
  <2>1. OpenOK(j, x) /\ session[j] = x
    BY <1>1 DEF VarInv, SessionsOK
  <2>2. Plan(x)' /\ Names(j, x)' /\ \A r \in Rows : Since(x, r)'
    BY <1>2, <2>1, PlanPrime DEF OpenOK
  <2>3. Undisturbed(j, x)'
    BY <1>1 DEF Undisturbed
  <2>4. ASSUME NEW o \in Observations PROVE Found(x, o)'
    <3>1. Found(x, o)
      BY <2>1 DEF OpenOK
    <3>2. CASE o = q
      <4>1. x.from[q] = NoRow
        BY <1>1, <3>1, <3>2 DEF Found
      <4>2. q \in late'
        BY <1>1, <2>1
      <4> QED
        BY <3>2, <4>1, <4>2 DEF Found
    <3>3. CASE o # q
      BY <1>1, <1>3, <3>1, <3>3 DEF Found, Live, Named
    <3> QED
      BY <3>2, <3>3
  <2>5. (\A r \in Rows : Since(x, r))' /\ (\A o \in Observations : Found(x, o))'
    BY <2>2, <2>4 DEF Rows
  <2> QED
    BY <2>2, <2>3, <2>5 DEF OpenOK
<1> QED
    BY <1>1, <1>2, <1>4, <1>5, <1>6 DEF VarInv

LEMMA CollectStep ==
    ASSUME VarInv, UNCHANGED <<official, numista, row, hangs, lost, late, session>>,
           alone' = [j \in Jobs |-> FALSE] \/ alone' = alone
    PROVE  VarInv'
<1>1. /\ RowsOK' /\ \A j, x : Names(j, x)' <=> Names(j, x)
      /\ \A x, r : Since(x, r)' <=> Since(x, r)
    BY SameCatalogue DEF VarInv
<1>2. /\ MarketOK' /\ \A x, o : Found(x, o)' <=> Found(x, o)
    BY SameMarket DEF VarInv
<1>3. Apart'
    BY DEF VarInv, Apart
<1>4. SessionsOK'
  <2> SUFFICES ASSUME NEW j \in Jobs, NEW x, session'[j] = x, x # Idle
               PROVE  OpenOK(j, x)'
    BY DEF SessionsOK
  <2>1. OpenOK(j, x)
    BY DEF VarInv, SessionsOK
  <2>2. Undisturbed(j, x)'
    BY <2>1 DEF Undisturbed, OpenOK
  <2>3. Plan(x)' /\ Names(j, x)' /\ \A r \in Rows : Since(x, r)'
    BY <1>1, <2>1, PlanPrime DEF OpenOK
  <2>4. \A o \in Observations : Found(x, o)'
    BY <1>2, <2>1 DEF OpenOK
  <2>5. (\A r \in Rows : Since(x, r))' /\ (\A o \in Observations : Found(x, o))'
    BY <2>3, <2>4 DEF Rows
  <2> QED
    BY <2>2, <2>3, <2>5 DEF OpenOK
<1> QED
    BY <1>1, <1>2, <1>3, <1>4 DEF VarInv

LEMMA IngestEcbStep ==
    ASSUME VarInv, IngestEcb
    PROVE  VarInv'
<1>1. /\ row \in Table /\ ~Collides(row) /\ Cardinality(Free(row)) >= Len(Placeholders)
      /\ official' = TRUE /\ row' = EnsurePlaceholder(row)
      /\ UNCHANGED <<numista, hangs, lost, piece, late, session, faults>>
      /\ alone' = [j \in Jobs |-> FALSE]
    BY DEF IngestEcb, Committed, VarInv, RowsOK
<1>2. row' \in Table /\ ~Collides(row') /\ Placed(row, row')
    BY <1>1, PlaceholderAdds
<1>3. ASSUME NEW r \in Rows
      PROVE  \/ row'[r] = row[r]
             \/ /\ row[r].type = "unused" /\ row'[r].type = "official" /\ row'[r].issue = NoIssue
                /\ \A j \in Jobs : session[j] # Idle => session[j].after[r].type = "unused"
    BY <1>2 DEF Placed, Free
<1>4. \A r \in Rows : row[r].type = "unused" => ~Live(row, r)
    BY DEF Live
<1>5. RowsOK'
  <2>1. (row \in Table)' /\ (~Collides(row))'
    BY <1>2 DEF Table, Collides, RowValue, LiveRow, NotARow, Rows
  <2>2. Sorted(row, numista)'
    <3> SUFFICES ASSUME NEW r \in Rows
                 PROVE  /\ row'[r].type = "own" => numista' = "own" /\ row'[r].issue # NoIssue
                        /\ row'[r].type = "official" /\ numista' # "official" =>
                              ~(row'[r].issue # NoIssue)
      BY DEF Sorted, Named, Rows
    <3> QED
      BY <1>1, <1>3 DEF VarInv, RowsOK, Sorted, Named
  <2> QED
    BY <1>1, <2>1, <2>2 DEF VarInv, RowsOK
<1>6. MarketOK'
  <2>1. ASSUME NEW o \in Observations, hangs[o] # NoRow PROVE Live(row', hangs[o])
    <3>1. Live(row, hangs[o]) /\ hangs[o] \in Rows
      BY <2>1 DEF VarInv, MarketOK
    <3> QED
      BY <1>3, <1>4, <3>1 DEF Live
  <2> QED
    BY <1>1, <2>1 DEF VarInv, MarketOK, Live, Rows
<1>7. Apart'
    BY <1>1 DEF VarInv, Apart, Rows
<1>8. SessionsOK'
  <2> SUFFICES ASSUME NEW j \in Jobs, NEW x, session'[j] = x, x # Idle
               PROVE  OpenOK(j, x)'
    BY DEF SessionsOK
  <2>1. OpenOK(j, x) /\ session[j] = x
    BY <1>1 DEF VarInv, SessionsOK
  <2>2. Undisturbed(j, x)'
    BY <1>1 DEF Undisturbed
  <2>3. Plan(x)'
    BY <2>1, PlanPrime DEF OpenOK
  <2>4. Names(j, x)'
    BY <1>1, <2>1 DEF OpenOK, Names
  <2>5. ASSUME NEW r \in Rows PROVE Since(x, r)'
    <3>1. Since(x, r) /\ x.after \in Table /\ x.before \in Table
      BY <2>1 DEF OpenOK, Plan
    <3>2. CASE row'[r] = row[r]
      BY <1>1, <3>1, <3>2 DEF Since, Live, Named
    <3>3. CASE /\ row[r].type = "unused" /\ row'[r].type = "official"
               /\ x.after[r].type = "unused"
      <4>1. x.before[r].type \notin {"gone", "official", "own"}
        BY <3>1, <3>3 DEF Since, Live
      <4>2. x.before[r].type = "unused" /\ x.after[r] = x.before[r]
        BY <3>1, <3>3, <4>1, TableRows
      <4> QED
        BY <4>2 DEF Since, Live
    <3> QED
      BY <1>3, <2>1, <3>2, <3>3
  <2>6. ASSUME NEW o \in Observations PROVE Found(x, o)'
    <3>1. Found(x, o) /\ hangs[o] \in Rows \cup {NoRow} /\ (hangs[o] # NoRow => Live(row, hangs[o]))
      BY <2>1 DEF OpenOK, VarInv, MarketOK
    <3>2. hangs[o] # NoRow => row'[hangs[o]] = row[hangs[o]]
      BY <1>3, <1>4, <3>1
    <3> QED
      BY <1>1, <3>1, <3>2 DEF Found, Live, Named
  <2>7. (\A r \in Rows : Since(x, r))' /\ (\A o \in Observations : Found(x, o))'
    BY <2>5, <2>6 DEF Rows
  <2> QED
    BY <2>2, <2>3, <2>4, <2>7 DEF OpenOK
<1> QED
    BY <1>1, <1>5, <1>6, <1>7, <1>8 DEF VarInv

-----------------------------------------------------------------------------
(* Sessions that begin and that are rolled back.                            *)

LEMMA RollBackStep ==
    ASSUME VarInv, NEW j \in Jobs, RollBack(j)
    PROVE  VarInv'
<1>1. /\ session' = [session EXCEPT ![j] = Idle] /\ alone' = [alone EXCEPT ![j] = FALSE]
      /\ UNCHANGED <<official, numista, row, hangs, lost, piece, late>>
    BY DEF RollBack
<1>2. /\ RowsOK' /\ \A k, x : Names(k, x)' <=> Names(k, x)
      /\ \A x, r : Since(x, r)' <=> Since(x, r)
    BY <1>1, SameCatalogue DEF VarInv
<1>3. /\ MarketOK' /\ \A x, o : Found(x, o)' <=> Found(x, o)
    BY <1>1, SameMarket DEF VarInv
<1>4. \A k \in Jobs : session'[k] = Idle \/ (session'[k] = session[k] /\ alone'[k] = alone[k])
    BY <1>1 DEF VarInv
<1>5. Apart'
    BY <1>4 DEF VarInv, Apart, Rows, Jobs
<1>6. SessionsOK'
  <2> SUFFICES ASSUME NEW k \in Jobs, NEW x, session'[k] = x, x # Idle
               PROVE  OpenOK(k, x)'
    BY DEF SessionsOK, Jobs
  <2>1. OpenOK(k, x) /\ alone'[k] = alone[k]
    BY <1>4 DEF VarInv, SessionsOK
  <2>2. Undisturbed(k, x)'
    BY <1>1, <2>1 DEF Undisturbed, OpenOK
  <2>3. Plan(x)' /\ Names(k, x)' /\ \A r \in Rows : Since(x, r)'
    BY <1>2, <2>1, PlanPrime DEF OpenOK
  <2>4. \A o \in Observations : Found(x, o)'
    BY <1>3, <2>1 DEF OpenOK
  <2>5. (\A r \in Rows : Since(x, r))' /\ (\A o \in Observations : Found(x, o))'
    BY <2>3, <2>4 DEF Rows
  <2> QED
    BY <2>2, <2>3, <2>5 DEF OpenOK
<1>7. alone' \in [Jobs -> BOOLEAN] /\ DOMAIN session' = Jobs
    BY <1>1 DEF VarInv
<1> QED
    BY <1>2, <1>3, <1>5, <1>6, <1>7 DEF VarInv, Jobs

\* A session that has read.
LEMMA DecidedStep ==
    ASSUME VarInv, NEW j \in Jobs, session[j] = Idle, NEW x,
           session' = [session EXCEPT ![j] = x], alone' = [alone EXCEPT ![j] = TRUE],
           UNCHANGED <<official, numista, row, hangs, lost, piece, late, faults>>,
           Plan(x), x.before = row, x.from = hangs, Names(j, x),
           x.merges => numista = "own", ~x.names => numista = x.type,
           \A r \in Rows : row[r].type = "unused" /\ x.after[r] # row[r] => r \in Free(row)
    PROVE  VarInv'
<1>2. /\ RowsOK' /\ \A k, y : Names(k, y)' <=> Names(k, y)
      /\ \A y, r : Since(y, r)' <=> Since(y, r)
    BY SameCatalogue DEF VarInv
<1>3. /\ MarketOK' /\ \A y, o : Found(y, o)' <=> Found(y, o)
    BY SameMarket DEF VarInv
<1>4. /\ session'[j] = x /\ alone'[j] = TRUE
      /\ \A k \in Jobs \ {j} : session'[k] = session[k] /\ alone'[k] = alone[k]
    BY DEF VarInv
<1>5. ASSUME NEW k \in Jobs, NEW y, session'[k] = y, y # Idle
      PROVE  OpenOK(k, y)'
  <2>1. CASE k = j
    <3>1. y = x
      BY <1>4, <1>5, <2>1
    <3>2. Undisturbed(j, x)'
      BY DEF Undisturbed
    <3>3. ASSUME NEW r \in Rows PROVE Since(x, r)'
      <4>1. row \in Table
        BY DEF VarInv, RowsOK
      <4>2. Since(x, r)
        BY <4>1, TableRows DEF Since, Live
      <4> QED
        BY <1>2, <4>2
    <3>4. ASSUME NEW o \in Observations PROVE Found(x, o)'
      <4>1. Found(x, o)
        BY DEF Found
      <4> QED
        BY <1>3, <4>1
    <3>5. (\A r \in Rows : Since(x, r))' /\ (\A o \in Observations : Found(x, o))'
      BY <3>3, <3>4 DEF Rows
    <3>6. Plan(x)' /\ Names(j, x)'
      BY <1>2, PlanPrime
    <3> QED
      BY <2>1, <3>1, <3>2, <3>5, <3>6 DEF OpenOK
  <2>2. CASE k # j
    <3>1. OpenOK(k, y) /\ alone'[k] = alone[k]
      BY <1>4, <1>5, <2>2 DEF VarInv, SessionsOK
    <3>2. Undisturbed(k, y)'
      BY <3>1 DEF Undisturbed, OpenOK
    <3>3. Plan(y)' /\ Names(k, y)' /\ \A r \in Rows : Since(y, r)'
      BY <1>2, <3>1, PlanPrime DEF OpenOK
    <3>4. \A o \in Observations : Found(y, o)'
      BY <1>3, <3>1 DEF OpenOK
    <3>5. (\A r \in Rows : Since(y, r))' /\ (\A o \in Observations : Found(y, o))'
      BY <3>3, <3>4 DEF Rows
    <3> QED
      BY <3>2, <3>3, <3>5 DEF OpenOK
  <2> QED
    BY <2>1, <2>2
<1>6. SessionsOK'
    BY <1>5 DEF SessionsOK, Jobs
<1>7. ASSUME NEW r \in Rows, NEW k \in Jobs \ {j}, session[k] # Idle, x.before[r].type = "unused"
      PROVE  x.after[r].type = "unused" \/ session[k].after[r].type = "unused"
  <2>1. CASE x.after[r] = row[r]
    BY <1>7, <2>1
  <2>2. CASE x.after[r] # row[r]
    <3>1. r \in Free(row)
      BY <1>7, <2>2
    <3> QED
      BY <1>7, <3>1 DEF Free
  <2> QED
    BY <2>1, <2>2
<1>8. Apart'
  <2> SUFFICES ASSUME NEW r \in Rows, NEW k \in Jobs, NEW l \in Jobs, k # l,
                      session'[k] # Idle, session'[l] # Idle,
                      session'[k].before[r].type = "unused", session'[l].before[r].type = "unused"
               PROVE  session'[k].after[r].type = "unused" \/ session'[l].after[r].type = "unused"
    BY DEF Apart, Rows, Jobs
  <2>1. CASE k # j /\ l # j
    BY <1>4, <2>1 DEF VarInv, Apart
  <2>2. CASE k = j
    BY <1>4, <1>7, <2>2
  <2>3. CASE l = j
    BY <1>4, <1>7, <2>3
  <2> QED
    BY <2>1, <2>2, <2>3
<1>9. alone' \in [Jobs -> BOOLEAN] /\ DOMAIN session' = Jobs
    BY DEF VarInv
<1> QED
    BY <1>2, <1>3, <1>6, <1>8, <1>9 DEF VarInv, Jobs

LEMMA IngestNumistaStep ==
    ASSUME VarInv, NEW t \in {"official", "own"}, NEW listed \in Seq(NumistaIssues),
           IngestNumista(t, listed)
    PROVE  VarInv'
<1> DEFINE table == IF listed = <<>> THEN row
                    ELSE DropUnreferenced(UpsertedAll(t, listed), t, hangs)
           x == [type |-> t, names |-> numista # t, merges |-> FALSE,
                 before |-> row, after |-> table, from |-> hangs, to |-> hangs]
<1>1. /\ Describes(t) /\ Cardinality(Free(row)) >= Len(listed)
      /\ session["numista"] = Idle
      /\ session' = [session EXCEPT !["numista"] = x]
      /\ alone' = [alone EXCEPT !["numista"] = TRUE]
      /\ UNCHANGED <<official, numista, row, hangs, lost, piece, late, faults>>
    BY DEF IngestNumista, Decided
<1>2. /\ x.type = t /\ x.names = (numista # t) /\ x.merges = FALSE /\ x.before = row
      /\ x.after = table /\ x.from = hangs /\ x.to = hangs
    OBVIOUS
<1>3. RowsOK /\ MarketOK
    BY DEF VarInv
<1> HIDE DEF x
<1>4. Plan(x) /\ \A r \in Rows : row[r].type = "unused" /\ x.after[r] # row[r] => r \in Free(row)
    BY <1>1, <1>2, <1>3, IngestPlan
<1>5. Names("numista", x)
    BY <1>1, <1>2, <1>3 DEF Names, Describes, RowsOK
<1>6. "numista" \in Jobs
    BY DEF Jobs
<1> HIDE DEF table
<1> QED
    BY <1>1, <1>2, <1>4, <1>5, <1>6, DecidedStep

LEMMA MergeStep ==
    ASSUME VarInv, NEW j \in Jobs, Merge(j)
    PROVE  VarInv'
<1> DEFINE moved == [r \in Rows |-> IF r \in Retired THEN NotARow("gone")
                          ELSE IF row[r].type = "own" THEN [row[r] EXCEPT !.type = "official"]
                          ELSE row[r]]
           x == [type |-> "official", names |-> numista # "official", merges |-> TRUE,
                 before |-> row, after |-> DropUnreferenced(moved, "official", HandedOver),
                 from |-> hangs, to |-> HandedOver]
<1>1. /\ official /\ numista = "own" /\ session[j] = Idle
      /\ session' = [session EXCEPT ![j] = x]
      /\ alone' = [alone EXCEPT ![j] = TRUE]
      /\ UNCHANGED <<official, numista, row, hangs, lost, piece, late, faults>>
    BY DEF Merge, Decided
<1>2. /\ x.type = "official" /\ x.names = TRUE /\ x.merges = TRUE /\ x.before = row
      /\ x.after = DropUnreferenced(moved, "official", HandedOver)
      /\ x.from = hangs /\ x.to = HandedOver
    BY <1>1
<1>3. RowsOK /\ MarketOK
    BY DEF VarInv
<1> HIDE DEF x
<1>4. Plan(x) /\ \A r \in Rows : row[r].type = "unused" => x.after[r] = row[r]
    BY <1>1, <1>2, <1>3, MergePlan
<1>5. Names(j, x)
    BY <1>1, <1>2 DEF Names
<1> HIDE DEF moved
<1> QED
    BY <1>1, <1>2, <1>4, <1>5, DecidedStep

-----------------------------------------------------------------------------
(* A session that is committed.                                             *)

\* Commit, of the session x.
Commits(j, x) ==
    /\ session[j] = x /\ x # Idle
    /\ ~Collides(After(x)) /\ ~Vanished(x)
    /\ row' = After(x)
    /\ numista' = IF x.names THEN x.type ELSE numista
    /\ hangs' = [o \in Observations |->
                    IF (IF x.to[o] # x.from[o] THEN x.to[o] ELSE hangs[o]) \in Dropped(After(x))
                    THEN NoRow ELSE IF x.to[o] # x.from[o] THEN x.to[o] ELSE hangs[o]]
    /\ lost' = lost \cup {o \in Observations :
                    (IF x.to[o] # x.from[o] THEN x.to[o] ELSE hangs[o]) \in Dropped(After(x))}
    /\ session' = [session EXCEPT ![j] = Idle]
    /\ alone' = [k \in Jobs |-> FALSE]
    /\ UNCHANGED <<official, late>>

LEMMA CommitCommits ==
    ASSUME NEW j \in Jobs, Commit(j)
    PROVE  Commits(j, session[j])
    BY DEF Commit, Commits, Refused, Committed

\* The type with Numista's id: a merger found Numista's own, an attachment found none.
LEMMA CommitNames ==
    ASSUME VarInv, NEW j \in Jobs, NEW x, Commits(j, x)
    PROVE  /\ OpenOK(j, x) /\ x.merges \in BOOLEAN /\ x.names \in BOOLEAN
           /\ x.merges => numista = "own" /\ numista' = "official" /\ official
           /\ ~x.merges => /\ j = "numista" /\ (x.type = "official" => official)
                           /\ x.names => numista = "none" /\ numista' = x.type
           /\ ~x.merges /\ ~x.names => /\ numista' = numista
                                       /\ numista = "official" \/ numista = x.type
           /\ numista = "official" => numista' = "official"
           /\ numista' # "own" => \/ x.names
                                  \/ \A r \in Rows : x.after[r].type = "own" =>
                                                     x.before[r].type # "unused"
<1>1. OpenOK(j, x)
    BY DEF VarInv, SessionsOK, Commits
<1>2. /\ x.merges \in BOOLEAN /\ x.names \in BOOLEAN /\ (x.merges => x.names /\ x.type = "official")
      /\ Names(j, x)
    BY <1>1 DEF OpenOK, Plan
<1>3. /\ numista' = IF x.names THEN x.type ELSE numista
      /\ x.merges => numista = "own"
      /\ \/ numista = "own" \/ x.names
         \/ \A r \in Rows : x.after[r].type = "own" => x.before[r].type # "unused"
    BY DEF Commits, Vanished
<1> QED
    BY <1>1, <1>2, <1>3 DEF Names

\* What becomes of a row.
Goes(x, r) ==
    /\ row'[r] = NotARow("gone")
    /\ \/ row[r].type = "gone"
       \/ /\ Live(row, r) /\ Live(x.before, r)
          /\ ~Named(x.before, r) /\ \A o \in Observations : x.to[o] # r
          /\ ~x.merges => x.before[r].type = x.type
       \/ /\ row[r].type = "own" /\ x.before[r].type = "unused" /\ x.merges
Stays(x, r) ==
    /\ Live(row, r) /\ Live(row', r) /\ row'[r] \in LiveRow
    /\ row'[r].variant = row[r].variant
    /\ Named(row, r) => Named(row', r)
    /\ IF x.merges THEN row'[r].type = "official" ELSE row'[r].type = row[r].type
    /\ ~x.merges /\ row'[r] # row[r] => Live(x.before, r) /\ x.before[r].type = x.type
Comes(x, r) ==
    /\ row[r].type = "unused" /\ x.before[r].type = "unused"
    /\ ~x.merges /\ row'[r] = x.after[r] /\ row'[r].type = x.type
    /\ Named(row', r) /\ row'[r] \in LiveRow
Missing(r) == row[r].type = "unused" /\ row'[r] = row[r]

LEMMA WrittenFacts ==
    ASSUME NEW now \in RowValue, NEW old \in RowValue, NEW new \in RowValue
    PROVE  /\ new = old => Written(now, old, new) = now
           /\ now = old => Written(now, old, new) = new
           /\ Written(now, old, new).type = IF new.type # old.type THEN new.type ELSE now.type
           /\ Written(now, old, new).variant
                  = IF new.variant # old.variant THEN new.variant ELSE now.variant
           /\ Written(now, old, new).issue
                  = IF new.issue # old.issue THEN new.issue ELSE now.issue
           /\ Written(now, old, new) \in [type : RowType, variant : Variants \cup {NoVariant},
                                          issue : NumistaIssues \cup {NoIssue}]
<1>1. \A v \in RowValue : /\ v = [type |-> v.type, variant |-> v.variant, issue |-> v.issue]
                          /\ v.type \in RowType /\ v.variant \in Variants \cup {NoVariant}
                          /\ v.issue \in NumistaIssues \cup {NoIssue}
    BY DEF RowValue, LiveRow, NotARow, RowType
<1> HIDE DEF RowValue
<1> QED
    BY <1>1 DEF Written

LEMMA CommitRow ==
    ASSUME VarInv, NEW j \in Jobs, NEW x, Commits(j, x), NEW r \in Rows
    PROVE  Goes(x, r) \/ Stays(x, r) \/ Comes(x, r) \/ Missing(r)
<1>1. /\ Plan(x) /\ Since(x, r) /\ Keeps(x, r) /\ x.merges \in BOOLEAN
      /\ x.merges => numista = "own"
    BY CommitNames DEF OpenOK, Plan
<1> DEFINE a == x.after[r]
           b == x.before[r]
           c == row[r]
           w == Written(c, b, a)
<1>2. a \in RowValue /\ b \in RowValue /\ c \in RowValue
    BY <1>1 DEF Plan, VarInv, RowsOK, Table
<1>3. row'[r] = IF c.type = "gone" \/ w.type = "gone" \/ (x.merges /\ w.type = "own")
                THEN NotARow("gone") ELSE w
    BY DEF Commits, After, Cascades
<1>4. /\ a = b => w = c
      /\ c = b => w = a
      /\ w.type = IF a.type # b.type THEN a.type ELSE c.type
      /\ w.variant = IF a.variant # b.variant THEN a.variant ELSE c.variant
      /\ w.issue = IF a.issue # b.issue THEN a.issue ELSE c.issue
      /\ w \in [type : RowType, variant : Variants \cup {NoVariant},
                issue : NumistaIssues \cup {NoIssue}]
    BY <1>2, WrittenFacts
<1>5. /\ b.type \in {"unused", "gone", "official", "own"}
      /\ c.type \in {"unused", "gone", "official", "own"}
      /\ a.type \in {"unused", "gone", "official", "own"}
      /\ b.type = "unused" => b = NotARow("unused")
      /\ c.type = "unused" => c = NotARow("unused")
      /\ c.type = "gone" => c = NotARow("gone")
      /\ a.type \in {"official", "own"} => a \in LiveRow
      /\ c.type \in {"official", "own"} => c \in LiveRow
    BY <1>2, RowFacts
<1>6. CASE c.type = "gone"
    BY <1>3, <1>6 DEF Goes
<1>7. CASE c.type = "unused"
  <2>1. b.type = "unused"
    BY <1>1, <1>5, <1>7 DEF Since, Live
  <2>2. CASE a = b
    BY <1>3, <1>4, <1>5, <1>7, <2>2 DEF Missing
  <2>3. CASE a # b
    <3>1. a.type = x.type /\ a.issue # NoIssue /\ ~x.merges /\ x.type \in {"official", "own"}
      BY <1>1, <2>1, <2>3 DEF Keeps, Named, Plan
    <3>2. w = a
      BY <1>4, <1>5, <1>7, <2>1
    <3>3. row'[r] = a
      BY <1>3, <1>7, <3>1, <3>2
    <3> HIDE DEF w
    <3>4. /\ row[r].type = "unused" /\ x.before[r].type = "unused" /\ ~x.merges
          /\ row'[r] = x.after[r] /\ x.after[r].type = x.type /\ x.after[r].issue # NoIssue
          /\ x.after[r] \in LiveRow
      BY <1>5, <1>7, <2>1, <3>1, <3>3
    <3> QED
      BY <3>4 DEF Comes, Named
  <2> QED
    BY <2>2, <2>3
<1>8. CASE c.type \in {"official", "own"} /\ b.type = "unused"
  <2>1. a = b
    BY <1>1, <1>8 DEF Since
  <2>2. CASE x.merges /\ c.type = "own"
    BY <1>3, <1>4, <1>8, <2>1, <2>2 DEF Goes
  <2>3. CASE ~x.merges \/ c.type = "official"
    <3>1. row'[r] = c
      BY <1>3, <1>4, <1>8, <2>1, <2>3
    <3> QED
      BY <1>1, <1>5, <1>8, <2>3, <3>1 DEF Stays, Live, Named
  <2> QED
    BY <1>8, <2>2, <2>3, <1>1
<1>9. CASE c.type \in {"official", "own"} /\ b.type \in {"official", "own"}
  <2>1. /\ c.variant = b.variant /\ (Named(x.before, r) => Named(row, r))
        /\ c.type # b.type => b.type = "own" /\ c.type = "official" /\ ~x.merges
    BY <1>1, <1>9 DEF Since, Live
  <2>2. CASE a.type = "gone"
    <3>1. row'[r] = NotARow("gone")
      BY <1>3, <1>4, <1>9, <2>2
    <3>2. ~Named(x.before, r) /\ \A o \in Observations : x.to[o] # r
      BY <1>1, <1>9, <2>2 DEF Keeps, Live
    <3>3. ~x.merges => b.type = x.type
      <4>1. a # b
        BY <1>9, <2>2
      <4> QED
        BY <1>1, <1>9, <4>1 DEF Keeps, Live
    <3> QED
      BY <1>9, <3>1, <3>2, <3>3 DEF Goes, Live
  <2>3. CASE a.type # "gone"
    <3>1. /\ a.type \in {"official", "own"} /\ a.variant = b.variant
          /\ b.issue # NoIssue => a.issue # NoIssue
          /\ IF x.merges THEN a.type = "official" ELSE a.type = b.type
          /\ ~x.merges /\ b.type # x.type => a = b
      BY <1>1, <1>9, <2>3 DEF Keeps, Live, Named
    <3>2. w.variant = c.variant /\ (c.issue # NoIssue => w.issue # NoIssue)
      BY <1>4, <2>1, <3>1
    <3>3. IF x.merges THEN w.type = "official" ELSE w.type = c.type
      BY <1>1, <1>4, <1>9, <2>1, <3>1
    <3>4. row'[r] = w
      BY <1>1, <1>3, <1>9, <3>3
    <3>5. w.type \in {"official", "own"} /\ w.variant \in Variants
      <4>1. c.variant \in Variants
        BY <1>5, <1>9 DEF LiveRow
      <4> QED
        BY <1>1, <1>9, <3>2, <3>3, <4>1
    <3>6. w \in LiveRow
      BY <1>4, <3>5 DEF LiveRow
    <3>7. ~x.merges /\ w # c => b.type = x.type
      BY <1>4, <3>1
    <3> HIDE DEF w
    <3> QED
      BY <1>1, <1>9, <3>2, <3>3, <3>4, <3>5, <3>6, <3>7 DEF Stays, Live, Named
  <2> QED
    BY <2>2, <2>3
<1> QED
  <2>1. b.type # "gone" \/ c.type = "gone"
    BY <1>1 DEF Since
  <2> QED
    BY <1>5, <1>6, <1>7, <1>8, <1>9, <2>1

\* The catalogue after it.
LEMMA CommitRowsOK ==
    ASSUME VarInv, NEW j \in Jobs, NEW x, Commits(j, x)
    PROVE  RowsOK'
<1>1. /\ RowsOK /\ x.type \in {"official", "own"} /\ official' = official
      /\ x.merges \in BOOLEAN /\ x.names \in BOOLEAN
      /\ numista' = IF x.names THEN x.type ELSE numista
      /\ row' = After(x) /\ ~Collides(After(x))
    BY CommitNames DEF VarInv, OpenOK, Plan, Commits
<1>2. /\ x.merges => numista = "own" /\ numista' = "official" /\ official
      /\ ~x.merges => (x.type = "official" => official)
      /\ ~x.merges /\ x.names => numista = "none" /\ numista' = x.type
      /\ ~x.merges /\ ~x.names => /\ numista' = numista
                                  /\ numista = "official" \/ numista = x.type
    BY CommitNames
<1>3. \A r \in Rows : /\ row[r].type = "own" => numista = "own" /\ Named(row, r)
                      /\ row[r].type = "official" => official
                      /\ row[r].type = "official" /\ numista # "official" => ~Named(row, r)
    BY <1>1 DEF RowsOK, Sorted
<1>4. ASSUME NEW r \in Rows
      PROVE  /\ row'[r] \in RowValue
             /\ row'[r].type = "own" => numista' = "own" /\ row'[r].issue # NoIssue
             /\ row'[r].type = "official" => official
             /\ row'[r].type = "official" /\ numista' # "official" => ~(row'[r].issue # NoIssue)
  <2>1. CASE Goes(x, r)
    BY <2>1 DEF Goes, RowValue, NotARow
  <2>2. CASE Stays(x, r)
    <3>1. Named(row', r) <=> row'[r].issue # NoIssue
      BY DEF Named
    <3>2. /\ row[r].type \in {"official", "own"} /\ row'[r].type \in {"official", "own"}
          /\ row'[r] \in LiveRow /\ (Named(row, r) => Named(row', r))
          /\ IF x.merges THEN row'[r].type = "official" ELSE row'[r].type = row[r].type
          /\ ~x.merges /\ row'[r] # row[r] => Live(x.before, r) /\ x.before[r].type = x.type
      BY <2>2 DEF Stays, Live
    <3>3. row'[r] \in RowValue
      BY <3>2 DEF RowValue
    <3>4. row'[r].type = "own" => numista' = "own" /\ row'[r].issue # NoIssue
      BY <1>1, <1>2, <1>3, <3>1, <3>2
    <3>5. row'[r].type = "official" => official
      BY <1>1, <1>2, <1>3, <3>2
    <3>6. ASSUME row'[r].type = "official", numista' # "official" PROVE ~Named(row', r)
      <4>1. ~x.merges /\ row[r].type = "official" /\ numista # "official"
        BY <1>1, <1>2, <3>2, <3>6
      <4>2. x.type = "own"
        BY <1>1, <1>2, <3>6, <4>1
      <4>3. row'[r] = row[r]
        <5>1. SUFFICES ASSUME row'[r] # row[r] PROVE FALSE
          OBVIOUS
        <5>2. Live(x.before, r) /\ x.before[r].type = "own"
          BY <3>2, <4>1, <4>2, <5>1
        <5>3. Since(x, r)
          BY CommitNames DEF OpenOK
        <5> QED
          BY <4>1, <5>2, <5>3 DEF Since
      <4> QED
        BY <1>3, <4>1, <4>3 DEF Named
    <3> QED
      BY <3>1, <3>3, <3>4, <3>5, <3>6
  <2>3. CASE Comes(x, r)
    <3>1. /\ ~x.merges /\ row'[r].type = x.type /\ row'[r].issue # NoIssue
          /\ row'[r] \in LiveRow /\ x.after[r].type = x.type /\ x.before[r].type = "unused"
      BY <2>3 DEF Comes, Named
    <3>2. x.type = "own" => numista' = "own"
      BY <1>1, <1>2, <3>1, CommitNames
    <3>3. numista' # "official" => x.type = "own"
      BY <1>1, <1>2, <3>1
    <3> QED
      BY <1>2, <3>1, <3>2, <3>3 DEF RowValue
  <2>4. CASE Missing(r)
    BY <1>1, <2>4 DEF Missing, RowsOK, Table
  <2> QED
    BY <2>1, <2>2, <2>3, <2>4, CommitRow
<1>5. (row \in Table)'
  <2>1. row' = [r \in Rows |-> row'[r]]
    BY <1>1 DEF After
  <2> HIDE DEF RowValue
  <2>2. row' \in [Rows -> RowValue]
    BY <1>4, <2>1
  <2> QED
    BY <2>2 DEF Table, RowValue, LiveRow, NotARow, Rows
<1>6. (~Collides(row))'
    BY <1>1 DEF Collides, Rows
<1>7. Sorted(row, numista)'
    BY <1>4 DEF Sorted, Named, Rows
<1>8. /\ numista' \in {"none", "own", "official"} /\ official' \in BOOLEAN
      /\ numista' = "official" => official'
    BY <1>1, <1>2 DEF RowsOK
<1> QED
    BY <1>1, <1>4, <1>5, <1>6, <1>7, <1>8 DEF RowsOK, Rows

\* Market data after it: where an observation hangs, and which are lost.
Handed(x, o) ==
    /\ x.merges /\ x.to[o] # x.from[o] /\ hangs'[o] = x.to[o]
    /\ hangs[o] = x.from[o] /\ hangs[o] # NoRow
    /\ x.to[o] \in Rows /\ row[x.to[o]].type = "own" /\ Live(row', x.to[o])
    /\ row'[x.to[o]].variant = row[x.from[o]].variant
Unmoved(x, o) ==
    /\ hangs'[o] = hangs[o] /\ x.to[o] = x.from[o]
    /\ hangs[o] # NoRow => /\ Live(row', hangs[o])
                           /\ row'[hangs[o]].variant = row[hangs[o]].variant
Left(x, o) ==
    /\ hangs'[o] = NoRow /\ hangs[o] # NoRow /\ x.to[o] = x.from[o]
    /\ row'[hangs[o]].type = "gone" /\ o \in late

LEMMA CommitMarket ==
    ASSUME VarInv, NEW j \in Jobs, NEW x, Commits(j, x), NEW o \in Observations
    PROVE  /\ Handed(x, o) \/ Unmoved(x, o) \/ Left(x, o)
           /\ o \in lost' <=> o \in lost \/ Left(x, o)
<1>1. /\ Plan(x) /\ Found(x, o) /\ Moves(x, o) /\ x.merges \in BOOLEAN
      /\ \A r \in Rows : Since(x, r) /\ Keeps(x, r)
      /\ x.merges => numista = "own"
    BY CommitNames DEF OpenOK, Plan
<1>2. /\ hangs[o] \in Rows \cup {NoRow} /\ NoRow \notin Rows
      /\ hangs[o] # NoRow => Live(row, hangs[o])
      /\ x.from[o] \in Rows \cup {NoRow} /\ x.to[o] \in Rows \cup {NoRow}
    BY <1>1, VariantsAssumption DEF VarInv, MarketOK, Plan
<1> DEFINE on == IF x.to[o] # x.from[o] THEN x.to[o] ELSE hangs[o]
<1>3. /\ hangs'[o] = (IF on \in Rows /\ row'[on].type = "gone" THEN NoRow ELSE on)
      /\ o \in lost' <=> o \in lost \/ (on \in Rows /\ row'[on].type = "gone")
    BY DEF Commits, Dropped
<1>4. \A r \in Rows : Goes(x, r) \/ Stays(x, r) \/ Comes(x, r) \/ Missing(r)
    BY CommitRow
<1>5. CASE x.to[o] # x.from[o]
  <2>1. /\ x.merges /\ x.from[o] # NoRow /\ x.to[o] \in Rows /\ x.before[x.to[o]].type = "own"
        /\ x.before[x.to[o]].variant = x.before[x.from[o]].variant
        /\ Live(x.before, x.from[o]) /\ Live(x.before, x.to[o])
        /\ hangs[o] = x.from[o] /\ numista = "own" /\ x.from[o] \in Rows
    BY <1>1, <1>2, <1>5 DEF Moves, Found, Live
  <2>2. /\ row[x.to[o]].type # "gone" /\ row[x.from[o]].type # "gone"
    BY <1>1, <2>1 DEF Since
  <2>3. /\ Live(row, x.to[o]) /\ row[x.to[o]].type = "own"
        /\ row[x.to[o]].variant = x.before[x.to[o]].variant
        /\ row[x.from[o]].variant = x.before[x.from[o]].variant
    BY <1>1, <2>1, <2>2 DEF Since
  <2>4. Stays(x, x.to[o])
    <3>1. ~Goes(x, x.to[o])
      BY <2>1, <2>2 DEF Goes
    <3>2. ~Comes(x, x.to[o]) /\ ~Missing(x.to[o])
      BY <2>3 DEF Comes, Missing
    <3> QED
      BY <1>4, <2>1, <3>1, <3>2
  <2>5. /\ Live(row', x.to[o]) /\ row'[x.to[o]].type # "gone"
        /\ row'[x.to[o]].variant = row[x.to[o]].variant
    BY <2>4 DEF Stays, Live
  <2>6. Handed(x, o) /\ (o \in lost' <=> o \in lost)
    BY <1>3, <1>5, <2>1, <2>3, <2>5 DEF Handed
  <2>7. ~Left(x, o)
    BY <1>5 DEF Left
  <2> QED
    BY <2>6, <2>7
<1>6. CASE x.to[o] = x.from[o] /\ hangs[o] = NoRow
    BY <1>2, <1>3, <1>6 DEF Unmoved, Left
<1>7. CASE x.to[o] = x.from[o] /\ hangs[o] # NoRow
  <2>1. hangs[o] \in Rows /\ Live(row, hangs[o])
    BY <1>2, <1>7
  <2>2. Goes(x, hangs[o]) \/ Stays(x, hangs[o])
    BY <1>4, <2>1 DEF Comes, Missing, Live
  <2>3. CASE Stays(x, hangs[o])
    <3>1. /\ Live(row', hangs[o]) /\ row'[hangs[o]].type # "gone"
          /\ row'[hangs[o]].variant = row[hangs[o]].variant
      BY <2>3 DEF Stays, Live
    <3> QED
      BY <1>3, <1>7, <2>1, <3>1 DEF Unmoved, Left
  <2>4. CASE Goes(x, hangs[o])
    <3>1. row'[hangs[o]].type = "gone"
      BY <2>4 DEF Goes, NotARow
    <3>2. \/ /\ Live(x.before, hangs[o])
             /\ ~Named(x.before, hangs[o]) /\ x.to[o] # hangs[o]
          \/ x.before[hangs[o]].type = "unused" /\ x.merges
      BY <2>1, <2>4 DEF Goes, Live
    <3>3. x.from[o] = NoRow
      <4>1. SUFFICES ASSUME x.from[o] # NoRow PROVE FALSE
        OBVIOUS
      <4>2. Live(x.before, x.from[o])
        BY <1>1, <4>1 DEF Moves
      <4>3. CASE /\ Live(x.before, hangs[o])
                 /\ ~Named(x.before, hangs[o]) /\ x.to[o] # hangs[o]
        BY <1>1, <1>7, <4>1, <4>3 DEF Found
      <4>4. CASE x.before[hangs[o]].type = "unused" /\ x.merges
        BY <1>1, <1>7, <4>1, <4>2, <4>4 DEF Found, Live
      <4> QED
        BY <3>2, <4>3, <4>4
    <3>4. o \in late
      BY <1>1, <1>7, <3>3 DEF Found
    <3> QED
      BY <1>3, <1>7, <2>1, <3>1, <3>4 DEF Left
  <2> QED
    BY <2>2, <2>3, <2>4
<1> QED
    BY <1>5, <1>6, <1>7

LEMMA CommitMarketOK ==
    ASSUME VarInv, NEW j \in Jobs, NEW x, Commits(j, x)
    PROVE  MarketOK'
<1>1. \A o \in Observations : /\ Handed(x, o) \/ Unmoved(x, o) \/ Left(x, o)
                              /\ o \in lost' <=> o \in lost \/ Left(x, o)
    BY CommitMarket
<1>2. /\ late' = late /\ late \subseteq Observations /\ lost \subseteq late
      /\ lost' \subseteq Observations /\ hangs \in [Observations -> Rows \cup {NoRow}]
      /\ \A o \in lost : hangs[o] = NoRow
    BY DEF VarInv, MarketOK, Commits
<1>3. ASSUME NEW o \in Observations
      PROVE  /\ hangs'[o] \in Rows \cup {NoRow}
             /\ hangs'[o] # NoRow => Live(row', hangs'[o])
             /\ o \in lost' => hangs'[o] = NoRow /\ o \in late
    BY <1>1, <1>2 DEF Handed, Unmoved, Left
<1>4. hangs' \in [Observations -> Rows \cup {NoRow}]
  <2>1. hangs' = [o \in Observations |-> hangs'[o]]
    BY DEF Commits
  <2> QED
    BY <1>3, <2>1
<1>5. /\ lost' \subseteq late'
      /\ \A o \in Observations : hangs'[o] # NoRow => Live(row', hangs'[o])
    BY <1>2, <1>3
<1> QED
    BY <1>2, <1>3, <1>4, <1>5 DEF MarketOK, Live, Rows

\* What it leaves of the other session.
LEMMA CommitOther ==
    ASSUME VarInv, NEW j \in Jobs, NEW x, Commits(j, x),
           NEW k \in Jobs \ {j}, NEW y, session[k] = y, y # Idle
    PROVE  OpenOK(k, y)'
<1>1. /\ OpenOK(k, y) /\ Plan(y) /\ Names(k, y) /\ y.merges \in BOOLEAN /\ y.names \in BOOLEAN
      /\ \A r \in Rows : Since(y, r) /\ Keeps(y, r)
      /\ \A o \in Observations : Found(y, o) /\ Moves(y, o)
    BY DEF VarInv, SessionsOK, OpenOK, Plan
<1>2. /\ x.merges \in BOOLEAN /\ x.names \in BOOLEAN
      /\ \A r \in Rows : Since(x, r) /\ Keeps(x, r)
      /\ x.merges => numista = "own" /\ numista' = "official" /\ official
      /\ ~x.merges => /\ j = "numista"
                      /\ x.names => numista = "none" /\ numista' = x.type
      /\ ~x.merges /\ ~x.names => /\ numista' = numista
                                  /\ numista = "official" \/ numista = x.type
      /\ numista = "official" => numista' = "official"
    BY CommitNames DEF OpenOK, Plan
<1>3. official' = official /\ alone'[k] = FALSE
    BY DEF Commits
<1>4. \A r \in Rows : Goes(x, r) \/ Stays(x, r) \/ Comes(x, r) \/ Missing(r)
    BY CommitRow
<1>5. \A o \in Observations : /\ Handed(x, o) \/ Unmoved(x, o) \/ Left(x, o)
                              /\ o \in lost' <=> o \in lost \/ Left(x, o)
    BY CommitMarket
\* While the merger of y may go on, x wrote to Numista's own type.
<1>6. ASSUME y.merges, numista' = "own" PROVE ~x.merges /\ numista = "own" /\ x.type = "own"
    BY <1>1, <1>2, <1>6 DEF Names
<1>7. Names(k, y)'
  <2>1. CASE y.merges
    <3>1. numista # "none" /\ official
      BY <1>1, <2>1 DEF Names
    <3>2. numista' # "none"
      BY <1>2, <3>1
    <3> QED
      BY <1>3, <2>1, <3>1, <3>2 DEF Names
  <2>2. CASE ~y.merges
    <3>1. /\ k = "numista" /\ (y.type = "official" => official)
          /\ IF y.names THEN numista = "none" ELSE numista = "official" \/ numista = y.type
      BY <1>1, <2>2 DEF Names
    <3>2. x.merges
      BY <1>2, <3>1
    <3> QED
      BY <1>2, <1>3, <2>2, <3>1, <3>2 DEF Names
  <2> QED
    BY <1>1, <2>1, <2>2
<1>8. ASSUME NEW r \in Rows PROVE Since(y, r)'
  <2>1. Since(y, r) /\ Keeps(y, r)
    BY <1>1
  <2>2. y.before[r].type = "gone" => row'[r].type = "gone"
    BY <1>4, <2>1 DEF Since, Goes, Stays, Comes, Missing, Live, NotARow
  <2>3. ASSUME Live(y.before, r), row'[r].type # "gone"
        PROVE  /\ Live(row', r) /\ row'[r].variant = y.before[r].variant
               /\ Named(y.before, r) => Named(row', r)
               /\ row'[r].type # y.before[r].type =>
                     y.before[r].type = "own" /\ row'[r].type = "official" /\ numista' = "official"
    <3>1. row[r].type # "gone"
      BY <1>4, <2>3 DEF Goes, Stays, Comes, Missing, Live, NotARow
    <3>2. /\ Live(row, r) /\ row[r].variant = y.before[r].variant
          /\ Named(y.before, r) => Named(row, r)
          /\ row[r].type # y.before[r].type =>
                y.before[r].type = "own" /\ row[r].type = "official" /\ numista = "official"
      BY <2>1, <2>3, <3>1 DEF Since
    <3>3. Stays(x, r)
      BY <1>4, <2>3, <3>2 DEF Goes, Comes, Missing, Live, NotARow
    <3>4. row[r].type = "own" \/ row[r].type = "official"
      BY <3>2 DEF Live
    <3> QED
      BY <1>2, <3>2, <3>3, <3>4 DEF Stays
  <2>4. ASSUME y.before[r].type = "unused", y.after[r] # y.before[r]
        PROVE  row'[r].type = "unused"
    <3>1. row[r].type = "unused"
      BY <2>1, <2>4 DEF Since
    <3>2. y.after[r].type # "unused"
      <4>1. y.after \in Table /\ y.before \in Table
        BY <1>1 DEF Plan
      <4> QED
        BY <2>4, <4>1, TableRows
    <3>3. ~Comes(x, r)
      <4>1. SUFFICES ASSUME Comes(x, r) PROVE FALSE
        OBVIOUS
      <4>2. /\ x.before[r].type = "unused" /\ x.after[r] \in LiveRow
            /\ session[j] = x /\ x # Idle
        BY <4>1 DEF Comes, Commits
      <4>3. x.after[r].type # "unused"
        BY <4>2 DEF LiveRow
      <4> QED
        BY <2>4, <3>2, <4>2, <4>3 DEF VarInv, Apart
    <3> QED
      BY <1>4, <3>1, <3>3 DEF Goes, Stays, Missing, Live
  <2>5. ASSUME y.merges, numista' = "own", Live(y.before, r) PROVE row'[r].type # "gone"
    <3>1. ~x.merges /\ numista = "own" /\ x.type = "own" /\ row[r].type # "gone"
      BY <1>6, <2>1, <2>5 DEF Since
    <3>2. ~Goes(x, r)
      <4>1. SUFFICES ASSUME Goes(x, r) PROVE FALSE
        OBVIOUS
      <4>2. Live(x.before, r) /\ ~Named(x.before, r) /\ x.before[r].type = "own"
        BY <3>1, <4>1 DEF Goes
      <4> QED
        BY <1>2, <4>2 DEF Keeps
    <3> QED
      BY <1>4, <3>1, <3>2 DEF Stays, Comes, Missing, Live, LiveRow
  <2> QED
    BY <2>2, <2>3, <2>4, <2>5 DEF Since, Live, Named
<1>9. ASSUME NEW o \in Observations PROVE Found(y, o)'
  <2>1. Found(y, o) /\ Moves(y, o)
    BY <1>1
  <2>2. hangs[o] \in Rows \cup {NoRow} /\ late' = late
    BY DEF VarInv, MarketOK, Commits
  <2>3. CASE Handed(x, o)
    <3>1. /\ x.merges /\ hangs'[o] = x.to[o] /\ hangs[o] = x.from[o] /\ hangs[o] # NoRow
          /\ x.to[o] \in Rows /\ row[x.to[o]].type = "own"
          /\ row'[x.to[o]].variant = row[x.from[o]].variant
          /\ hangs'[o] # NoRow /\ numista' = "official" /\ numista = "own"
      BY <1>2, <2>3, VariantsAssumption DEF Handed
    <3>2. y.from[o] # NoRow => row'[hangs'[o]].variant = y.before[y.from[o]].variant
      BY <2>1, <3>1 DEF Found
    <3>3. Live(y.before, hangs'[o]) => Named(y.before, hangs'[o])
      <4>1. SUFFICES ASSUME Live(y.before, x.to[o]) PROVE Named(y.before, x.to[o])
        BY <3>1
      <4>2. y.before[x.to[o]].type = "own"
        BY <1>1, <3>1, <4>1 DEF Since
      <4> QED
        BY <1>1, <3>1, <4>2 DEF Keeps
    <3> QED
      BY <2>1, <2>2, <3>1, <3>2, <3>3 DEF Found, Live, Named
  <2>4. CASE Unmoved(x, o)
    <3>1. /\ hangs'[o] = hangs[o]
          /\ hangs[o] # NoRow => row'[hangs[o]].variant = row[hangs[o]].variant
          /\ o \in lost => o \in lost'
      BY <1>5, <2>4 DEF Unmoved
    <3>2. y.merges /\ numista' = "own" => numista = "own"
      BY <1>6
    <3> QED
      BY <1>2, <2>1, <2>2, <3>1, <3>2 DEF Found, Live, Named
  <2>5. CASE Left(x, o)
    <3>1. hangs'[o] = NoRow /\ hangs[o] # NoRow /\ row'[hangs[o]].type = "gone" /\ o \in lost'
      BY <1>5, <2>5 DEF Left
    <3>2. ~(y.merges /\ numista' = "own" /\ y.from[o] # NoRow)
      <4>1. SUFFICES ASSUME y.merges, numista' = "own", y.from[o] # NoRow PROVE FALSE
        OBVIOUS
      <4>2. hangs[o] = y.from[o] /\ Live(y.before, hangs[o]) /\ hangs[o] \in Rows
        BY <1>6, <2>1, <2>2, <3>1, <4>1 DEF Found, Moves
      <4>3. PICK r \in Rows : r = hangs[o]
        BY <4>2
      <4>4. Since(y, r)'
        BY <1>8
      <4> QED
        BY <3>1, <4>1, <4>2, <4>3, <4>4 DEF Since, Live
    <3> QED
      BY <3>1, <3>2 DEF Found
  <2> QED
    BY <1>5, <2>3, <2>4, <2>5
<1>10. Plan(y)' /\ Undisturbed(k, y)'
    BY <1>1, <1>3, PlanPrime DEF Undisturbed
<1>11. (\A r \in Rows : Since(y, r))' /\ (\A o \in Observations : Found(y, o))'
    BY <1>8, <1>9 DEF Rows
<1> QED
    BY <1>7, <1>10, <1>11 DEF OpenOK

LEMMA CommitStep ==
    ASSUME VarInv, NEW j \in Jobs, Commit(j)
    PROVE  VarInv'
<1>1. Commits(j, session[j])
    BY CommitCommits
<1>2. RowsOK' /\ MarketOK'
    BY <1>1, CommitRowsOK, CommitMarketOK
<1>3. \A k \in Jobs : session'[k] = Idle \/ (session'[k] = session[k] /\ k # j)
    BY <1>1 DEF VarInv, Commits
<1>4. SessionsOK'
  <2> SUFFICES ASSUME NEW k \in Jobs, NEW y, session'[k] = y, y # Idle
               PROVE  OpenOK(k, y)'
    BY DEF SessionsOK, Jobs
  <2>1. k \in Jobs \ {j} /\ session[k] = y
    BY <1>3
  <2> QED
    BY <1>1, <2>1, CommitOther
<1>5. Apart'
    BY <1>3 DEF VarInv, Apart, Rows, Jobs
<1>6. alone' \in [Jobs -> BOOLEAN] /\ DOMAIN session' = Jobs
    BY <1>1 DEF VarInv, Commits
<1> QED
    BY <1>2, <1>4, <1>5, <1>6 DEF VarInv, Jobs

-----------------------------------------------------------------------------
(* The specification.                                                       *)

LEMMA VarInvInit == Init => VarInv
<1> SUFFICES ASSUME Init PROVE VarInv
    OBVIOUS
<1>1. /\ official = FALSE /\ numista = "none" /\ row = [r \in Rows |-> NotARow("unused")]
      /\ hangs = [o \in Observations |-> NoRow] /\ lost = {} /\ late = {}
      /\ session = [j \in Jobs |-> Idle] /\ alone = [j \in Jobs |-> FALSE]
    BY DEF Init
<1>2. \A r \in Rows : /\ row[r].type = "unused" /\ row[r].variant = NoVariant
                      /\ row[r].issue = NoIssue
    BY <1>1 DEF NotARow
<1>3. row \in Table
    BY <1>1 DEF Table, RowValue
<1>4. RowsOK
    BY <1>1, <1>2, <1>3 DEF RowsOK, Collides, Sorted
<1>5. MarketOK
    BY <1>1 DEF MarketOK
<1> QED
    BY <1>1, <1>4, <1>5 DEF VarInv, Apart, SessionsOK

LEMMA VarInvStep == VarInv /\ [Next]_vars => VarInv'
<1> SUFFICES ASSUME VarInv, [Next]_vars PROVE VarInv'
    OBVIOUS
<1>1. ASSUME NEW r \in Rows, NEW o \in Observations, Observe(o, r) PROVE VarInv'
    BY <1>1, ObserveStep
<1>2. ASSUME NEW r \in Rows, NEW p \in Pieces, Collect(p, r) PROVE VarInv'
    BY <1>2, CollectStep DEF Collect, Committed
<1>3. CASE IngestEcb
    BY <1>3, IngestEcbStep
<1>4. ASSUME NEW t \in {"official", "own"}, NEW k \in DOMAIN Answers, IngestNumista(t, Answers[k])
      PROVE  VarInv'
  <2>1. Answers[k] \in Seq(NumistaIssues)
    BY VariantsAssumption
  <2> QED
    BY <1>4, <2>1, IngestNumistaStep
<1>5. ASSUME NEW j \in Jobs, Merge(j) \/ Commit(j) PROVE VarInv'
    BY <1>5, MergeStep, CommitStep
<1>6. ASSUME NEW j \in Jobs, Refuse(j) \/ Abort(j) PROVE VarInv'
    BY <1>6, RollBackStep DEF Refuse, Abort
<1>7. CASE UNCHANGED vars
    BY <1>7, CollectStep DEF vars, jobVars
<1> QED
    BY <1>1, <1>2, <1>3, <1>4, <1>5, <1>6, <1>7 DEF Next

\* The rows of a coin: of the types that are there, no two of one variant in a type, none
\* with the id of another, and every observation off a row that is there
\* (uq_coin_issue_variant and the foreign keys, kept by ingest_ecb_entries,
\* ingest_numista_type and merge_types however they interleave).
THEOREM Constraints == Spec => [](RowsOK /\ MarketOK)
<1>1. VarInv => RowsOK /\ MarketOK
    BY DEF VarInv
<1> QED
    BY <1>1, VarInvInit, VarInvStep, PTL DEF Spec

\* Pieces of collectors, observations and rows are well typed, and no row is without its type and
\* no observation without its row: a merge leaves none of its type's rows behind, one that is
\* inserted meanwhile included (merge_types, uq_coin_issue_variant).
THEOREM NothingDangles == Spec => []TypeOK
<1> DEFINE Rest == piece \in [Pieces -> Rows \cup {NoRow}] /\ faults \in 0..MaxFaults
<1>1. Init => Rest
    BY VariantsAssumption DEF Init
<1>2. Rest /\ [Next]_vars => Rest'
  <2> SUFFICES ASSUME Rest, [Next]_vars PROVE Rest'
    OBVIOUS
  <2>1. ASSUME NEW p \in Pieces, NEW q \in Rows, Collect(p, q) PROVE Rest'
    BY <2>1 DEF Collect
  <2>2. ASSUME NEW j \in Jobs, Abort(j) PROVE Rest'
    BY <2>2, VariantsAssumption DEF Abort, RollBack
  <2>3. ASSUME NEW c, NEW d, NEW j,
               \/ Observe(c, d) \/ IngestEcb \/ IngestNumista(c, d) \/ Merge(j) \/ Commit(j)
               \/ Refuse(j) \/ UNCHANGED vars
        PROVE  Rest'
    <3>1. piece' = piece /\ faults' = faults
      <4>1. CASE Observe(c, d) \/ IngestEcb
        BY <4>1, Zenon DEF Observe, IngestEcb
      <4>2. CASE IngestNumista(c, d) \/ Merge(j)
        BY <4>2, Zenon DEF IngestNumista, Merge, Decided
      <4>3. CASE Commit(j)
        BY <4>3, Zenon DEF Commit
      <4>4. CASE Refuse(j)
        BY <4>4, Zenon DEF Refuse, RollBack
      <4>5. CASE UNCHANGED vars
        BY <4>5 DEF vars, jobVars
      <4> QED
        BY <2>3, <4>1, <4>2, <4>3, <4>4, <4>5
    <3> QED
      BY <3>1
  <2> QED
    BY <2>1, <2>2, <2>3 DEF Next
<1>3. VarInv /\ Rest => TypeOK
  <2> SUFFICES ASSUME VarInv, Rest PROVE TypeOK
    OBVIOUS
  <2>1. row \in [Rows -> Row]
    <3>1. RowValue \subseteq Row
      BY VariantsAssumption DEF RowValue, LiveRow, NotARow, Row, RowType
    <3> QED
      BY <3>1 DEF VarInv, RowsOK, Table
  <2>2. /\ official \in BOOLEAN /\ numista \in {"none", "own", "official"}
        /\ \A r \in Rows : /\ row[r].type = "own" => numista = "own"
                           /\ row[r].type = "official" => official
    BY Zenon DEF VarInv, RowsOK, Sorted
  <2>3. /\ hangs \in [Observations -> Rows \cup {NoRow}] /\ lost \subseteq Observations
        /\ \A o \in Observations : hangs[o] # NoRow => row[hangs[o]].type \in {"official", "own"}
        /\ late \subseteq Observations
    BY Zenon DEF VarInv, MarketOK, Live
  <2> QED
    BY <2>1, <2>2, <2>3, Zenon DEF TypeOK
<1> QED
    BY <1>1, <1>2, <1>3, VarInvInit, VarInvStep, PTL DEF Spec

\* No observation is lost but one that was recorded while the session that deleted its row
\* was open: no ingestion and no merge deletes market data it could see.
THEOREM Kept == Spec => []LostOnlyWhenLate
<1>1. VarInv => LostOnlyWhenLate
    BY DEF VarInv, MarketOK, LostOnlyWhenLate
<1> QED
    BY <1>1, VarInvInit, VarInvStep, PTL DEF Spec

\* Whatever is merged, adopted or retired, an observation hangs off a row of the variant it
\* was recorded for.
THEOREM VariantKept == Spec => SameVariant
<1> DEFINE A == \A o \in Observations : hangs[o] # NoRow /\ hangs'[o] # NoRow
                   => row'[hangs'[o]].variant = row[hangs[o]].variant
<1>1. VarInv /\ [Next]_vars => [A]_vars
  <2> SUFFICES ASSUME VarInv, Next, NEW o \in Observations, hangs[o] # NoRow, hangs'[o] # NoRow
               PROVE  row'[hangs'[o]].variant = row[hangs[o]].variant
    OBVIOUS
  <2>1. hangs \in [Observations -> Rows \cup {NoRow}] /\ Live(row, hangs[o]) /\ hangs[o] \in Rows
    BY DEF VarInv, MarketOK
  <2>2. ASSUME NEW r \in Rows, NEW q \in Observations, Observe(q, r)
        PROVE  row'[hangs'[o]].variant = row[hangs[o]].variant
    BY <2>1, <2>2 DEF Observe
  <2>3. CASE IngestEcb
    <3>1. /\ row \in Table /\ ~Collides(row) /\ Cardinality(Free(row)) >= Len(Placeholders)
          /\ row' = EnsurePlaceholder(row) /\ hangs' = hangs
      BY <2>3 DEF IngestEcb, VarInv, RowsOK
    <3>2. Placed(row, row')
      BY <3>1, PlaceholderAdds
    <3>3. row'[hangs[o]] = row[hangs[o]]
      BY <2>1, <3>2 DEF Placed, Free, Live
    <3> QED
      BY <3>1, <3>3
  <2>4. ASSUME NEW j \in Jobs, Commit(j) PROVE row'[hangs'[o]].variant = row[hangs[o]].variant
    <3>1. Commits(j, session[j])
      BY <2>4, CommitCommits
    <3>2. \/ Handed(session[j], o) \/ Unmoved(session[j], o) \/ Left(session[j], o)
      BY <3>1, CommitMarket
    <3> QED
      BY <3>2 DEF Handed, Unmoved, Left
  <2>5. CASE UNCHANGED <<row, hangs>>
    BY <2>5
  <2>6. \/ \E r \in Rows, q \in Observations : Observe(q, r)
        \/ IngestEcb
        \/ \E j \in Jobs : Commit(j)
        \/ UNCHANGED <<row, hangs>>
    BY DEF Next, Collect, IngestNumista, Merge, Decided, Refuse, Abort, RollBack
  <2> QED
    BY <2>2, <2>3, <2>4, <2>5, <2>6
<1>2. [][A]_vars => SameVariant
    BY PTL DEF SameVariant
<1> QED
    BY <1>1, <1>2, VarInvInit, VarInvStep, PTL DEF Spec

\* A session to which nothing happened since it read meets the catalogue as it left it.
LEMMA AloneWrites ==
    ASSUME VarInv, NEW j \in Jobs, NEW x, session[j] = x, x # Idle, alone[j]
    PROVE  ~Collides(After(x)) /\ ~Vanished(x)
<1>1. /\ Plan(x) /\ row = x.before /\ (x.merges => numista = "own")
      /\ ~x.names => numista = x.type
      /\ \A r \in Rows : Keeps(x, r)
    BY DEF VarInv, SessionsOK, OpenOK, Undisturbed, Plan
<1>2. row \in Table /\ x.after \in Table
    BY <1>1 DEF Plan
<1>3. ASSUME NEW r \in Rows PROVE After(x)[r] = x.after[r]
  <2>1. /\ row[r] \in RowValue /\ x.after[r] \in RowValue
    BY <1>2 DEF Table
  <2>2. Written(row[r], x.before[r], x.after[r]) = x.after[r]
    BY <1>1, <2>1, WrittenFacts
  <2>3. After(x)[r] = IF row[r].type = "gone" \/ x.after[r].type = "gone"
                         \/ (x.merges /\ x.after[r].type = "own")
                      THEN NotARow("gone") ELSE x.after[r]
    BY <2>2 DEF After, Cascades
  <2>4. /\ row[r].type \in {"unused", "gone", "official", "own"}
        /\ row[r].type = "gone" => row[r] = NotARow("gone")
        /\ x.after[r].type = "gone" => x.after[r] = NotARow("gone")
    BY <2>1, RowFacts
  <2>5. row[r].type = "gone" => x.after[r] = NotARow("gone")
    BY <1>1, <2>4 DEF Keeps
  <2>6. ~(x.merges /\ x.after[r].type = "own")
    <3>1. SUFFICES ASSUME x.merges, x.after[r].type = "own" PROVE FALSE
      OBVIOUS
    <3>2. CASE Live(row, r)
      BY <1>1, <3>1, <3>2 DEF Keeps
    <3>3. CASE row[r].type = "unused"
      BY <1>1, <3>1, <3>3 DEF Keeps
    <3>4. CASE row[r].type = "gone"
      BY <1>1, <2>4, <2>5, <3>1, <3>4 DEF NotARow
    <3> QED
      BY <2>4, <3>2, <3>3, <3>4 DEF Live
  <2> QED
    BY <2>3, <2>4, <2>5, <2>6
<1>4. ~Collides(After(x))
  <2>1. ~Collides(x.after)
    BY <1>1 DEF Plan
  <2> QED
    BY <1>3, <2>1 DEF Collides
<1>5. ~Vanished(x)
  <2>1. ~(x.merges /\ numista # "own")
    BY <1>1
  <2>2. ASSUME numista # "own", ~x.names, NEW r \in Rows,
               x.after[r].type = "own", x.before[r].type = "unused"
        PROVE  FALSE
    BY <1>1, <2>2 DEF Keeps
  <2>3. ASSUME NEW r \in Rows, row[r].type = "gone", x.after[r].type # "gone",
               x.after[r] # x.before[r]
        PROVE  FALSE
    BY <1>1, <2>3 DEF Keeps
  <2> QED
    BY <2>1, <2>2, <2>3 DEF Vanished
<1> QED
    BY <1>4, <1>5

\* A session to which nothing happened since it read is refused only for a collector's piece:
\* the writes that merge_types and ingest_numista_type decide never collide among themselves.
THEOREM AloneCommits == Spec => []AloneGoesThrough
<1>1. VarInv => AloneGoesThrough
  <2> SUFFICES ASSUME VarInv, NEW j \in Jobs, session[j] # Idle, alone[j],
                      Refused(session[j], After(session[j]))
               PROVE  Restricted(After(session[j]))
    BY DEF AloneGoesThrough
  <2>1. ~Collides(After(session[j])) /\ ~Vanished(session[j])
    BY AloneWrites
  <2> QED
    BY <2>1 DEF Refused
<1> QED
    BY <1>1, VarInvInit, VarInvStep, PTL DEF Spec

-----------------------------------------------------------------------------
(* Which listing is which coin: functions that collect what can be reached.  *)

\* f collects, along nxt, what end says of the points of D.
Collects(f, D, nxt, end) == f = [x \in D |-> end[x] \cup UNION { f[y] : y \in nxt[x] }]

\* There is such an f: a thing is collected at x unless some set that holds x, and what comes
\* after, is without it.
LEMMA CollectExists ==
    ASSUME NEW D, NEW nxt, NEW end, \A x \in D : nxt[x] \in SUBSET D
    PROVE  \E f : Collects(f, D, nxt, end)
<1> DEFINE Without(G, r) == G \subseteq D /\ \A y \in G : nxt[y] \subseteq G /\ r \notin end[y]
           R == UNION { end[x] : x \in D }
           Hidden(x, r) == \E G \in SUBSET D : Without(G, r) /\ x \in G
           f == [x \in D |-> { r \in R : ~Hidden(x, r) }]
<1>1. \A x \in D : f[x] = { r \in R : ~Hidden(x, r) }
    OBVIOUS
<1>2. ASSUME NEW x \in D PROVE f[x] = end[x] \cup UNION { f[y] : y \in nxt[x] }
  <2> HIDE DEF f
  <2>1. ASSUME NEW r \in end[x] PROVE r \in f[x]
    <3>1. r \in R /\ ~Hidden(x, r)
      OBVIOUS
    <3> HIDE DEF R, Hidden
    <3> QED
      BY <1>1, <3>1
  <2>2. ASSUME NEW y \in nxt[x], NEW r \in f[y] PROVE r \in f[x]
    <3>1. y \in D /\ r \in R /\ ~Hidden(y, r)
      BY <1>1
    <3>2. ~Hidden(x, r)
      BY <3>1
    <3> HIDE DEF R, Hidden
    <3> QED
      BY <1>1, <3>1, <3>2
  <2>3. ASSUME NEW r \in f[x], r \notin end[x], \A y \in nxt[x] : r \notin f[y] PROVE FALSE
    <3>1. r \in R /\ ~Hidden(x, r)
      BY <1>1
    <3> DEFINE G == { y \in D : Hidden(y, r) } \cup {x}
    <3>2. \A y \in nxt[x] : y \in D /\ Hidden(y, r)
      <4> HIDE DEF R, Hidden
      <4> QED
        BY <1>1, <2>3, <3>1
    <3>3. ASSUME NEW y \in D, Hidden(y, r) PROVE r \notin end[y] /\ \A z \in nxt[y] : Hidden(z, r)
      <4>1. PICK H \in SUBSET D : Without(H, r) /\ y \in H
        BY <3>3
      <4> QED
        BY <4>1
    <3>4. Without(G, r) /\ x \in G /\ G \in SUBSET D
      <4>1. ASSUME NEW y \in G PROVE nxt[y] \subseteq G /\ r \notin end[y]
        <5>1. CASE y = x
          <6> HIDE DEF Hidden
          <6> QED
            BY <2>3, <3>2, <5>1
        <5>2. CASE y \in D /\ Hidden(y, r)
          <6> HIDE DEF Hidden
          <6> QED
            BY <3>3, <5>2
        <5> QED
          BY <5>1, <5>2
      <4> HIDE DEF Hidden
      <4> QED
        BY <4>1
    <3> HIDE DEF G
    <3> QED
      BY <3>1, <3>4
  <2> QED
    BY <2>1, <2>2, <2>3
<1>3. f = [x \in D |-> end[x] \cup UNION { f[y] : y \in nxt[x] }]
  <2> DEFINE e == [x \in D |-> end[x] \cup UNION { f[y] : y \in nxt[x] }]
  <2>1. \A x \in D : e[x] = end[x] \cup UNION { f[y] : y \in nxt[x] }
    OBVIOUS
  <2>2. DOMAIN e = D /\ e = [x \in DOMAIN e |-> e[x]]
    OBVIOUS
  <2>3. DOMAIN f = D /\ f = [x \in DOMAIN f |-> f[x]]
    OBVIOUS
  <2>4. \A x \in D : e[x] = f[x]
    <3> HIDE DEF e, f
    <3> QED
      BY <1>2, <2>1
  <2>5. e = f
    <3> HIDE DEF e, f
    <3> QED
      BY <2>2, <2>3, <2>4
  <2> QED
    BY <2>5
<1> HIDE DEF f
<1> QED
    BY <1>3 DEF Collects

\* A set of subsets of a finite set has one that no other is larger than.
LEMMA LargestOf ==
    ASSUME NEW U, IsFiniteSet(U), NEW B, B \subseteq SUBSET U, B # {}
    PROVE  \E T \in B : \A V \in B : T \subseteq V => V = T
<1> DEFINE C == { U \ T : T \in B }
<1>1. IsWellFoundedOn(StrictSubsetOrdering(U), SUBSET U)
    BY FS_StrictSubsetOrderingWellFounded, FS_FiniteSubsetsOfFinite
<1>2. C \subseteq SUBSET U /\ C # {}
  <2>1. PICK T : T \in B
    OBVIOUS
  <2>2. U \ T \in C
    BY <2>1
  <2>3. \A x \in C : x \subseteq U
    OBVIOUS
  <2> HIDE DEF C
  <2> QED
    BY <2>2, <2>3
<1> HIDE DEF C
<1>3. PICK x \in C : \A y \in C : ~(<<y, x>> \in StrictSubsetOrdering(U))
    BY <1>1, <1>2, WFMin
<1>4. PICK T \in B : x = U \ T
    BY DEF C
<1>5. ASSUME NEW V \in B, T \subseteq V PROVE V = T
  <2>1. U \ V \in C /\ U \ V \subseteq x
    BY <1>4, <1>5 DEF C
  <2>2. U \ V = x
    BY <1>2, <1>3, <2>1 DEF StrictSubsetOrdering
  <2> QED
    BY <1>4, <1>5, <2>2
<1> QED
    BY <1>5

-----------------------------------------------------------------------------
(* The pairs that are right, and what a pass of link_by_elimination adds.    *)

Truths == { <<c, Truth[c]>> : c \in Coins }
ScoresOK(score) == score \in [Pairs -> 0..100]

\* Every coin whose listing reaches the threshold for pairs has it, and none has another.
Right(score, links) ==
    /\ links \subseteq Truths
    /\ \A c \in Coins : score[c, Truth[c]] >= PairThreshold => <<c, Truth[c]>> \in links

LEMMA TruthFacts ==
    /\ Truths \subseteq Pairs
    /\ \A c \in Coins : Truth[c] \in Listings /\ Truth[c] \notin Editions
    /\ \A c \in Coins : \A d \in Coins : Truth[c] = Truth[d] => c = d
    /\ \A p \in Truths : p[1] \in Coins /\ p[2] = Truth[p[1]] /\ p = <<p[1], p[2]>>
    BY LinkingAssumption DEF Truths, Pairs

LEMMA ThresholdFacts ==
    /\ LinkThreshold \in 1..100 /\ PairThreshold \in 1..100 /\ LeftoverThreshold \in 1..100
    /\ DuplicateThreshold \in 1..100
    /\ LeftoverThreshold <= PairThreshold /\ PairThreshold <= LinkThreshold
    /\ PairThreshold <= DuplicateThreshold
    BY LinkingAssumption

LEMMA ScoreFacts ==
    ASSUME NEW score, ScoresOK(score)
    PROVE  \A c \in Coins, n \in Listings : score[c, n] \in 0..100
    BY DEF ScoresOK, Pairs

\* Scores are scores.
LEMMA GroupsTyped == ASSUME NEW t \in Groups PROVE ScoresOK(t.coming) /\ ScoresOK(t.base)
<1> DEFINE Good == [coming : 0..100, base : 0..100]
           both == [coming |-> LinkThreshold, base |-> LinkThreshold]
<1>1. PICK a \in Agreements :
         t = [coming |-> [p \in Pairs |-> a[p].coming], base |-> [p \in Pairs |-> a[p].base]]
    BY DEF Groups
<1>2. both \in Good /\ Levels \subseteq Good
    BY ThresholdFacts, LinkingAssumption
<1>3. PICK f \in [Coins \X ((Listings \ Editions) \ Classics) -> { l \in Levels : l.coming >= l.base }],
          g \in [Coins \X Classics -> Levels] : a = Agreement(f, g)
    BY DEF Agreements
<1>4. /\ \A p \in DOMAIN f : f[p] \in Levels
      /\ \A p \in DOMAIN g : g[p] \in Levels
    OBVIOUS
<1>5. a = [p \in Pairs |-> IF p \in DOMAIN f THEN f[p] ELSE IF p \in DOMAIN g THEN g[p] ELSE both]
    BY <1>3, Zenon DEF Agreement
<1> HIDE DEF both, Good
<1>6. \A p \in Pairs : a[p] \in Good
    BY <1>2, <1>4, <1>5
<1>7. \A p \in Pairs : a[p].coming \in 0..100 /\ a[p].base \in 0..100
    BY <1>6 DEF Good
<1> QED
    BY <1>1, <1>7 DEF ScoresOK

\* A coin that is left has its listing left.
LEMMA TruthLeft ==
    ASSUME NEW links, links \subseteq Truths, NEW c \in LeftCoins(Coins, links)
    PROVE  c \in Coins /\ Truth[c] \in LeftListings(Listings, links)
<1>1. c \in Coins /\ ~\E p \in links : p[1] = c
    BY DEF LeftCoins, CoinsOf
<1>2. ASSUME NEW p \in links, p[2] = Truth[c] PROVE FALSE
  <2>1. p[1] \in Coins /\ p[2] = Truth[p[1]]
    BY TruthFacts
  <2>2. p[1] = c
    BY <1>1, <1>2, <2>1, TruthFacts
  <2> QED
    BY <1>1, <2>2
<1> QED
    BY <1>1, <1>2, TruthFacts DEF LeftListings, ListingsOf

\* What LeftCoins and LeftListings are parts of.
LEMMA LeftFacts ==
    ASSUME NEW links
    PROVE  /\ LeftCoins(Coins, links) \subseteq Coins
           /\ LeftListings(Listings, links) \subseteq Listings \ Editions
           /\ \A c \in Coins : c \notin LeftCoins(Coins, links) => \E p \in links : p[1] = c
    BY DEF LeftCoins, LeftListings, CoinsOf

\* _pair_by_similarity, opened up.
Related(score, es, ns) == { p \in es \X ns : score[p] >= PairThreshold }
FreeOf(all, done) == { p \in all : \A q \in done : ~Clash(p, q) /\ p # q }
BestFree(score, free) == { p \in free : \A q \in free : score[q] <= score[p] }
Greedy(f, score, all) ==
    f = [done \in SUBSET all |->
            IF FreeOf(all, done) = {} THEN {done}
            ELSE UNION { f[done \cup {p}] : p \in BestFree(score, FreeOf(all, done)) }]

LEMMA PairBySimilarityIs ==
    ASSUME NEW score, NEW es, NEW ns
    PROVE  PairBySimilarity(score, es, ns)
              = (CHOOSE f : Greedy(f, score, Related(score, es, ns)))[{}]
    BY DEF PairBySimilarity, Greedy, Related, FreeOf, BestFree

LEMMA GreedyExists ==
    ASSUME NEW score, NEW all
    PROVE  Greedy(CHOOSE f : Greedy(f, score, all), score, all)
<1> DEFINE nxt == [done \in SUBSET all |->
                      { done \cup {p} : p \in BestFree(score, FreeOf(all, done)) }]
           end == [done \in SUBSET all |-> IF FreeOf(all, done) = {} THEN {done} ELSE {}]
<1>1. \A done \in SUBSET all : nxt[done] \in SUBSET (SUBSET all)
    BY DEF BestFree, FreeOf
<1>2. PICK f : Collects(f, SUBSET all, nxt, end)
  <2> HIDE DEF nxt, end
  <2> QED
    BY <1>1, CollectExists
<1>3. f = [done \in SUBSET all |-> end[done] \cup UNION { f[y] : y \in nxt[done] }]
    BY <1>2 DEF Collects
<1>4. ASSUME NEW done \in SUBSET all
      PROVE  end[done] \cup UNION { f[y] : y \in nxt[done] }
                = IF FreeOf(all, done) = {} THEN {done}
                  ELSE UNION { f[done \cup {p}] : p \in BestFree(score, FreeOf(all, done)) }
  <2>1. CASE FreeOf(all, done) = {}
    <3>1. BestFree(score, FreeOf(all, done)) = {}
      BY <2>1 DEF BestFree
    <3> QED
      BY <2>1, <3>1
  <2>2. CASE FreeOf(all, done) # {}
    BY <2>2
  <2> QED
    BY <2>1, <2>2
<1> HIDE DEF nxt, end
<1>5. Greedy(f, score, all)
    BY <1>3, <1>4 DEF Greedy
<1> QED
    BY <1>5

\* The best pair that is free is right.
LEMMA BestIsRight ==
    ASSUME NEW score, ScoresOK(score), TellsLeft(score),
           NEW es \in SUBSET Coins, NEW ns \in SUBSET (Listings \ Editions),
           \A c \in es : Truth[c] \in ns,
           NEW done \in SUBSET Related(score, es, ns), done \subseteq Truths,
           NEW p \in BestFree(score, FreeOf(Related(score, es, ns), done))
    PROVE  p \in Truths
<1> DEFINE c == p[1]
           n == p[2]
           q == <<c, Truth[c]>>
<1>1. /\ p \in Related(score, es, ns) /\ p = <<c, n>> /\ c \in es /\ n \in ns
      /\ \A r \in done : ~Clash(p, r)
      /\ \A r \in FreeOf(Related(score, es, ns), done) : score[r] <= score[p]
    BY DEF BestFree, FreeOf, Related
<1>2. SUFFICES ASSUME n # Truth[c] PROVE FALSE
    BY <1>1 DEF Truths
<1>3. score[q] > score[p] /\ score[p] \in 0..100 /\ score[q] \in 0..100
  <2>1. score[c, Truth[c]] > score[c, n]
    BY <1>1, <1>2 DEF TellsLeft
  <2>2. p \in Pairs /\ q \in Pairs
    BY <1>1 DEF Pairs
  <2> QED
    BY <1>1, <2>1, <2>2 DEF ScoresOK
<1>4. q \in Related(score, es, ns)
  <2>1. score[p] >= PairThreshold /\ PairThreshold \in 0..100
    BY <1>1, ThresholdFacts DEF Related
  <2>2. q \in es \X ns
    BY <1>1
  <2> HIDE DEF q
  <2>3. score[q] >= PairThreshold
    BY <1>3, <2>1
  <2> QED
    BY <2>2, <2>3 DEF Related
<1>5. ASSUME NEW r \in done, Clash(q, r) \/ q = r PROVE FALSE
  <2>1. r[1] \in Coins /\ r[2] = Truth[r[1]] /\ r = <<r[1], r[2]>>
    BY TruthFacts
  <2>2. r[1] = c
    BY <1>1, <1>5, <2>1, TruthFacts DEF Clash
  <2> QED
    BY <1>1, <2>2 DEF Clash
<1>6. q \in FreeOf(Related(score, es, ns), done)
  <2> HIDE DEF q
  <2> QED
    BY <1>4, <1>5 DEF FreeOf
<1>7. score[q] <= score[p]
  <2> HIDE DEF q
  <2> QED
    BY <1>1, <1>6
<1> HIDE DEF q
<1> QED
    BY <1>3, <1>7

\* Choosing never leaves K.
Stable(K, score, all) ==
    /\ K \subseteq SUBSET all
    /\ \A done \in K : \A p \in BestFree(score, FreeOf(all, done)) : done \cup {p} \in K

\* Pairing goes on from sets of pairs to larger ones, and stays where each choice stays.
LEMMA GreedyStays ==
    ASSUME NEW score, NEW all, IsFiniteSet(all), NEW f, Greedy(f, score, all),
           NEW K, Stable(K, score, all)
    PROVE  \A done \in K : \A m \in f[done] : m \in K /\ done \subseteq m
<1> DEFINE Fine(done) == \A m \in f[done] : m \in K /\ done \subseteq m
           B == { done \in K : ~Fine(done) }
<1>0. /\ K \subseteq SUBSET all
      /\ \A done \in K : \A p \in BestFree(score, FreeOf(all, done)) : done \cup {p} \in K
    BY DEF Stable
<1>1. \A done \in SUBSET all :
         f[done] = IF FreeOf(all, done) = {} THEN {done}
                   ELSE UNION { f[done \cup {p}] : p \in BestFree(score, FreeOf(all, done)) }
    BY DEF Greedy
<1>2. ASSUME NEW done \in K, \A p \in BestFree(score, FreeOf(all, done)) : Fine(done \cup {p})
      PROVE  Fine(done)
  <2>1. CASE FreeOf(all, done) = {}
    <3>1. f[done] = {done}
      BY <1>0, <1>1, <2>1
    <3> QED
      BY <3>1
  <2>2. CASE FreeOf(all, done) # {}
    <3>1. f[done] = UNION { f[done \cup {p}] : p \in BestFree(score, FreeOf(all, done)) }
      BY <1>0, <1>1, <2>2
    <3>2. ASSUME NEW m \in f[done] PROVE m \in K /\ done \subseteq m
      <4>1. PICK p \in BestFree(score, FreeOf(all, done)) : m \in f[done \cup {p}]
        BY <3>1
      <4>2. Fine(done \cup {p})
        BY <1>2
      <4> QED
        BY <4>1, <4>2
    <3> QED
      BY <3>2
  <2> QED
    BY <2>1, <2>2
<1>3. SUFFICES ASSUME B # {} PROVE FALSE
    OBVIOUS
<1>4. B \subseteq SUBSET all
    BY <1>0
<1>5. PICK done \in B : \A V \in B : done \subseteq V => V = done
  <2> HIDE DEF B
  <2> QED
    BY <1>3, <1>4, LargestOf
<1>6. ASSUME NEW p \in BestFree(score, FreeOf(all, done)) PROVE Fine(done \cup {p})
  <2>1. p \in all /\ p \notin done
    BY DEF BestFree, FreeOf
  <2>2. done \cup {p} \in K
    BY <1>0
  <2>3. done \cup {p} \notin B
    <3> HIDE DEF B
    <3> QED
      BY <1>5, <2>1
  <2> HIDE DEF Fine
  <2> QED
    BY <2>2, <2>3
<1> HIDE DEF Fine
<1> QED
    BY <1>2, <1>6

LEMMA RelatedFinite ==
    ASSUME NEW score, NEW es \in SUBSET Coins, NEW ns \in SUBSET Listings
    PROVE  IsFiniteSet(Related(score, es, ns)) /\ Related(score, es, ns) \subseteq es \X ns
<1>1. IsFiniteSet(Coins) /\ IsFiniteSet(Listings)
    BY LinkingAssumption
<1>2. IsFiniteSet(es) /\ IsFiniteSet(ns)
    BY <1>1, FS_Subset
<1>3. IsFiniteSet(es \X ns)
    BY <1>2, FS_Product
<1> QED
    BY <1>3, FS_Subset DEF Related

\* Whatever the titles, only what is left is paired.
LEMMA PairsAreLeft ==
    ASSUME NEW score, NEW es \in SUBSET Coins, NEW ns \in SUBSET Listings
    PROVE  \A m \in PairBySimilarity(score, es, ns) : m \subseteq es \X ns
<1> DEFINE all == Related(score, es, ns)
           f == CHOOSE g : Greedy(g, score, all)
           K == SUBSET all
<1>1. Stable(K, score, all)
    BY DEF BestFree, FreeOf, Stable
<1>2. \A done \in K : \A m \in f[done] : m \in K /\ done \subseteq m
  <2>1. Greedy(f, score, all) /\ IsFiniteSet(all)
    BY GreedyExists, RelatedFinite
  <2> HIDE DEF f, all, K
  <2> QED
    BY <1>1, <2>1, GreedyStays
<1>3. {} \in K
    OBVIOUS
<1>4. \A m \in f[{}] : m \in K
  <2> HIDE DEF f, all, K
  <2> QED
    BY <1>2, <1>3
<1> QED
    BY <1>4, PairBySimilarityIs, RelatedFinite

\* What _pair_by_similarity pairs is right, and it pairs something if anything is related.
LEMMA PairsRight ==
    ASSUME NEW score, ScoresOK(score), TellsLeft(score),
           NEW es \in SUBSET Coins, NEW ns \in SUBSET (Listings \ Editions),
           \A c \in es : Truth[c] \in ns
    PROVE  \A m \in PairBySimilarity(score, es, ns) :
              /\ m \subseteq Truths /\ m \subseteq es \X ns
              /\ m = {} => Related(score, es, ns) = {}
<1> DEFINE all == Related(score, es, ns)
           f == CHOOSE g : Greedy(g, score, all)
           K == { done \in SUBSET all : done \subseteq Truths }
<1>1. \A done \in K : \A p \in BestFree(score, FreeOf(all, done)) : done \cup {p} \in K
  <2> SUFFICES ASSUME NEW done \in K, NEW p \in BestFree(score, FreeOf(all, done))
               PROVE  done \cup {p} \in K
    OBVIOUS
  <2>1. p \in Truths
    BY BestIsRight
  <2>2. p \in all
    BY DEF BestFree, FreeOf
  <2> QED
    BY <2>1, <2>2
<1>2. Greedy(f, score, all) /\ IsFiniteSet(all)
    BY GreedyExists, RelatedFinite
<1>3. \A done \in K : \A m \in f[done] : m \in K /\ done \subseteq m
  <2>1. Stable(K, score, all)
    BY <1>1 DEF Stable
  <2> HIDE DEF f, all, K
  <2> QED
    BY <1>2, <2>1, GreedyStays
<1>4. ASSUME NEW m \in f[{}]
      PROVE  m \subseteq Truths /\ m \subseteq es \X ns /\ (m = {} => all = {})
  <2>1. {} \in K
    OBVIOUS
  <2>2. m \in K
    <3> HIDE DEF f, all, K
    <3> QED
      BY <1>3, <2>1
  <2>3. ASSUME all # {} PROVE m # {}
    <3>1. FreeOf(all, {}) = all /\ {} \in SUBSET all
      BY DEF FreeOf
    <3>2. m \in UNION { f[{} \cup {p}] : p \in BestFree(score, all) }
      <4> HIDE DEF f, all, K
      <4>1. f[{}] = UNION { f[{} \cup {p}] : p \in BestFree(score, FreeOf(all, {})) }
        BY <1>2, <2>3, <3>1 DEF Greedy
      <4> QED
        BY <3>1, <4>1
    <3>3. PICK p \in BestFree(score, all) : m \in f[{} \cup {p}]
      BY <3>2
    <3>4. {} \cup {p} \in K
      <4>1. p \in BestFree(score, FreeOf(all, {}))
        <5> HIDE DEF all
        <5> QED
          BY <3>1, <3>3
      <4> HIDE DEF f, all, K
      <4> QED
        BY <1>1, <2>1, <4>1
    <3>5. {} \cup {p} \subseteq m
      <4> HIDE DEF f, all, K
      <4> QED
        BY <1>3, <3>3, <3>4
    <3> QED
      BY <3>5
  <2> QED
    BY <2>2, <2>3, RelatedFinite
<1> QED
    BY <1>4, PairBySimilarityIs

\* A pass keeps what is right right, and ends only where nothing related is left.
States == [links : SUBSET (Coins \X Listings), crowded : BOOLEAN]
LEMMA PassRight ==
    ASSUME NEW score, ScoresOK(score), TellsLeft(score),
           NEW g \in States, g.links \subseteq Truths,
           NEW h \in LinkPass(score, Coins, Listings, g)
    PROVE  /\ h \in States /\ h.links \subseteq Truths /\ g.links \subseteq h.links
           /\ h.links = g.links => Right(score, g.links)
<1> DEFINE es == LeftCoins(Coins, g.links)
           ns == LeftListings(Listings, g.links)
           lone == Cardinality(es) = 1 /\ Cardinality(ns) = 1
           pair == CHOOSE p \in es \X ns : TRUE
           merged == IF es = {} \/ ns = {} THEN {{}}
                     ELSE IF lone THEN Lone(score, pair, g.crowded)
                     ELSE PairBySimilarity(score, es, ns)
<1>1. PICK m \in merged :
         h = [links |-> g.links \cup m, crowded |-> g.crowded \/ (es # {} /\ ns # {} /\ ~lone)]
    BY DEF LinkPass
<1>2. /\ es \subseteq Coins /\ ns \subseteq Listings \ Editions
      /\ \A c \in es : Truth[c] \in ns
      /\ \A c \in Coins : c \notin es => <<c, Truth[c]>> \in g.links
  <2>1. ASSUME NEW c \in Coins, c \notin es PROVE <<c, Truth[c]>> \in g.links
    <3>1. PICK p \in g.links : p[1] = c
      BY <2>1, LeftFacts
    <3> QED
      BY <3>1, TruthFacts
  <2> QED
    BY <2>1, LeftFacts, TruthLeft
<1>3. h.links = g.links \cup m /\ h.crowded \in BOOLEAN
  <2>1. h.links = g.links \cup m
    BY <1>1
  <2>2. h.crowded = (g.crowded \/ (es # {} /\ ns # {} /\ ~lone))
    BY <1>1
  <2>3. h.crowded \in BOOLEAN
    <3> HIDE DEF es, ns, lone
    <3> QED
      BY <2>2
  <2> QED
    BY <2>1, <2>3
<1>4. /\ m \subseteq Truths /\ m \subseteq es \X ns
      /\ m = {} => \A c \in es : ~(score[c, Truth[c]] >= PairThreshold)
  <2>1. CASE es = {} \/ ns = {}
    <3>1. m = {} /\ es = {}
      BY <1>1, <1>2, <2>1
    <3> QED
      BY <3>1
  <2>2. CASE es # {} /\ ns # {} /\ lone
    <3>1. m \in Lone(score, pair, g.crowded)
      BY <1>1, <2>2
    <3>2. pair \in es \X ns
      <4>1. PICK c, n : c \in es /\ n \in ns
        BY <2>2
      <4>2. <<c, n>> \in es \X ns
        BY <4>1
      <4> HIDE DEF es, ns
      <4> QED
        BY <4>2
    <3>3. \A a, b \in ns : a = b
      <4>1. IsFiniteSet(ns)
        BY <1>2, LinkingAssumption, FS_Subset
      <4>2. PICK n : ns = {n}
        <5> HIDE DEF ns
        <5> QED
          BY <2>2, <4>1, FS_Singleton
      <4> QED
        BY <4>2
    <3>4. \A a, b \in es : a = b
      <4>1. IsFiniteSet(es)
        BY <1>2, LinkingAssumption, FS_Subset
      <4>2. PICK c : es = {c}
        <5> HIDE DEF es
        <5> QED
          BY <2>2, <4>1, FS_Singleton
      <4> QED
        BY <4>2
    <3> HIDE DEF es, ns, pair
    <3>5. pair[1] \in es /\ pair[2] = Truth[pair[1]] /\ pair = <<pair[1], Truth[pair[1]]>>
      BY <1>2, <3>2, <3>3
    <3>6. pair \in Truths
      BY <1>2, <3>5 DEF Truths
    <3>7. m \in { {pair}, {} } /\ (m = {} => ~(score[pair] >= LeftoverThreshold))
      BY <3>1 DEF Lone
    <3>8. ASSUME m = {}, NEW c \in es PROVE ~(score[c, Truth[c]] >= PairThreshold)
      <4>1. c = pair[1] /\ ~(score[pair] >= LeftoverThreshold)
        BY <3>4, <3>5, <3>7, <3>8
      <4>2. score[pair] \in 0..100
        <5>1. pair \in Pairs
          BY <1>2, <3>2 DEF Pairs
        <5> QED
          BY <5>1 DEF ScoresOK
      <4>3. ~(score[pair] >= PairThreshold)
        BY <4>1, <4>2, ThresholdFacts
      <4> QED
        BY <3>5, <4>1, <4>3
    <3> QED
      BY <3>2, <3>6, <3>7, <3>8
  <2>3. CASE es # {} /\ ns # {} /\ ~lone
    <3>1. m \in PairBySimilarity(score, es, ns)
      BY <1>1, <2>3
    <3> HIDE DEF es, ns
    <3>2. m \subseteq Truths /\ m \subseteq es \X ns /\ (m = {} => Related(score, es, ns) = {})
      BY <1>2, <3>1, PairsRight
    <3>3. ASSUME m = {}, NEW c \in es PROVE ~(score[c, Truth[c]] >= PairThreshold)
      <4>1. <<c, Truth[c]>> \in es \X ns /\ Related(score, es, ns) = {}
        BY <1>2, <3>2, <3>3
      <4> QED
        BY <4>1 DEF Related
    <3> QED
      BY <3>2, <3>3
  <2> HIDE DEF es, ns
  <2> QED
    BY <2>1, <2>2, <2>3
<1> HIDE DEF es, ns, merged
<1>5. g.links \in SUBSET (Coins \X Listings)
    BY DEF States
<1>6. h \in States
  <2>1. m \subseteq Coins \X Listings
    BY <1>2, <1>4
  <2>2. g.links \cup m \in SUBSET (Coins \X Listings)
    BY <1>5, <2>1
  <2>3. h = [links |-> h.links, crowded |-> h.crowded]
    BY <1>1
  <2> QED
    BY <1>3, <2>2, <2>3 DEF States
<1>7. ASSUME h.links = g.links PROVE Right(score, g.links)
  <2>1. m = {}
    <3>1. SUFFICES ASSUME NEW p \in m PROVE FALSE
      OBVIOUS
    <3>2. p \in g.links /\ p[1] \in es
      BY <1>3, <1>4, <1>7
    <3> QED
      BY <3>2 DEF es, LeftCoins, CoinsOf
  <2>2. \A c \in Coins : score[c, Truth[c]] >= PairThreshold => <<c, Truth[c]>> \in g.links
    BY <1>2, <1>4, <2>1
  <2> QED
    BY <2>2 DEF Right
<1> QED
    BY <1>3, <1>4, <1>6, <1>7

\* link_by_elimination, opened up.
Passes(f, score) ==
    f = [g \in States |->
            UNION { IF h.links = g.links THEN {h.links} ELSE f[h] :
                      h \in LinkPass(score, Coins, Listings, g) }]

LEMMA EliminatedIs ==
    ASSUME NEW score, NEW links
    PROVE  Eliminated(score, Coins, Listings, links)
              = (CHOOSE f : Passes(f, score))[[links |-> links, crowded |-> FALSE]]
    BY DEF Eliminated, Passes, States

\* The states from which passes add right pairs only.
RightStates == { g \in States : g.links \subseteq Truths }

\* Whatever such an f is, passes that start with right pairs keep those and end with all.
LEMMA PassesRight ==
    ASSUME NEW score, ScoresOK(score), TellsLeft(score), NEW f, Passes(f, score)
    PROVE  \A g \in RightStates :
              \A links \in f[g] : Right(score, links) /\ g.links \subseteq links
<1> DEFINE Fine(g) == \A links \in f[g] : Right(score, links) /\ g.links \subseteq links
           U == Coins \X Listings
           B == { x \in SUBSET U : \E g \in RightStates : x = g.links /\ ~Fine(g) }
<1>1. SUFFICES ASSUME NEW g0 \in RightStates, ~Fine(g0) PROVE FALSE
    OBVIOUS
<1>2. \A g \in RightStates : g \in States /\ g.links \in SUBSET U /\ g.links \subseteq Truths
    BY DEF RightStates, States
<1>3. IsFiniteSet(U)
    BY LinkingAssumption, FS_Product
<1>4. g0.links \in B
  <2> HIDE DEF U, Fine
  <2> QED
    BY <1>1, <1>2
<1>5. B \subseteq SUBSET U
    OBVIOUS
<1>6. PICK x \in B : \A y \in B : x \subseteq y => y = x
  <2> HIDE DEF B, U
  <2> QED
    BY <1>3, <1>4, <1>5, LargestOf
<1>7. PICK g \in RightStates : x = g.links /\ ~Fine(g)
    BY DEF B
<1>8. f[g] = UNION { IF h.links = g.links THEN {h.links} ELSE f[h] :
                       h \in LinkPass(score, Coins, Listings, g) }
    BY <1>2, <1>7 DEF Passes
<1>9. ASSUME NEW links \in f[g] PROVE Right(score, links) /\ g.links \subseteq links
  <2>1. PICK h \in LinkPass(score, Coins, Listings, g) :
           links \in (IF h.links = g.links THEN {h.links} ELSE f[h])
    BY <1>8
  <2>2. /\ h \in States /\ h.links \subseteq Truths /\ g.links \subseteq h.links
        /\ h.links = g.links => Right(score, g.links)
    BY <1>2, PassRight
  <2>3. CASE h.links = g.links
    BY <2>1, <2>2, <2>3
  <2>4. CASE h.links # g.links
    <3>1. links \in f[h] /\ h \in RightStates
      BY <2>1, <2>2, <2>4 DEF RightStates
    <3>2. h.links \notin B
      <4> HIDE DEF B
      <4> QED
        BY <1>6, <1>7, <2>2, <2>4
    <3>3. h.links \in SUBSET U
      BY <1>2, <3>1
    <3>4. Fine(h)
      <4> HIDE DEF U, Fine
      <4> QED
        BY <3>1, <3>2, <3>3
    <3> QED
      BY <2>2, <3>1, <3>4
  <2> QED
    BY <2>3, <2>4
<1> QED
    BY <1>7, <1>9

\* Whatever the titles, a pass links coins to listings.
LEMMA PassTyped ==
    ASSUME NEW score, NEW g \in States, NEW h \in LinkPass(score, Coins, Listings, g)
    PROVE  h \in States
<1> DEFINE es == LeftCoins(Coins, g.links)
           ns == LeftListings(Listings, g.links)
           lone == Cardinality(es) = 1 /\ Cardinality(ns) = 1
           pair == CHOOSE p \in es \X ns : TRUE
           merged == IF es = {} \/ ns = {} THEN {{}}
                     ELSE IF lone THEN Lone(score, pair, g.crowded)
                     ELSE PairBySimilarity(score, es, ns)
<1>1. PICK m \in merged :
         h = [links |-> g.links \cup m, crowded |-> g.crowded \/ (es # {} /\ ns # {} /\ ~lone)]
    BY DEF LinkPass
<1>2. es \subseteq Coins /\ ns \subseteq Listings
    BY LeftFacts
<1>3. m \subseteq es \X ns
  <2>1. CASE es = {} \/ ns = {}
    BY <1>1, <2>1
  <2>2. CASE es # {} /\ ns # {} /\ lone
    <3>1. m \in Lone(score, pair, g.crowded)
      BY <1>1, <2>2
    <3>2. pair \in es \X ns
      <4>1. PICK c, n : c \in es /\ n \in ns
        BY <2>2
      <4>2. <<c, n>> \in es \X ns
        BY <4>1
      <4> HIDE DEF es, ns
      <4> QED
        BY <4>2
    <3> HIDE DEF es, ns, pair
    <3>3. m = {pair} \/ m = {}
      BY <3>1 DEF Lone
    <3> QED
      BY <3>2, <3>3
  <2>3. CASE es # {} /\ ns # {} /\ ~lone
    <3>1. m \in PairBySimilarity(score, es, ns)
      BY <1>1, <2>3
    <3> HIDE DEF es, ns
    <3> QED
      BY <1>2, <3>1, PairsAreLeft
  <2> HIDE DEF es, ns
  <2> QED
    BY <2>1, <2>2, <2>3
<1>4. g.links \cup m \in SUBSET (Coins \X Listings)
  <2>1. g.links \in SUBSET (Coins \X Listings)
    BY DEF States
  <2> HIDE DEF es, ns, merged
  <2> QED
    BY <1>2, <1>3, <2>1
<1>5. (g.crowded \/ (es # {} /\ ns # {} /\ ~lone)) \in BOOLEAN
  <2> HIDE DEF es, ns, lone
  <2> QED
    OBVIOUS
<1> HIDE DEF es, ns, lone, merged
<1> QED
    BY <1>1, <1>4, <1>5 DEF States

LEMMA PassesExists ==
    ASSUME NEW score
    PROVE  Passes(CHOOSE f : Passes(f, score), score)
<1> DEFINE after(g) == LinkPass(score, Coins, Listings, g)
           nxt == [g \in States |-> { h \in after(g) : h.links # g.links }]
           end == [g \in States |-> UNION { {h.links} : h \in { k \in after(g) : k.links = g.links } }]
<1>1. \A g \in States : nxt[g] \in SUBSET States
    BY PassTyped
<1>2. PICK f : Collects(f, States, nxt, end)
  <2> HIDE DEF nxt, end
  <2> QED
    BY <1>1, CollectExists
<1>3. f = [g \in States |-> end[g] \cup UNION { f[h] : h \in nxt[g] }]
    BY <1>2 DEF Collects
<1>4. ASSUME NEW g \in States
      PROVE  end[g] \cup UNION { f[h] : h \in nxt[g] }
                = UNION { IF h.links = g.links THEN {h.links} ELSE f[h] : h \in after(g) }
  <2> HIDE DEF after
  <2>1. \A r \in end[g] : \E h \in after(g) : h.links = g.links /\ r \in {h.links}
    OBVIOUS
  <2>2. \A h \in after(g) : h.links = g.links => h.links \in end[g]
    OBVIOUS
  <2>3. \A h : h \in nxt[g] <=> h \in after(g) /\ h.links # g.links
    OBVIOUS
  <2> HIDE DEF nxt, end
  <2>4. ASSUME NEW r \in end[g] \cup UNION { f[h] : h \in nxt[g] }
        PROVE  r \in UNION { IF h.links = g.links THEN {h.links} ELSE f[h] : h \in after(g) }
    <3>1. PICK h \in after(g) : r \in (IF h.links = g.links THEN {h.links} ELSE f[h])
      <4>1. CASE r \in end[g]
        BY <2>1, <4>1
      <4>2. CASE r \in UNION { f[h] : h \in nxt[g] }
        <5>1. PICK h \in nxt[g] : r \in f[h]
          BY <4>2
        <5> QED
          BY <2>3, <5>1
      <4> QED
        BY <4>1, <4>2
    <3> QED
      BY <3>1
  <2>5. ASSUME NEW r \in UNION { IF h.links = g.links THEN {h.links} ELSE f[h] : h \in after(g) }
        PROVE  r \in end[g] \cup UNION { f[h] : h \in nxt[g] }
    <3>1. PICK h \in after(g) : r \in (IF h.links = g.links THEN {h.links} ELSE f[h])
      OBVIOUS
    <3>2. CASE h.links = g.links
      BY <2>2, <3>1, <3>2
    <3>3. CASE h.links # g.links
      BY <2>3, <3>1, <3>3
    <3> QED
      BY <3>2, <3>3
  <2> QED
    BY <2>4, <2>5
<1> HIDE DEF nxt, end
<1>5. Passes(f, score)
    BY <1>3, <1>4 DEF Passes
<1> QED
    BY <1>5

LEMMA EliminatedRight ==
    ASSUME NEW score, ScoresOK(score), TellsLeft(score), NEW links, links \subseteq Truths,
           NEW final \in Eliminated(score, Coins, Listings, links)
    PROVE  Right(score, final) /\ links \subseteq final
<1> DEFINE f == CHOOSE g : Passes(g, score)
           g0 == [links |-> links, crowded |-> FALSE]
<1>1. Passes(f, score)
    BY PassesExists
<1>2. g0 \in RightStates
  <2>1. links \in SUBSET (Coins \X Listings)
    BY TruthFacts DEF Pairs
  <2> QED
    BY <2>1 DEF RightStates, States
<1>3. final \in f[g0] /\ g0.links = links
    BY EliminatedIs
<1> HIDE DEF f, g0
<1> QED
    BY <1>1, <1>2, <1>3, PassesRight

-----------------------------------------------------------------------------
(* Numista's types come in.                                                 *)

\* What is linked when the first i have come: right pairs, of those listings, and among them
\* every one that agrees well enough.
LinkedBy(score, order, i, links) ==
    /\ links \subseteq Truths /\ \A p \in links : \E k \in 1..i : p[2] = order[k]
    /\ \A k \in 1..i : \A c \in Coins :
          Truth[c] = order[k] /\ score[c, Truth[c]] >= LinkThreshold => <<c, Truth[c]>> \in links

\* Numbers: what is said of scores, with the thresholds out of sight.
LEMMA Above ==
    ASSUME NEW x \in 0..100, NEW l \in 1..100, x >= l PROVE x > 0 /\ ~(x < l)
    OBVIOUS
LEMMA Less ==
    ASSUME NEW x \in 0..100, NEW y \in 0..100, y > x PROVE x <= y /\ ~(y <= x)
    OBVIOUS
LEMMA AtLeast ==
    ASSUME NEW x \in 0..100, NEW l \in 1..100, NEW k \in 1..100, l <= k, x >= k PROVE x >= l
    OBVIOUS
LEMMA Carried ==
    ASSUME NEW x \in 0..100, NEW y \in 0..100, NEW l \in 1..100, x <= y, x >= l PROVE y >= l
    OBVIOUS

\* A listing that comes in is linked to its coin or not at all, the latter only if it does not
\* agree with it.
Told(score, n, links, m) ==
    \/ /\ m = links
       /\ \A c \in Coins : n = Truth[c] => ~(score[c, Truth[c]] >= LinkThreshold)
    \/ \E c \in Coins : n = Truth[c] /\ m = links \cup {<<c, n>>}
LEMMA IngestedTold ==
    ASSUME NEW score, ScoresOK(score), TellsComing(score), NEW n \in Listings,
           NEW links, links \subseteq Truths, n \notin ListingsOf(links),
           NEW m \in Ingested(score, Coins, links, n)
    PROVE  Told(score, n, links, m)
<1> DEFINE open == Open(Coins, links)
           good == { c \in open : score[c, n] > 0 /\ score[c, n] >= LinkThreshold }
           best == { c \in good : \A d \in open : score[d, n] <= score[c, n] }
<1>1. open \subseteq Coins /\ NoCoin \notin Coins
    BY LinkingAssumption DEF Open
<1>2. ASSUME NEW d \in Coins, n = Truth[d] PROVE d \in open
  <2>1. SUFFICES ASSUME NEW p \in links, p[1] = d PROVE FALSE
    BY DEF Open, CoinsOf
  <2>2. p[2] = n
    BY <1>2, <2>1, TruthFacts
  <2> QED
    BY <2>2 DEF ListingsOf
<1>3. ASSUME NEW d \in Coins, n = Truth[d], NEW c \in open, score[d, n] <= score[c, n]
      PROVE  c = d
  <2> SUFFICES ASSUME c # d PROVE FALSE
    OBVIOUS
  <2>1. score[c, n] \in 0..100 /\ score[d, n] \in 0..100
    BY <1>1, ScoreFacts
  <2>2. score[d, n] > score[c, n]
    BY <1>1, <1>3 DEF TellsComing
  <2> QED
    BY <1>3, <2>1, <2>2, Less, Zenon
<1>4. CASE n \in Editions
  <2>1. m = links
    BY <1>4 DEF Ingested
  <2>2. \A c \in Coins : n # Truth[c]
    BY <1>4, TruthFacts
  <2> QED
    BY <2>1, <2>2 DEF Told
<1>5. CASE n \notin Editions
  <2>1. PICK c \in IF good = {} THEN {NoCoin} ELSE best :
           m = IF c = NoCoin THEN links ELSE links \cup {<<c, n>>}
    BY <1>5 DEF Ingested, BestOf
  <2>2. CASE good = {}
    <3>1. m = links
      BY <2>1, <2>2
    <3>2. ASSUME NEW d \in Coins, n = Truth[d], score[d, Truth[d]] >= LinkThreshold PROVE FALSE
      <4>1. score[d, n] \in 0..100 /\ score[d, n] >= LinkThreshold
        BY <3>2, ScoreFacts
      <4>2. score[d, n] > 0
        BY <4>1, ThresholdFacts, Above, Zenon
      <4>3. d \in good
        BY <1>2, <3>2, <4>1, <4>2
      <4> QED
        BY <2>2, <4>3
    <3> QED
      BY <3>1, <3>2 DEF Told
  <2>3. CASE good # {}
    <3>1. /\ c \in open /\ c \in Coins /\ score[c, n] >= LinkThreshold
          /\ \A d \in open : score[d, n] <= score[c, n]
      BY <1>1, <2>1, <2>3
    <3>2. m = links \cup {<<c, n>>}
      BY <1>1, <2>1, <3>1
    <3>3. n = Truth[c]
      <4>1. CASE Stray(n)
        <5>1. score[c, n] \in 0..100 /\ score[c, n] < LinkThreshold
          BY <3>1, <4>1, ScoreFacts DEF TellsComing
        <5> QED
          BY <3>1, <5>1, ThresholdFacts, Above, Zenon
      <4>2. CASE \E d \in Coins : n = Truth[d]
        BY <1>2, <1>3, <3>1, <4>2
      <4> QED
        BY <1>5, <4>1, <4>2 DEF Stray
    <3> QED
      BY <3>1, <3>2, <3>3 DEF Told
  <2> QED
    BY <2>2, <2>3
<1> QED
    BY <1>4, <1>5

LEMMA IngestedRight ==
    ASSUME NEW score, ScoresOK(score), TellsComing(score), NEW order, NEW i \in Nat \ {0},
           order[i] \in Listings, \A k \in 1..(i - 1) : order[k] # order[i],
           NEW links, LinkedBy(score, order, i - 1, links),
           NEW m \in Ingested(score, Coins, links, order[i])
    PROVE  LinkedBy(score, order, i, m)
<1> DEFINE n == order[i]
<1>1. /\ links \subseteq Truths /\ \A p \in links : \E k \in 1..(i - 1) : p[2] = order[k]
      /\ \A k \in 1..(i - 1) : \A c \in Coins :
            Truth[c] = order[k] /\ score[c, Truth[c]] >= LinkThreshold
               => <<c, Truth[c]>> \in links
    BY DEF LinkedBy
<1>2. /\ \A k \in 1..(i - 1) : k \in 1..i
      /\ \A k \in 1..i : k \in 1..(i - 1) \/ k = i
      /\ i \in 1..i
    OBVIOUS
<1>3. n \notin ListingsOf(links)
    BY <1>1 DEF ListingsOf
<1>4. \/ /\ m = links
         /\ \A c \in Coins : n = Truth[c] => ~(score[c, Truth[c]] >= LinkThreshold)
      \/ \E c \in Coins : n = Truth[c] /\ m = links \cup {<<c, n>>}
  <2>1. n \in Listings /\ m \in Ingested(score, Coins, links, n) /\ links \subseteq Truths
    BY <1>1
  <2> HIDE DEF n
  <2>2. Told(score, n, links, m)
    BY <1>3, <2>1, IngestedTold
  <2> QED
    BY <2>2 DEF Told
<1>5. links \subseteq m
    BY <1>4
<1>6. ASSUME NEW p \in m PROVE p \in Truths /\ \E k \in 1..i : p[2] = order[k]
  <2>1. CASE p \in links
    BY <1>1, <1>2, <2>1
  <2>2. CASE p \notin links
    <3>1. PICK c \in Coins : n = Truth[c] /\ p = <<c, n>>
      BY <1>4, <2>2
    <3> QED
      BY <1>2, <3>1 DEF Truths
  <2> QED
    BY <2>1, <2>2
<1>7. ASSUME NEW k \in 1..i, NEW c \in Coins, Truth[c] = order[k],
             score[c, Truth[c]] >= LinkThreshold
      PROVE  <<c, Truth[c]>> \in m
  <2>1. CASE k \in 1..(i - 1)
    BY <1>1, <1>5, <1>7, <2>1
  <2>2. CASE k = i
    BY <1>4, <1>7, <2>2, TruthFacts
  <2> QED
    BY <1>2, <2>1, <2>2
<1> QED
    BY <1>6, <1>7 DEF LinkedBy

\* run_numista_catalog, opened up.
Arrivals(f, score, order) ==
    f = [i \in 0..Len(order) |->
            IF i = 0 THEN {{}}
            ELSE UNION { Ingested(score, Coins, links, order[i]) : links \in f[i - 1] }]

LEMMA IngestedAllIs ==
    ASSUME NEW score, NEW order
    PROVE  IngestedAll(score, Coins, order) = (CHOOSE f : Arrivals(f, score, order))[Len(order)]
    BY DEF IngestedAll, Arrivals

LEMMA IngestedTyped ==
    ASSUME NEW score, NEW links \in SUBSET Pairs, NEW n \in Listings,
           NEW m \in Ingested(score, Coins, links, n)
    PROVE  m \in SUBSET Pairs
<1>1. CASE m = links
    BY <1>1
<1>2. CASE m # links
  <2>1. PICK c \in BestOf(score, Open(Coins, links), n, LinkThreshold) :
           m = IF c = NoCoin THEN links ELSE links \cup {<<c, n>>}
    BY <1>2 DEF Ingested
  <2>2. c # NoCoin /\ m = links \cup {<<c, n>>}
    BY <1>2, <2>1
  <2>3. c \in Open(Coins, links)
    BY <2>1, <2>2 DEF BestOf
  <2> QED
    BY <2>2, <2>3 DEF Open, Pairs
<1> QED
    BY <1>1, <1>2

LEMMA ArrivalsExist ==
    ASSUME NEW score, NEW order, Len(order) \in Nat, \A i \in 1..Len(order) : order[i] \in Listings
    PROVE  Arrivals(CHOOSE f : Arrivals(f, score, order), score, order)
<1> DEFINE n == Len(order)
           S == SUBSET (SUBSET Pairs)
           came(i, B) == UNION { Ingested(score, Coins, links, order[i]) : links \in B }
           step == [q \in (1..n) \X S |-> came(q[1], q[2])]
<1>1. ASSUME NEW i \in 1..n, NEW B \in S PROVE came(i, B) \in S /\ step[<<i, B>>] = came(i, B)
  <2>1. ASSUME NEW m \in came(i, B) PROVE m \in SUBSET Pairs
    <3>1. PICK links \in B : m \in Ingested(score, Coins, links, order[i])
      OBVIOUS
    <3> QED
      BY <3>1, IngestedTyped
  <2>2. came(i, B) \in S
    <3> HIDE DEF came
    <3> QED
      BY <2>1
  <2>3. <<i, B>> \in (1..n) \X S
    OBVIOUS
  <2>4. step[<<i, B>>] = came(i, B)
    <3> HIDE DEF S, came
    <3> QED
      BY <2>3
  <2> QED
    BY <2>2, <2>4
<1>2. step \in StepOf(n, S)
  <2> HIDE DEF came, S
  <2> QED
    BY <1>1 DEF StepOf
<1>3. PICK g : Walk(g, n, S, {{}}, step)
  <2>1. {{}} \in S /\ n \in Nat
    OBVIOUS
  <2> HIDE DEF step, S, n
  <2> QED
    BY <1>2, <2>1, Stepwise
<1>4. /\ g \in [0..n -> S] /\ g[0] = {{}}
      /\ \A i \in 1..n : g[i] = step[<<i, g[i - 1]>>]
    BY <1>3 DEF Walk
<1>5. ASSUME NEW i \in 0..n PROVE g[i] = IF i = 0 THEN {{}} ELSE came(i, g[i - 1])
  <2> HIDE DEF came, step, S
  <2>1. CASE i = 0
    BY <1>4, <2>1
  <2>2. CASE i # 0
    <3>1. i \in 1..n /\ i - 1 \in 0..n
      BY <2>2
    <3> QED
      BY <1>1, <1>4, <2>2, <3>1
  <2> QED
    BY <2>1, <2>2
<1>6. Arrivals(g, score, order)
  <2>1. g = [i \in 0..n |-> IF i = 0 THEN {{}} ELSE came(i, g[i - 1])]
    <3>1. g = [i \in 0..n |-> g[i]]
      BY <1>4
    <3> HIDE DEF came
    <3> QED
      BY <1>5, <3>1
  <2> QED
    BY <2>1 DEF Arrivals
<1> QED
    BY <1>6

\* Whatever their order, what is linked when all have come is right.
LEMMA IngestedAllRight ==
    ASSUME NEW score, ScoresOK(score), TellsComing(score), NEW order \in SetToSeqs(Listings),
           NEW links \in IngestedAll(score, Coins, order)
    PROVE  /\ links \subseteq Truths
           /\ \A c \in Coins : score[c, Truth[c]] >= LinkThreshold => <<c, Truth[c]>> \in links
<1> DEFINE n == Len(order)
           f == CHOOSE g : Arrivals(g, score, order)
           Fine(i) == \A x \in f[i] : LinkedBy(score, order, i, x)
           P == [i \in 0..n |-> Fine(i)]
<1>1. /\ n \in Nat /\ \A i \in 1..n : order[i] \in Listings
      /\ \A i, k \in 1..n : i # k => order[i] # order[k]
      /\ \A x \in Listings : \E k \in 1..n : x = order[k]
  <2>1. Cardinality(Listings) \in Nat
    BY LinkingAssumption, FS_CardinalityType
  <2>2. /\ order \in [1..Cardinality(Listings) -> Listings]
        /\ \A i, k \in 1..Cardinality(Listings) : i # k => order[i] # order[k]
    BY DEF SetToSeqs
  <2>3. Len(order) = Cardinality(Listings)
    BY <2>1, <2>2
  <2>4. \A x \in Listings : \E k \in 1..Cardinality(Listings) : x = order[k]
    <3> DEFINE D == 1..Cardinality(Listings)
    <3>1. Cardinality(D) = Cardinality(Listings)
      BY <2>1, FS_Interval
    <3>2. order \in Injection(D, Listings)
      BY <2>2 DEF Injection, IsInjective
    <3>3. order \in Surjection(D, Listings)
      <4> HIDE DEF D
      <4> QED
        BY <3>1, <3>2, LinkingAssumption, FS_Injection
    <3> QED
      BY <3>3 DEF Surjection
  <2> QED
    BY <2>1, <2>2, <2>3, <2>4
<1>2. Arrivals(f, score, order)
    BY <1>1, ArrivalsExist
<1>3. \A i \in 0..n : f[i] = IF i = 0 THEN {{}}
                             ELSE UNION { Ingested(score, Coins, x, order[i]) : x \in f[i - 1] }
  <2> HIDE DEF f
  <2> QED
    BY <1>2 DEF Arrivals
<1>4. Fine(0)
  <2>1. 0 \in 0..n
    BY <1>1
  <2>2. f[0] = {{}}
    <3> HIDE DEF f
    <3> QED
      BY <1>3, <2>1
  <2> QED
    BY <2>2 DEF LinkedBy
<1>5. ASSUME NEW i \in 1..n, Fine(i - 1) PROVE Fine(i)
  <2>1. i \in 0..n /\ i # 0 /\ i \in Nat \ {0} /\ i - 1 \in 0..n
    BY <1>1
  <2> SUFFICES ASSUME NEW m \in f[i] PROVE LinkedBy(score, order, i, m)
    OBVIOUS
  <2>2. f[i] = UNION { Ingested(score, Coins, x, order[i]) : x \in f[i - 1] }
    <3> HIDE DEF f
    <3> QED
      BY <1>3, <2>1
  <2>3. PICK x \in f[i - 1] : m \in Ingested(score, Coins, x, order[i])
    <3> HIDE DEF f
    <3> QED
      BY <2>2
  <2>4. LinkedBy(score, order, i - 1, x)
    BY <1>5
  <2>5. order[i] \in Listings /\ \A k \in 1..(i - 1) : order[k] # order[i]
    BY <1>1, <2>1
  <2> HIDE DEF f, n
  <2> QED
    BY <2>1, <2>3, <2>4, <2>5, IngestedRight
<1>6. \A i \in 0..n : P[i]
  <2>1. P[0] /\ \A i \in 1..n : P[i - 1] => P[i]
    <3>1. \A i \in 1..n : i \in 0..n /\ i - 1 \in 0..n
      BY <1>1
    <3>2. \A i \in 0..n : P[i] <=> Fine(i)
      OBVIOUS
    <3>3. 0 \in 0..n
      BY <1>1
    <3> HIDE DEF P, Fine, n
    <3> QED
      BY <1>4, <1>5, <3>1, <3>2, <3>3
  <2> HIDE DEF P
  <2> QED
    BY <1>1, <2>1, AlongAList
<1>7. Fine(n)
  <2>1. n \in 0..n
    BY <1>1
  <2> HIDE DEF Fine
  <2> QED
    BY <1>6, <2>1
<1>8. links \in f[n]
    BY IngestedAllIs
<1>9. LinkedBy(score, order, n, links)
    BY <1>7, <1>8
<1>10. \A c \in Coins : \E k \in 1..n : Truth[c] = order[k]
  <2> HIDE DEF n
  <2> QED
    BY <1>1, TruthFacts
<1> QED
    BY <1>9, <1>10 DEF LinkedBy

-----------------------------------------------------------------------------
(* The theorem.                                                             *)

LEMMA NoSecond ==
    ASSUME NEW score, ScoresOK(score), TellsLeft(score), NEW links, Right(score, links),
           NEW c \in Coins, NEW n \in LeftListings(Listings, links),
           c \in BaseOf(score, Coins, n), c \in LeftCoins(Coins, links)
    PROVE  FALSE
<1>1. n \in Listings \ Editions
    BY DEF LeftListings
<1>2. c # NoCoin
    BY LinkingAssumption
<1>3. score[c, n] \in 0..100 /\ score[c, Truth[c]] \in 0..100
    BY <1>1, ScoreFacts, TruthFacts
<1>4. score[c, n] >= PairThreshold
  <2>1. score[c, n] >= (IF n \in Editions \cup Classics THEN PairThreshold ELSE DuplicateThreshold)
    BY <1>2 DEF BaseOf, BestOf
  <2> QED
    BY <1>3, <2>1, ThresholdFacts, AtLeast
<1>5. score[c, Truth[c]] >= PairThreshold
  <2>1. CASE n = Truth[c]
    BY <1>4, <2>1
  <2>2. CASE n # Truth[c]
    <3>1. score[c, Truth[c]] > score[c, n]
      BY <1>1, <2>2 DEF TellsLeft
    <3>2. score[c, n] <= score[c, Truth[c]]
      BY <1>3, <3>1, Less, Zenon
    <3> QED
      BY <1>3, <1>4, <3>2, ThresholdFacts, Carried, Zenon
  <2> QED
    BY <2>1, <2>2
<1>6. <<c, Truth[c]>> \in links
    BY <1>5 DEF Right
<1> QED
    BY <1>6 DEF LeftCoins, CoinsOf

LEMMA RightIsNoMistake ==
    ASSUME NEW t, ScoresOK(t.base), TellsLeft(t.base), NEW links, Right(t.base, links),
           \A c \in Coins : t.coming[c, Truth[c]] >= LinkThreshold => <<c, Truth[c]>> \in links
    PROVE  ~Mistaken(t, links)
<1>1. ASSUME NEW c \in Coins, NEW n \in Listings, <<c, n>> \in links, n # Truth[c] PROVE FALSE
    BY <1>1, TruthFacts DEF Right
<1>2. ASSUME NEW c \in Coins, NEW n \in Listings,
             n = Truth[c], Agrees(t, c), <<c, n>> \notin links
      PROVE  FALSE
    BY <1>2, Zenon DEF Right, Agrees
<1>3. ASSUME NEW c \in Coins, NEW n \in Listings, n \in LeftListings(Listings, links),
             c \in BaseOf(t.base, Coins, n), c \in LeftCoins(Coins, links)
      PROVE  FALSE
    BY <1>3, NoSecond
<1> QED
    BY <1>1, <1>2, <1>3, Zenon DEF Mistaken

\* Titles that bear the truth out decide: in whatever order Numista's types come in and however
\* ties fall, every coin whose listing agrees with it gets it and no other (_attach_or_create by
\* title or topic, link_by_elimination and link_editions_to_base by base title), for any titles,
\* coins and listings.
THEOREM TellingTitlesDecide == LinkSpec => []TitlesDecide
<1> DEFINE Inv == titles = NoTitles \/ titles \in Groups
<1>1. LinkInit => Inv
    BY DEF LinkInit
<1>2. Inv /\ [LinkNext]_titles => Inv'
    BY DEF LinkNext
<1>3. Inv => TitlesDecide
  <2> SUFFICES ASSUME titles \in Groups, TellsComing(titles.coming), TellsLeft(titles.base),
                      NEW order \in SetToSeqs(Listings), NEW links \in Settled(titles, order)
               PROVE  ~Mistaken(titles, links)
    BY DEF TitlesDecide, Telling
  <2> DEFINE full == titles.coming
             bare == titles.base
  <2>1. ScoresOK(full) /\ ScoresOK(bare)
    BY GroupsTyped
  <2>2. PICK first \in IngestedAll(full, Coins, order) :
           links \in Eliminated(bare, Coins, Listings, first)
    BY DEF Settled
  <2>3. TellsComing(full) /\ TellsLeft(bare)
    OBVIOUS
  <2> HIDE DEF full
  <2>4. /\ first \subseteq Truths
        /\ \A c \in Coins : full[c, Truth[c]] >= LinkThreshold => <<c, Truth[c]>> \in first
    BY <2>1, <2>2, <2>3, IngestedAllRight
  <2>5. Right(bare, links) /\ first \subseteq links
    <3> HIDE DEF bare
    <3> QED
      BY <2>1, <2>2, <2>3, <2>4, EliminatedRight
  <2>6. \A c \in Coins : titles.coming[c, Truth[c]] >= LinkThreshold => <<c, Truth[c]>> \in links
    BY <2>4, <2>5 DEF full
  <2> QED
    BY <2>1, <2>3, <2>5, <2>6, RightIsNoMistake
<1> QED
    BY <1>1, <1>2, <1>3, PTL DEF LinkSpec
================================================================================
