----------------------------- MODULE ConsensusProofs -----------------------------
(***************************************************************************)
(* Theorems of Consensus, ConsensusHistory and ConsensusRaces, for any      *)
(* number of types, values, claims and sessions.                            *)
(*                                                                         *)
(* AuthorityWins is not inductive.  A step that resolves a field takes the  *)
(* best of the rows it reads (a CHOOSE), which exists because the rows      *)
(* already had a leader and one row, or another type's rows, are added      *)
(* (Led); flags are told apart by the time of the claim, which no two rows  *)
(* share (Timely).  A merge's column needs the claims to be where their     *)
(* source's reference is (Placed), the last word a history of who said what *)
(* (Heard).  When transactions overlap AuthorityWins fails; RaceInv keeps   *)
(* what a run that is alone needs to restore it: claims of all sessions     *)
(* have times of their own (Pending), and what it read is still so (Fresh). *)
(***************************************************************************)
EXTENDS ConsensusHistory, ConsensusRaces, TLAPS

\* Times are in the past and tell the claims apart.
Timely ==
    /\ \A c \in claims : c.at < now
    /\ \A n \in winners : n < now
    /\ \A c, d \in claims : c.at = d.at => c = d

\* The claims on a type have a leader.
Led == \A c \in claims : \E b \in claims : b.type = c.type /\ Leads(b)

Inv == TypeOK /\ Timely /\ Led /\ AuthorityWins

-----------------------------------------------------------------------------
(* Facts about rows.                                                        *)

\* The shape of a claim.
LEMMA ClaimShape ==
    ASSUME NEW c \in Claim
    PROVE  /\ c.type \in Types /\ c.source \in Sources /\ c.value \in Values /\ c.at \in Nat
           /\ Rank[c.source] \in Nat
  BY ConsensusAssumption DEF Claim

\* A best row of a set of rows whose times differ is the only one.
LEMMA BestUnique ==
    ASSUME NEW rows \in SUBSET Claim, \A c, d \in rows : c.at = d.at => c = d,
           NEW b \in rows, IsBest(b, rows), NEW c \in rows, IsBest(c, rows)
    PROVE  b = c
  <1>1. Outranks(b, c) /\ Outranks(c, b)
    BY DEF IsBest
  <1>2. /\ b.at \in Nat /\ c.at \in Nat
        /\ Rank[b.source] \in Nat /\ Rank[c.source] \in Nat
    BY ClaimShape
  <1>3. b.at = c.at
    BY <1>1, <1>2 DEF Outranks
  <1> QED BY <1>3

\* Adding a row, or the rows of another leader, keeps a best one.
LEMMA BestOfTwo ==
    ASSUME NEW A \in SUBSET Claim, NEW B \in SUBSET Claim,
           NEW a \in A, IsBest(a, A), NEW b \in B, IsBest(b, B)
    PROVE  \E c \in A \cup B : IsBest(c, A \cup B)
  <1>1. Outranks(a, b) \/ Outranks(b, a)
    <2>1. /\ a.at \in Nat /\ b.at \in Nat
          /\ Rank[a.source] \in Nat /\ Rank[b.source] \in Nat
      BY ClaimShape
    <2> QED BY <2>1 DEF Outranks
  <1>2. ASSUME NEW x \in Claim, NEW y \in Claim, NEW z \in Claim,
               Outranks(x, y), Outranks(y, z)
        PROVE  Outranks(x, z)
    <2>1. /\ x.at \in Nat /\ y.at \in Nat /\ z.at \in Nat
          /\ Rank[x.source] \in Nat /\ Rank[y.source] \in Nat /\ Rank[z.source] \in Nat
      BY ClaimShape
    <2> QED BY <1>2, <2>1 DEF Outranks
  <1>3. CASE Outranks(a, b)
    <2>1. \A d \in B : Outranks(a, d)
      BY <1>2, <1>3 DEF IsBest
    <2> QED BY <2>1 DEF IsBest
  <1>4. CASE Outranks(b, a)
    <2>1. \A d \in A : Outranks(b, d)
      BY <1>2, <1>4 DEF IsBest
    <2> QED BY <2>1 DEF IsBest
  <1> QED BY <1>1, <1>3, <1>4

\* Best picks a best row where there is one.
LEMMA BestIsBest ==
    ASSUME NEW rows, \E c \in rows : IsBest(c, rows)
    PROVE  Best(rows) \in rows /\ IsBest(Best(rows), rows)
  BY DEF Best

\* Leading is being the best of the type's rows.
LEMMA LeadsIsBest ==
    ASSUME TypeOK, NEW c \in claims
    PROVE  Leads(c) <=> IsBest(c, Rows(c.type))
  BY DEF Leads, IsBest, Outranks, Rows

\* The flags after a resolution: of the rows read, the best one only; of all others, as
\* they were.
LEMMA FlagsAfter ==
    ASSUME NEW rows, \A c, d \in rows : c.at = d.at => c = d, NEW best \in rows,
           winners' = (winners \ Unflagged(rows, best)) \cup ({best.at} \ winners)
    PROVE  /\ \A c \in rows : c.at \in winners' <=> c = best
           /\ \A n : (\A c \in rows : c.at # n) => (n \in winners' <=> n \in winners)
  BY DEF Unflagged

\* What resolve_field writes, given the rows it read.
LEMMA FieldEffect ==
    ASSUME NEW t, NEW rows \in SUBSET Claim, NEW loaded, Best(rows) \in rows,
           NEW f \in FieldWrites(t, rows, loaded)
    PROVE  /\ f.flag = {Best(rows).at} \ winners
           /\ f.unflag = Unflagged(rows, Best(rows))
           /\ f.value = IF Best(rows).value = loaded THEN NoValue ELSE Best(rows).value
           /\ f.event \in SUBSET (Values \X Values)
  <1> DEFINE best    == Best(rows)
             flagged == {c \in rows : c.at \in winners}
             events  == IF flagged = {} THEN {{}} ELSE {Revision(p, best) : p \in flagged}
  <1>1. PICK e \in events :
           f = [flag |-> {best.at} \ winners, unflag |-> Unflagged(rows, best),
                value |-> IF best.value = loaded THEN NoValue ELSE best.value, event |-> e]
    BY DEF FieldWrites
  <1>2. e \in SUBSET (Values \X Values)
    <2>1. ASSUME NEW p \in flagged PROVE Revision(p, best) \in SUBSET (Values \X Values)
      <3>1. p.value \in Values /\ best.value \in Values
        BY ClaimShape
      <3> QED BY <3>1 DEF Revision
    <2> QED BY <2>1
  <1> HIDE DEF best, flagged, events
  <1>3. /\ f.flag = {best.at} \ winners /\ f.unflag = Unflagged(rows, best)
        /\ f.value = (IF best.value = loaded THEN NoValue ELSE best.value) /\ f.event = e
    BY <1>1
  <1> QED BY <1>2, <1>3 DEF best

-----------------------------------------------------------------------------
(* The steps.                                                               *)

LEMMA InitInv == Init => Inv
  BY ConsensusAssumption DEF Init, Inv, TypeOK, Timely, Led, AuthorityWins, Resolved, Rows, Leads

\* A row recorded now: at most one, later than all others.
LEMMA NewRow ==
    ASSUME TypeOK, NEW s \in Sources, NEW t \in Types, NEW v \in Values
    PROVE  /\ Recorded(t, s, v) \in SUBSET Claim
           /\ \A c \in Recorded(t, s, v) : c.type = t /\ c.at = now
           /\ \A c, d \in Recorded(t, s, v) : c = d
           /\ Recorded(t, s, v) = {} => Rows(t) # {}
  <1> DEFINE row == [type |-> t, source |-> s, value |-> v, at |-> now]
  <1>1. row \in Claim /\ row.type = t /\ row.at = now
    BY DEF Claim, TypeOK
  <1>2. Recorded(t, s, v) = IF Asserted(Rows(t), s, v) THEN {} ELSE {row}
    BY DEF Recorded
  <1>3. Asserted(Rows(t), s, v) => Rows(t) # {}
    BY DEF Asserted
  <1> HIDE DEF row
  <1> QED BY <1>1, <1>2, <1>3

\* The rows an ingestion resolves: their times differ and they have a best one.
LEMMA RowsRead ==
    ASSUME Inv, NEW s \in Sources, NEW t \in Types, NEW v \in Values,
           NEW rows, rows = Rows(t) \cup Recorded(t, s, v)
    PROVE  /\ rows \in SUBSET Claim
           /\ \A c, d \in rows : c.at = d.at => c = d
           /\ Best(rows) \in rows /\ IsBest(Best(rows), rows)
  <1> DEFINE new == Recorded(t, s, v)
  <1> USE DEF Inv
  <1>1. /\ new \in SUBSET Claim
        /\ \A c \in new : c.type = t /\ c.at = now
        /\ \A c, d \in new : c = d
        /\ new = {} => Rows(t) # {}
    BY NewRow
  <1> HIDE DEF new
  <1>2. Rows(t) \in SUBSET Claim /\ Rows(t) \subseteq claims
    BY DEF Rows, TypeOK
  <1>3. \A c \in Rows(t) : c.at \in Nat /\ c.at < now
    BY <1>2, ClaimShape DEF Timely
  <1>4. \A c, d \in rows : c.at = d.at => c = d
    BY <1>1, <1>2, <1>3 DEF new, Timely, TypeOK
  <1>5. \E c \in rows : IsBest(c, rows)
    <2>1. ASSUME Rows(t) # {} PROVE \E c \in Rows(t) : IsBest(c, Rows(t))
      <3>1. PICK c \in claims : c.type = t
        BY <2>1 DEF Rows
      <3>2. PICK b \in claims : b.type = c.type /\ Leads(b)
        BY <3>1 DEF Led
      <3> QED BY <3>1, <3>2, LeadsIsBest DEF Rows
    <2>2. ASSUME new # {} PROVE \E c \in new : IsBest(c, new)
      <3>1. PICK c \in new : TRUE
        BY <2>2
      <3>2. Outranks(c, c)
        <4>1. c.at \in Nat
          BY <1>1, ClaimShape
        <4> QED BY <4>1 DEF Outranks
      <3> QED BY <1>1, <3>1, <3>2 DEF IsBest
    <2>3. CASE new = {}
      BY <1>1, <2>1, <2>3 DEF new
    <2>4. CASE Rows(t) = {} /\ new # {}
      BY <2>2, <2>4 DEF new
    <2>5. CASE Rows(t) # {} /\ new # {}
      <3>1. PICK a \in Rows(t) : IsBest(a, Rows(t))
        BY <2>1, <2>5
      <3>2. PICK b \in new : IsBest(b, new)
        BY <2>2, <2>5
      <3>3. \E c \in Rows(t) \cup new : IsBest(c, Rows(t) \cup new)
        BY <1>1, <1>2, <3>1, <3>2, BestOfTwo
      <3> QED BY <3>3 DEF new
    <2> QED BY <2>3, <2>4, <2>5
  <1> QED BY <1>1, <1>2, <1>4, <1>5, BestIsBest DEF new

\* resolve_field leaves the type resolved: the rows it read are the rows of the type
\* afterwards, moved ones included, and the best of them is flagged and in the column.
LEMMA ResolvesType ==
    ASSUME NEW t \in Types, NEW rows \in SUBSET Claim,
           \A c, d \in rows : c.at = d.at => c = d,
           Best(rows) \in rows, IsBest(Best(rows), rows),
           \A c \in claims' : c.type = t =>
               \E d \in rows : d.at = c.at /\ d.source = c.source /\ d.value = c.value,
           \A d \in rows : \E c \in claims' :
               c.type = t /\ d.at = c.at /\ d.source = c.source /\ d.value = c.value,
           winners' = (winners \ Unflagged(rows, Best(rows))) \cup ({Best(rows).at} \ winners),
           column'[t] = Best(rows).value
    PROVE  /\ Resolved(t)'
           /\ \E b \in claims' : b.type = t /\ Leads(b)'
  <1> DEFINE best == Best(rows)
  <1>1. \A c \in rows : c.at \in winners' <=> c = best
    BY FlagsAfter
  <1>2. \A d \in rows : Outranks(best, d)
    BY DEF IsBest
  <1>3. ASSUME NEW c \in claims', c.type = t
        PROVE  /\ Leads(c)' <=> c.at = best.at
               /\ c.at \in winners' <=> c.at = best.at
               /\ c.at = best.at => c.value = best.value
    <2>1. PICK d \in rows : d.at = c.at /\ d.source = c.source /\ d.value = c.value
      BY <1>3
    <2>2. d = best <=> c.at = best.at
      BY <2>1
    <2>3. Leads(c)' => c.at = best.at
      <3> SUFFICES ASSUME Leads(c)' PROVE c.at = best.at
        OBVIOUS
      <3>1. PICK e \in claims' :
               e.type = t /\ best.at = e.at /\ best.source = e.source
        OBVIOUS
      <3>2. \/ Rank[e.source] < Rank[c.source]
            \/ Rank[e.source] = Rank[c.source] /\ e.at <= c.at
        BY <1>3, <3>1 DEF Leads
      <3>3. Outranks(best, d)
        BY <1>2
      <3>4. /\ best.at \in Nat /\ d.at \in Nat
            /\ Rank[best.source] \in Nat /\ Rank[d.source] \in Nat
        BY ClaimShape
      <3> QED BY <2>1, <3>1, <3>2, <3>3, <3>4 DEF Outranks
    <2>4. c.at = best.at => Leads(c)'
      <3> SUFFICES ASSUME c.at = best.at, NEW e \in claims', e.type = t
                   PROVE  \/ Rank[e.source] < Rank[c.source]
                          \/ Rank[e.source] = Rank[c.source] /\ e.at <= c.at
        BY <1>3 DEF Leads
      <3>1. PICK x \in rows : x.at = e.at /\ x.source = e.source
        OBVIOUS
      <3>2. Outranks(best, x)
        BY <1>2
      <3>3. c.source = best.source
        BY <2>1, <2>2
      <3> QED BY <3>1, <3>2, <3>3 DEF Outranks
    <2> QED BY <1>1, <2>1, <2>2, <2>3, <2>4
  <1> HIDE DEF best
  <1>4. Resolved(t)'
    <2>1. \A c \in Rows(t)' : c \in claims' /\ c.type = t
      BY DEF Rows
    <2> QED BY <1>3, <2>1 DEF Resolved, best
  <1>5. \E b \in claims' : b.type = t /\ Leads(b)'
    <2>1. PICK b \in claims' : b.type = t /\ best.at = b.at
      BY DEF best
    <2> QED BY <1>3, <2>1
  <1> QED BY <1>4, <1>5

\* What a step does not touch stays resolved.
LEMMA OtherType ==
    ASSUME NEW t \in Types, Resolved(t), Led,
           \A c : c \in claims' /\ c.type = t <=> c \in claims /\ c.type = t,
           \A c \in Rows(t) : c.at \in winners' <=> c.at \in winners,
           column'[t] = column[t]
    PROVE  /\ Resolved(t)'
           /\ \A c \in claims' : c.type = t => \E b \in claims' : b.type = t /\ Leads(b)'
  <1>1. Rows(t)' = Rows(t)
    BY DEF Rows
  <1>2. \A c \in Rows(t) : Leads(c)' <=> Leads(c)
    BY DEF Rows, Leads
  <1>3. Resolved(t)'
    BY <1>1, <1>2 DEF Resolved
  <1>4. ASSUME NEW c \in claims', c.type = t
        PROVE  \E b \in claims' : b.type = t /\ Leads(b)'
    <2>1. PICK b \in claims : b.type = t /\ Leads(b)
      BY <1>4 DEF Led
    <2> QED BY <1>2, <2>1 DEF Rows
  <1> QED BY <1>3, <1>4

\* A source's claim and the resolution after it keep the invariant.
LEMMA IngestInv ==
    ASSUME Inv, NEW s \in Sources, NEW t \in Types, NEW v \in Values, Ingest(s, t, v)
    PROVE  Inv'
  <1> DEFINE new  == Recorded(t, s, v)
             rows == Rows(t) \cup new
             best == Best(rows)
  <1>1. PICK f \in FieldWrites(t, rows, column[t]) :
           Apply(Written(s, t, new, f)) /\ Clocked(Written(s, t, new, f))
    BY DEF Ingest, SourceWrites
  <1>2. /\ new \in SUBSET Claim
        /\ \A c \in new : c.type = t /\ c.at = now
        /\ \A c, d \in new : c = d
    BY NewRow DEF Inv
  <1>3. /\ rows \in SUBSET Claim
        /\ \A c, d \in rows : c.at = d.at => c = d
        /\ best \in rows /\ IsBest(best, rows)
    BY RowsRead
  <1>4. /\ f.flag = {best.at} \ winners
        /\ f.unflag = Unflagged(rows, best)
        /\ f.value = IF best.value = column[t] THEN NoValue ELSE best.value
        /\ f.event \in SUBSET (Values \X Values)
    BY <1>3, FieldEffect
  <1>5. best.value \in Values /\ best.at \in Nat /\ best.type = t
    BY <1>2, <1>3, ClaimShape DEF Rows
  <1> HIDE DEF new
  <1>6. /\ known' = [x \in Sources |-> IF x = s /\ known[s] # t THEN t ELSE known[x]]
        /\ claims' = claims \cup new
        /\ winners' = (winners \ f.unflag) \cup f.flag
        /\ column' = [u \in Types |-> IF u = t /\ f.value # NoValue THEN f.value
                                                                     ELSE column[u]]
        /\ revised' = [u \in Types |-> IF u # t THEN revised[u]
                                       ELSE IF f.event # {} THEN f.event ELSE revised[t]]
        /\ now' = IF new = {} THEN now ELSE now + 1
    BY <1>1, ConsensusAssumption DEF Apply, Clocked, Written, Moved
  <1> HIDE DEF best
  <1>7. TypeOK'
    <2>1. known' \in [Sources -> Types \cup {NoType}]
      BY <1>6 DEF Inv, TypeOK
    <2>2. claims' \subseteq Claim /\ now' \in Nat
      BY <1>2, <1>6 DEF Inv, TypeOK
    <2>5. winners' \subseteq Nat
      BY <1>4, <1>5, <1>6 DEF Inv, TypeOK
    <2>3. column' \in [Types -> Values \cup {NoValue}]
      BY <1>4, <1>5, <1>6 DEF Inv, TypeOK
    <2>4. revised' \in [Types -> SUBSET (Values \X Values)]
      BY <1>4, <1>6 DEF Inv, TypeOK
    <2> QED BY <2>1, <2>2, <2>3, <2>4, <2>5 DEF TypeOK
  <1>8. Timely'
    <2>1. \A c \in claims : c.at \in Nat /\ c.at < now
      BY ClaimShape DEF Inv, TypeOK, Timely
    <2>2. \A c \in claims' : c.at < now'
      BY <1>2, <1>6, <2>1 DEF Inv, TypeOK
    <2>3. \A c, d \in claims' : c.at = d.at => c = d
      BY <1>2, <1>6, <2>1 DEF Inv, TypeOK, Timely
    <2>4. best \in claims'
      BY <1>3, <1>6 DEF Rows
    <2>5. \A n \in winners : n < now'
      BY <1>6 DEF Inv, TypeOK, Timely
    <2>6. \A n \in winners' : n < now'
      BY <1>4, <1>6, <2>2, <2>4, <2>5
    <2> QED BY <2>2, <2>3, <2>6 DEF Timely
  <1>9. /\ Resolved(t)'
        /\ \E b \in claims' : b.type = t /\ Leads(b)'
    <2>1. \A c : c \in claims' /\ c.type = t <=> c \in rows
      BY <1>2, <1>6 DEF Rows
    <2>2. column'[t] = best.value
      BY <1>4, <1>5, <1>6, ConsensusAssumption DEF Inv, TypeOK
    <2>3. winners' = (winners \ Unflagged(rows, best)) \cup ({best.at} \ winners)
      BY <1>4, <1>6
    <2> HIDE DEF rows
    <2> QED BY <1>3, <2>1, <2>2, <2>3, ResolvesType DEF best
  <1>10. ASSUME NEW u \in Types, u # t
         PROVE  /\ Resolved(u)'
                /\ \A c \in claims' : c.type = u => \E b \in claims' : b.type = u /\ Leads(b)'
    <2>1. \A c : c \in claims' /\ c.type = u <=> c \in claims /\ c.type = u
      BY <1>2, <1>6, <1>10
    <2>2. \A c \in Rows(u) : c.at \in winners' <=> c.at \in winners
      <3> SUFFICES ASSUME NEW c \in Rows(u) PROVE c.at \in winners' <=> c.at \in winners
        OBVIOUS
      <3>1. c \in claims /\ c.at < now /\ c.at \in Nat /\ c \notin rows
        BY <1>2, <1>10, ClaimShape DEF Inv, TypeOK, Timely, Rows
      <3>2. \A d \in rows : d.at # c.at
        BY <1>2, <3>1 DEF Inv, TypeOK, Timely, Rows
      <3>3. winners' = (winners \ Unflagged(rows, best)) \cup ({best.at} \ winners)
        BY <1>4, <1>6
      <3> HIDE DEF rows
      <3> QED BY <1>3, <3>2, <3>3, FlagsAfter
    <2>3. column'[u] = column[u]
      BY <1>6, <1>10
    <2> QED BY <2>1, <2>2, <2>3, OtherType DEF Inv, AuthorityWins
  <1>11. Led'
    <2> SUFFICES ASSUME NEW c \in claims' PROVE \E b \in claims' : b.type = c.type /\ Leads(b)'
      BY DEF Led
    <2>1. c.type \in Types
      BY <1>7, ClaimShape DEF TypeOK
    <2> QED BY <1>9, <1>10, <2>1
  <1>12. AuthorityWins'
    BY <1>9, <1>10 DEF AuthorityWins
  <1> QED BY <1>7, <1>8, <1>11, <1>12 DEF Inv

\* A run in which the source says nothing of the field keeps it.
LEMMA IngestWithoutInv ==
    ASSUME Inv, NEW s \in Sources, NEW t \in Types, IngestWithout(s, t)
    PROVE  Inv'
  <1>1. /\ known' = [x \in Sources |-> IF x = s /\ known[s] # t THEN t ELSE known[x]]
        /\ claims' = claims /\ winners' = winners /\ now' = now
        /\ column' = [u \in Types |-> column[u]]
        /\ revised' = [u \in Types |-> revised[u]]
    BY ConsensusAssumption DEF IngestWithout, Apply, Written, Moved, NoWrites
  <1>2. column' = column /\ revised' = revised
    BY <1>1 DEF Inv, TypeOK
  <1>3. TypeOK'
    BY <1>1, <1>2 DEF Inv, TypeOK
  <1>4. Timely' /\ Led' /\ AuthorityWins'
    BY <1>1, <1>2 DEF Inv, Timely, Led, AuthorityWins, Resolved, Leads, Rows
  <1> QED BY <1>3, <1>4 DEF Inv

\* A merge keeps it: the rows of both types become one type's and are resolved again.
LEMMA MergeInv ==
    ASSUME Inv, NEW keep \in Types, NEW drop \in Types, Merge(keep, drop)
    PROVE  Inv'
  <1> DEFINE rows == Rows(keep) \cup Rows(drop)
             best == Best(rows)
             Move(c) == IF c \in Rows(drop) THEN [c EXCEPT !.type = keep] ELSE c
  <1>1. keep # drop /\ now' = now
    BY DEF Merge, MayMerge
  <1>2. PICK f \in IF rows = {} THEN {NoWrites} ELSE FieldWrites(keep, rows, column[keep]) :
           Apply(MergedWith(keep, drop, f))
    BY DEF Merge, MergeWrites
  <1>3. /\ known' = [x \in Sources |-> IF x = Numista THEN keep ELSE known[x]]
        /\ claims' = {Move(c) : c \in claims}
        /\ winners' = (winners \ f.unflag) \cup f.flag
        /\ column' = [u \in Types |-> IF u = drop THEN NoValue
                                      ELSE IF u = keep /\ f.value # NoValue THEN f.value
                                      ELSE column[u]]
        /\ revised' = [u \in Types |-> IF u = drop THEN {}
                                       ELSE IF u # keep THEN revised[u]
                                       ELSE IF f.event # {} THEN f.event
                                       ELSE revised[keep] \cup revised[drop]]
    BY <1>2, ConsensusAssumption DEF Apply, MergedWith, Moved
  <1>4. ASSUME NEW c \in claims
        PROVE  /\ Move(c) \in Claim
               /\ Move(c).at = c.at /\ Move(c).source = c.source /\ Move(c).value = c.value
               /\ Move(c).type = IF c.type = drop THEN keep ELSE c.type
               /\ c.type # drop => Move(c) = c
    <2>1. c \in Claim
      BY DEF Inv, TypeOK
    <2> QED BY <2>1 DEF Claim, Rows
  <1> HIDE DEF Move
  <1>5. /\ rows \in SUBSET Claim
        /\ \A c, d \in rows : c.at = d.at => c = d
        /\ rows # {} => best \in rows /\ IsBest(best, rows)
    <2>1. Rows(keep) \in SUBSET Claim /\ Rows(drop) \in SUBSET Claim
      BY DEF Inv, TypeOK, Rows
    <2>2. ASSUME NEW t \in Types, Rows(t) # {}
          PROVE  \E c \in Rows(t) : IsBest(c, Rows(t))
      <3>1. PICK c \in claims : c.type = t
        BY <2>2 DEF Rows
      <3>2. PICK b \in claims : b.type = c.type /\ Leads(b)
        BY <3>1 DEF Inv, Led
      <3> QED BY <3>1, <3>2, LeadsIsBest DEF Inv, Rows
    <2>3. ASSUME rows # {} PROVE \E c \in rows : IsBest(c, rows)
      <3>1. CASE Rows(keep) = {} \/ Rows(drop) = {}
        BY <2>2, <2>3, <3>1
      <3>2. CASE Rows(keep) # {} /\ Rows(drop) # {}
        <4>1. PICK a \in Rows(keep) : IsBest(a, Rows(keep))
          BY <2>2, <3>2
        <4>2. PICK b \in Rows(drop) : IsBest(b, Rows(drop))
          BY <2>2, <3>2
        <4> QED BY <2>1, <4>1, <4>2, BestOfTwo
      <3> QED BY <3>1, <3>2
    <2>4. \A c, d \in rows : c.at = d.at => c = d
      BY DEF Inv, Timely, Rows
    <2> QED BY <2>1, <2>3, <2>4, BestIsBest
  <1>6. /\ f.flag \in SUBSET {c.at : c \in rows}
        /\ f.value \in Values \cup {NoValue}
        /\ f.event \in SUBSET (Values \X Values)
        /\ rows = {} => f.flag = {} /\ f.unflag = {} /\ f.value = NoValue
        /\ rows # {} => /\ f.flag = {best.at} \ winners
                        /\ f.unflag = Unflagged(rows, best)
                        /\ f.value = IF best.value = column[keep] THEN NoValue ELSE best.value
                        /\ best.value \in Values
    <2>1. CASE rows = {}
      BY <1>2, <2>1 DEF NoWrites
    <2>2. CASE rows # {}
      <3>1. best.value \in Values
        BY <1>5, <2>2, ClaimShape
      <3>2. f \in FieldWrites(keep, rows, column[keep])
        BY <1>2, <2>2
      <3>3. /\ f.flag = {best.at} \ winners
            /\ f.unflag = Unflagged(rows, best)
            /\ f.value = IF best.value = column[keep] THEN NoValue ELSE best.value
            /\ f.event \in SUBSET (Values \X Values)
        BY <1>5, <2>2, <3>2, FieldEffect
      <3> HIDE DEF best, rows
      <3> QED BY <1>5, <2>2, <3>1, <3>3
    <2> QED BY <2>1, <2>2
  <1>7. TypeOK'
    <2>1. known' \in [Sources -> Types \cup {NoType}]
      BY <1>3 DEF Inv, TypeOK
    <2>2. claims' \subseteq Claim
      BY <1>3, <1>4
    <2>3. winners' \subseteq Nat
      <3>1. \A c \in rows : c.at \in Nat
        BY <1>5, ClaimShape
      <3>2. f.flag \subseteq Nat
        <4> HIDE DEF rows, best
        <4> QED BY <1>6, <3>1
      <3>3. winners \subseteq Nat /\ winners' = (winners \ f.unflag) \cup f.flag
        BY <1>3 DEF Inv, TypeOK
      <3> QED BY <3>2, <3>3
    <2>4. column' \in [Types -> Values \cup {NoValue}]
      BY <1>3, <1>6 DEF Inv, TypeOK
    <2>5. revised' \in [Types -> SUBSET (Values \X Values)]
      BY <1>3, <1>6 DEF Inv, TypeOK
    <2> QED BY <1>1, <2>1, <2>2, <2>3, <2>4, <2>5 DEF Inv, TypeOK
  <1>8. Timely'
    <2>1. \A c \in claims' : c.at < now'
      BY <1>1, <1>3, <1>4 DEF Inv, Timely
    <2>2. \A n \in winners' : n < now'
      BY <1>1, <1>3, <1>6 DEF Inv, Timely, Rows
    <2>3. \A c, d \in claims' : c.at = d.at => c = d
      BY <1>3, <1>4 DEF Inv, Timely
    <2> QED BY <2>1, <2>2, <2>3 DEF Timely
  <1>9. ASSUME rows # {}
        PROVE  Resolved(keep)' /\ \E b \in claims' : b.type = keep /\ Leads(b)'
    <2>1. \A c \in claims' : c.type = keep =>
             \E d \in rows : d.at = c.at /\ d.source = c.source /\ d.value = c.value
      BY <1>3, <1>4 DEF Rows
    <2>2. \A d \in rows : \E c \in claims' :
             c.type = keep /\ d.at = c.at /\ d.source = c.source /\ d.value = c.value
      BY <1>3, <1>4 DEF Rows
    <2>3. column'[keep] = best.value
      <3> HIDE DEF best, rows
      <3> QED BY <1>1, <1>3, <1>6, <1>9, ConsensusAssumption DEF Inv, TypeOK
    <2>4. winners' = (winners \ Unflagged(rows, best)) \cup ({best.at} \ winners)
      BY <1>3, <1>6, <1>9
    <2> HIDE DEF rows
    <2> QED BY <1>5, <1>9, <2>1, <2>2, <2>3, <2>4, ResolvesType DEF best
  <1>10. \A c \in claims' : c.type # drop /\ (c.type = keep => rows # {})
    BY <1>1, <1>3, <1>4 DEF Rows
  <1>11. ASSUME NEW u \in Types, u \notin {keep, drop}
         PROVE  /\ Resolved(u)'
                /\ \A c \in claims' : c.type = u => \E b \in claims' : b.type = u /\ Leads(b)'
    <2>1. \A c : c \in claims' /\ c.type = u <=> c \in claims /\ c.type = u
      BY <1>3, <1>4, <1>11
    <2>2. \A c \in Rows(u) : c.at \in winners' <=> c.at \in winners
      <3> SUFFICES ASSUME NEW c \in Rows(u) PROVE c.at \in winners' <=> c.at \in winners
        OBVIOUS
      <3>1. c \in claims /\ c \notin rows
        BY <1>11 DEF Rows
      <3>2. \A d \in rows : d.at # c.at
        BY <3>1 DEF Inv, Timely, Rows
      <3>3. CASE rows = {}
        BY <1>3, <1>6, <3>3
      <3>4. CASE rows # {}
        <4>1. winners' = (winners \ Unflagged(rows, best)) \cup ({best.at} \ winners)
          BY <1>3, <1>6, <3>4
        <4> HIDE DEF rows, best
        <4> QED BY <1>5, <3>2, <3>4, <4>1, FlagsAfter
      <3> QED BY <3>3, <3>4
    <2>3. column'[u] = column[u]
      BY <1>3, <1>11
    <2> QED BY <2>1, <2>2, <2>3, OtherType DEF Inv, AuthorityWins
  <1>12. Led'
    <2> SUFFICES ASSUME NEW c \in claims' PROVE \E b \in claims' : b.type = c.type /\ Leads(b)'
      BY DEF Led
    <2>1. c.type \in Types
      BY <1>7, ClaimShape DEF TypeOK
    <2> QED BY <1>9, <1>10, <1>11, <2>1
  <1>13. AuthorityWins'
    <2>1. rows = {} => Resolved(keep)'
      BY <1>10 DEF Resolved, Rows
    <2>2. Resolved(drop)'
      BY <1>10 DEF Resolved, Rows
    <2> QED BY <1>9, <1>11, <2>1, <2>2 DEF AuthorityWins
  <1> QED BY <1>7, <1>8, <1>12, <1>13 DEF Inv

\* Every step keeps the invariant.
LEMMA StepInv == Inv /\ [Next]_vars => Inv'
  <1> SUFFICES ASSUME Inv, [Next]_vars PROVE Inv'
    OBVIOUS
  <1>1. CASE UNCHANGED vars
    BY <1>1 DEF vars, Inv, TypeOK, Timely, Led, AuthorityWins, Resolved, Leads, Rows
  <1>2. ASSUME NEW s \in Sources, NEW t \in Types, NEW v \in Values, Ingest(s, t, v) PROVE Inv'
    BY <1>2, IngestInv
  <1>3. ASSUME NEW s \in Sources, NEW t \in Types, IngestWithout(s, t) PROVE Inv'
    BY <1>3, IngestWithoutInv
  <1>4. ASSUME NEW keep \in Types, NEW drop \in Types, Merge(keep, drop) PROVE Inv'
    BY <1>4, MergeInv
  <1> QED BY <1>1, <1>2, <1>3, <1>4 DEF Next

-----------------------------------------------------------------------------
\* The variables keep their types: no flag, value or event that is not a claim's.
THEOREM WellTyped == Spec => []TypeOK
  <1>1. Inv => TypeOK
    BY DEF Inv
  <1> QED BY <1>1, InitInv, StepInv, PTL DEF Spec

\* Whatever the sources say, in whatever order and before or after a merge, every type
\* shows the claim of highest authority, flags it and no other (resolve_field).
THEOREM Authority == Spec => []AuthorityWins
  <1>1. Inv => AuthorityWins
    BY DEF Inv
  <1> QED BY <1>1, InitInv, StepInv, PTL DEF Spec

-----------------------------------------------------------------------------
(* Where claims and columns come from.                                      *)

\* A claim is on the type of its source, and a column is that of a claim.
Placed ==
    /\ \A c \in claims : known[c.source] = c.type
    /\ \A t \in Types : column[t] # NoValue => Rows(t) # {}

LEMMA PlacedInit == Init => Placed
  BY DEF Init, Placed

\* What a source's writes change, whatever field it resolved.
LEMMA WrittenEffect ==
    ASSUME TypeOK, NEW s \in Sources, NEW t \in Types, NEW add, NEW f,
           Apply(Written(s, t, add, f))
    PROVE  /\ known' = [x \in Sources |-> IF x = s THEN t ELSE known[x]]
           /\ claims' = claims \cup add
           /\ winners' = (winners \ f.unflag) \cup f.flag
           /\ column' = [u \in Types |-> IF u = t /\ f.value # NoValue THEN f.value
                                                                         ELSE column[u]]
           /\ revised' = [u \in Types |-> IF u # t THEN revised[u]
                                          ELSE IF f.event # {} THEN f.event ELSE revised[t]]
  <1>1. /\ known' = [x \in Sources |-> IF x = s /\ known[s] # t THEN t ELSE known[x]]
        /\ claims' = {IF c \in {} THEN [c EXCEPT !.type = t] ELSE c : c \in claims} \cup add
        /\ winners' = (winners \ f.unflag) \cup f.flag
    BY DEF Apply, Written, Moved
  <1>2. /\ column' = [u \in Types |-> IF u = NoType THEN NoValue
                                      ELSE IF u = t /\ f.value # NoValue THEN f.value
                                      ELSE column[u]]
        /\ revised' = [u \in Types |-> IF u = NoType THEN {}
                                       ELSE IF u # t THEN revised[u]
                                       ELSE IF f.event # {} THEN f.event ELSE revised[t]]
    BY DEF Apply, Written
  <1>3. \A u \in Types : u # NoType
    BY ConsensusAssumption
  <1>4. known' = [x \in Sources |-> IF x = s THEN t ELSE known[x]]
    BY <1>1
  <1>5. claims' = claims \cup add
    BY <1>1
  <1> QED BY <1>1, <1>2, <1>3, <1>4, <1>5

\* ... and the writes of a merge.
LEMMA MergedEffect ==
    ASSUME TypeOK, NEW keep \in Types, NEW drop \in Types, keep # drop, NEW f,
           Apply(MergedWith(keep, drop, f))
    PROVE  /\ known' = [x \in Sources |-> IF x = Numista THEN keep ELSE known[x]]
           /\ \A c \in claims' : \E d \in claims :
                 /\ c.at = d.at /\ c.source = d.source /\ c.value = d.value
                 /\ c.type = IF d.type = drop THEN keep ELSE d.type
           /\ \A d \in claims : \E c \in claims' :
                 /\ c.at = d.at /\ c.source = d.source /\ c.value = d.value
                 /\ c.type = IF d.type = drop THEN keep ELSE d.type
           /\ winners' = (winners \ f.unflag) \cup f.flag
           /\ column' = [u \in Types |-> IF u = drop THEN NoValue
                                         ELSE IF u = keep /\ f.value # NoValue THEN f.value
                                         ELSE column[u]]
  <1>1. /\ known' = [x \in Sources |-> IF x = Numista THEN keep ELSE known[x]]
        /\ claims' = {Moved(c, MergedWith(keep, drop, f)) : c \in claims}
        /\ winners' = (winners \ f.unflag) \cup f.flag
        /\ column' = [u \in Types |-> IF u = drop THEN NoValue
                                      ELSE IF u = keep /\ f.value # NoValue THEN f.value
                                      ELSE column[u]]
    BY ConsensusAssumption DEF Apply, MergedWith, Moved
  <1>2. ASSUME NEW c \in claims
        PROVE  LET m == Moved(c, MergedWith(keep, drop, f))
               IN  /\ m.at = c.at /\ m.source = c.source /\ m.value = c.value
                   /\ m.type = IF c.type = drop THEN keep ELSE c.type
    <2>1. c \in Claim
      BY DEF TypeOK
    <2> QED BY <2>1 DEF Moved, MergedWith, Claim, Rows
  <1>3. /\ \A c \in claims' : \E d \in claims :
              /\ c.at = d.at /\ c.source = d.source /\ c.value = d.value
              /\ c.type = IF d.type = drop THEN keep ELSE d.type
        /\ \A d \in claims : \E c \in claims' :
              /\ c.at = d.at /\ c.source = d.source /\ c.value = d.value
              /\ c.type = IF d.type = drop THEN keep ELSE d.type
    BY <1>1, <1>2
  <1> QED BY <1>1, <1>3

\* The claim a source's run records, if any, is its own.
LEMMA RecordedOwn ==
    ASSUME NEW s \in Sources, NEW t \in Types, NEW v, NEW c \in Recorded(t, s, v)
    PROVE  c.source = s /\ c.type = t /\ c.value = v /\ c.at = now
  BY DEF Recorded

LEMMA PlacedStep == Inv /\ Placed /\ [Next]_vars => Placed'
  <1> SUFFICES ASSUME Inv, Placed, [Next]_vars PROVE Placed'
    OBVIOUS
  <1>1. \A c \in claims : c.type \in Types /\ c.source \in Sources
    BY ClaimShape DEF Inv, TypeOK
  <1>2. ASSUME NEW s \in Sources, NEW t \in Types, NEW add, NEW f, Describes(s, t),
               Apply(Written(s, t, add, f)),
               \A c \in add : c.source = s /\ c.type = t,
               f.value # NoValue => Rows(t) \cup add # {}
        PROVE  Placed'
    <2>1. /\ known' = [x \in Sources |-> IF x = s THEN t ELSE known[x]]
          /\ claims' = claims \cup add
          /\ column' = [u \in Types |-> IF u = t /\ f.value # NoValue THEN f.value
                                                                        ELSE column[u]]
      BY <1>2, WrittenEffect DEF Inv
    <2>2. known[s] = t \/ known[s] = NoType
      BY <1>2 DEF Describes
    <2>3. \A c \in claims' : known'[c.source] = c.type
      BY <1>1, <1>2, <2>1, <2>2, ConsensusAssumption DEF Placed
    <2>4. \A u \in Types : column'[u] # NoValue => Rows(u)' # {}
      <3>1. \A u \in Types : Rows(u) \subseteq Rows(u)'
        BY <2>1 DEF Rows
      <3>2. add \subseteq Rows(t)'
        BY <1>2, <2>1 DEF Rows
      <3> QED BY <1>2, <2>1, <3>1, <3>2 DEF Placed
    <2> QED BY <2>3, <2>4 DEF Placed
  <1>3. ASSUME NEW s \in Sources, NEW t \in Types, NEW v \in Values, Ingest(s, t, v)
        PROVE  Placed'
    <2>1. PICK f \in FieldWrites(t, Rows(t) \cup Recorded(t, s, v), column[t]) :
             Apply(Written(s, t, Recorded(t, s, v), f))
      BY <1>3 DEF Ingest, SourceWrites
    <2>2. Rows(t) \cup Recorded(t, s, v) # {}
      BY NewRow DEF Inv
    <2>3. \A c \in Recorded(t, s, v) : c.source = s /\ c.type = t
      BY RecordedOwn
    <2> QED BY <1>2, <1>3, <2>1, <2>2, <2>3 DEF Ingest
  <1>4. ASSUME NEW s \in Sources, NEW t \in Types, IngestWithout(s, t) PROVE Placed'
    <2>1. NoWrites.value = NoValue
      BY DEF NoWrites
    <2> QED BY <1>2, <1>4, <2>1 DEF IngestWithout
  <1>5. ASSUME NEW keep \in Types, NEW drop \in Types, Merge(keep, drop) PROVE Placed'
    <2>1. /\ keep # drop /\ known[Ecb] = keep /\ known[Numista] = drop
      BY <1>5 DEF Merge, MayMerge
    <2> DEFINE rows == Rows(keep) \cup Rows(drop)
    <2>2. PICK f \in IF rows = {} THEN {NoWrites} ELSE FieldWrites(keep, rows, column[keep]) :
             Apply(MergedWith(keep, drop, f))
      BY <1>5 DEF Merge, MergeWrites
    <2>3. f.value # NoValue => rows # {}
      BY <2>2 DEF NoWrites
    <2>4. /\ known' = [x \in Sources |-> IF x = Numista THEN keep ELSE known[x]]
          /\ \A c \in claims' : \E d \in claims :
                /\ c.at = d.at /\ c.source = d.source /\ c.value = d.value
                /\ c.type = IF d.type = drop THEN keep ELSE d.type
          /\ \A d \in claims : \E c \in claims' :
                /\ c.at = d.at /\ c.source = d.source /\ c.value = d.value
                /\ c.type = IF d.type = drop THEN keep ELSE d.type
          /\ column' = [u \in Types |-> IF u = drop THEN NoValue
                                        ELSE IF u = keep /\ f.value # NoValue THEN f.value
                                        ELSE column[u]]
      BY <2>1, <2>2, MergedEffect DEF Inv
    <2>5. \A c \in claims' : known'[c.source] = c.type
      BY <1>1, <2>1, <2>4, ConsensusAssumption DEF Placed, Sources
    <2>6. ASSUME NEW u \in Types, column'[u] # NoValue PROVE Rows(u)' # {}
      <3>1. u # drop
        BY <2>4, <2>6
      <3>2. \/ u = keep /\ rows # {}
            \/ Rows(u) # {}
        BY <2>3, <2>4, <2>6, <3>1 DEF Placed
      <3>3. PICK d \in claims : d.type = u \/ (u = keep /\ d.type = drop)
        BY <3>2 DEF Rows
      <3>4. PICK c \in claims' : c.type = IF d.type = drop THEN keep ELSE d.type
        BY <2>4
      <3> QED BY <3>1, <3>3, <3>4 DEF Rows
    <2> QED BY <2>5, <2>6 DEF Placed
  <1>6. CASE UNCHANGED vars
    BY <1>6 DEF vars, Placed, Rows
  <1> QED BY <1>3, <1>4, <1>5, <1>6 DEF Next

\* The event of a resolution whose previous winner is known: it tells of a change.
LEMMA EventTells ==
    ASSUME NEW t, NEW rows \in SUBSET Claim, NEW loaded, NEW p \in rows,
           \A c \in rows : c.at \in winners <=> c = p,
           NEW f \in FieldWrites(t, rows, loaded)
    PROVE  f.event = Revision(p, Best(rows))
  <1> DEFINE flagged == {c \in rows : c.at \in winners}
  <1>1. flagged = {p}
    OBVIOUS
  <1>2. f.event \in IF flagged = {} THEN {{}} ELSE {Revision(q, Best(rows)) : q \in flagged}
    BY DEF FieldWrites
  <1> HIDE DEF flagged
  <1> QED BY <1>1, <1>2

\* A type with a column has a row that leads, is flagged as the only one and gives its value.
LEMMA Winner ==
    ASSUME Inv, Placed, NEW t \in Types, column[t] # NoValue
    PROVE  \E p \in Rows(t) : /\ column[t] = p.value /\ IsBest(p, Rows(t))
                              /\ \A c \in Rows(t) : c.at \in winners <=> c = p
  <1>1. PICK c \in claims : c.type = t
    BY DEF Placed, Rows
  <1>2. PICK p \in claims : p.type = t /\ Leads(p)
    BY <1>1 DEF Inv, Led
  <1>3. p \in Rows(t) /\ IsBest(p, Rows(t))
    BY <1>2, LeadsIsBest DEF Inv, Rows
  <1>4. column[t] = p.value /\ \A d \in Rows(t) : d.at \in winners <=> Leads(d)
    BY <1>2, <1>3 DEF Inv, AuthorityWins, Resolved
  <1>5. ASSUME NEW d \in Rows(t), Leads(d) PROVE d = p
    <2>1. d \in claims /\ d.type = t
      BY DEF Rows
    <2>2. IsBest(d, Rows(t))
      BY <1>5, <2>1, LeadsIsBest DEF Inv
    <2>3. Rows(t) \in SUBSET Claim /\ \A x, y \in Rows(t) : x.at = y.at => x = y
      BY DEF Inv, TypeOK, Timely, Rows
    <2> QED BY <1>3, <2>2, <2>3, BestUnique
  <1> QED BY <1>2, <1>3, <1>4, <1>5

\* What a step may do to a column that a source still refers to.
Told(t) ==
    /\ column[t] # NoValue /\ \E s \in Sources : known'[s] = t
    /\ Norm(column'[t]) # Norm(column[t])
    => \E e \in revised'[t] : Norm(e[1]) = Norm(column[t]) /\ e[2] = column'[t]

LEMMA IngestTells ==
    ASSUME Inv, Placed, NEW s \in Sources, NEW t \in Types, NEW v \in Values, Ingest(s, t, v),
           NEW u \in Types
    PROVE  Told(u)
  <1> DEFINE new  == Recorded(t, s, v)
             rows == Rows(t) \cup new
  <1>1. PICK f \in FieldWrites(t, rows, column[t]) : Apply(Written(s, t, new, f))
    BY DEF Ingest, SourceWrites
  <1>2. /\ column' = [x \in Types |-> IF x = t /\ f.value # NoValue THEN f.value ELSE column[x]]
        /\ revised' = [x \in Types |-> IF x # t THEN revised[x]
                                       ELSE IF f.event # {} THEN f.event ELSE revised[t]]
    BY <1>1, WrittenEffect DEF Inv
  <1>3. CASE u # t
    BY <1>2, <1>3 DEF Told
  <1>4. CASE u = t /\ column[t] # NoValue
    <2>1. PICK p \in Rows(t) : /\ column[t] = p.value
                               /\ \A c \in Rows(t) : c.at \in winners <=> c = p
      BY <1>4, Winner
    <2>2. \A c \in new : c.at \notin winners
      BY NewRow DEF Inv, Timely, TypeOK
    <2>3. /\ rows \in SUBSET Claim /\ p \in rows /\ Best(rows) \in rows
          /\ \A c \in rows : c.at \in winners <=> c = p
      <3>1. rows \in SUBSET Claim /\ Best(rows) \in rows
        BY RowsRead
      <3> QED BY <2>1, <2>2, <3>1
    <2>4. /\ f.event = Revision(p, Best(rows))
          /\ f.value = IF Best(rows).value = column[t] THEN NoValue ELSE Best(rows).value
      BY <1>1, <2>3, EventTells, FieldEffect
    <2>5. Best(rows).value \in Values
      BY <2>3, ClaimShape
    <2>6. column'[t] = Best(rows).value
      BY <1>2, <2>4, <2>5, ConsensusAssumption DEF Inv, TypeOK
    <2>7. CASE Norm(p.value) # Norm(Best(rows).value)
      <3>1. f.event = {<<p.value, Best(rows).value>>}
        BY <2>4, <2>7 DEF Revision
      <3>2. revised'[t] = {<<p.value, Best(rows).value>>}
        BY <1>2, <3>1
      <3> QED BY <1>4, <2>1, <2>6, <3>2 DEF Told
    <2>8. CASE Norm(p.value) = Norm(Best(rows).value)
      BY <1>4, <2>1, <2>6, <2>8 DEF Told
    <2> QED BY <2>7, <2>8
  <1> QED BY <1>3, <1>4 DEF Told

\* A merge changes no column that stays: the ECB's claims on the type lead Numista's.
LEMMA MergeTells ==
    ASSUME Inv, Placed, NEW keep \in Types, NEW drop \in Types, Merge(keep, drop),
           NEW u \in Types
    PROVE  Told(u)
  <1> DEFINE rows == Rows(keep) \cup Rows(drop)
  <1>1. /\ keep # drop /\ known[Ecb] = keep /\ known[Numista] = drop
    BY DEF Merge, MayMerge
  <1>2. PICK f \in IF rows = {} THEN {NoWrites} ELSE FieldWrites(keep, rows, column[keep]) :
           Apply(MergedWith(keep, drop, f))
    BY DEF Merge, MergeWrites
  <1>3. /\ known' = [x \in Sources |-> IF x = Numista THEN keep ELSE known[x]]
        /\ column' = [x \in Types |-> IF x = drop THEN NoValue
                                      ELSE IF x = keep /\ f.value # NoValue THEN f.value
                                      ELSE column[x]]
    BY <1>1, <1>2, MergedEffect DEF Inv
  <1>4. CASE u = drop
    <2>1. \A s \in Sources : known'[s] # drop
      BY <1>1, <1>3, ConsensusAssumption DEF Sources
    <2> QED BY <1>4, <2>1 DEF Told
  <1>5. CASE u # drop /\ u # keep
    BY <1>3, <1>5 DEF Told
  <1>6. CASE u = keep /\ column[keep] # NoValue
    <2>1. PICK p \in Rows(keep) : column[keep] = p.value /\ IsBest(p, Rows(keep))
      BY <1>6, Winner
    <2>2. /\ rows \in SUBSET Claim /\ p \in rows
          /\ \A c, d \in rows : c.at = d.at => c = d
      BY <2>1 DEF Inv, TypeOK, Timely, Rows
    <2>3. \A c \in Rows(keep) : c.source = Ecb
      BY <1>1, ClaimShape DEF Inv, TypeOK, Placed, Rows, Sources
    <2>4. \A c \in Rows(drop) : c.source = Numista
      BY <1>1, ClaimShape DEF Inv, TypeOK, Placed, Rows, Sources
    <2>5. IsBest(p, rows)
      <3>1. \A d \in Rows(drop) : Outranks(p, d)
        BY <2>1, <2>3, <2>4, RankAssumption DEF Outranks
      <3> QED BY <2>1, <3>1 DEF IsBest
    <2>6. Best(rows) = p
      <3>1. Best(rows) \in rows /\ IsBest(Best(rows), rows)
        BY <2>2, <2>5, BestIsBest
      <3> HIDE DEF rows
      <3> QED BY <2>2, <2>5, <3>1, BestUnique
    <2>7. f \in FieldWrites(keep, rows, column[keep])
      BY <1>2, <2>2
    <2>8. f.value = NoValue
      <3> HIDE DEF rows
      <3> QED BY <2>1, <2>2, <2>6, <2>7, FieldEffect
    <2>9. column'[keep] = column[keep]
      BY <1>1, <1>3, <2>8
    <2> QED BY <1>6, <2>9 DEF Told
  <1> QED BY <1>4, <1>5, <1>6 DEF Told

\* RevisionTold: a value that changes beyond the way it is written is never changed without
\* an event from the old to the new one, in an ingestion or in a merge.
THEOREM NoSilentRevision == Spec => RevisionTold
  <1>1. Inv /\ Placed /\ [Next]_vars => [\A t \in Types : Told(t)]_vars
    <2> SUFFICES ASSUME Inv, Placed, Next, NEW u \in Types PROVE Told(u)
      OBVIOUS
    <2>1. ASSUME NEW s \in Sources, NEW t \in Types, NEW v \in Values, Ingest(s, t, v)
          PROVE  Told(u)
      BY <2>1, IngestTells
    <2>2. ASSUME NEW s \in Sources, NEW t \in Types, IngestWithout(s, t) PROVE Told(u)
      <3>1. column' = [x \in Types |-> column[x]]
        BY <2>2, WrittenEffect DEF Inv, IngestWithout, NoWrites
      <3> QED BY <3>1 DEF Told
    <2>3. ASSUME NEW keep \in Types, NEW drop \in Types, Merge(keep, drop) PROVE Told(u)
      BY <2>3, MergeTells
    <2> QED BY <2>1, <2>2, <2>3 DEF Next
  <1> QED BY <1>1, InitInv, StepInv, PlacedInit, PlacedStep, PTL DEF Spec, RevisionTold, Told

-----------------------------------------------------------------------------
(* The last word.                                                           *)

\* The latest claim of a source says what the source said last; who said nothing claims
\* nothing.
Heard ==
    /\ heard \in [Sources -> Values \cup {NoValue}]
    /\ \A c \in claims : heard[c.source] # NoValue
    /\ \A s \in Sources : heard[s] # NoValue =>
          \E c \in claims : /\ c.source = s /\ Norm(c.value) = Norm(heard[s])
                            /\ \A d \in claims : d.source = s => d.at <= c.at

LEMMA HeardShown == Inv /\ Placed /\ Heard => LastWordShown
  <1> SUFFICES ASSUME Inv, Placed, Heard, NEW s \in Sources, heard[s] # NoValue,
                      \A r \in Sources \ {s} :
                         known[r] = known[s] /\ heard[r] # NoValue => Rank[r] < Rank[s]
               PROVE  Norm(column[known[s]]) = Norm(heard[s])
    BY DEF LastWordShown
  <1>1. PICK c \in claims : /\ c.source = s /\ Norm(c.value) = Norm(heard[s])
                            /\ \A d \in claims : d.source = s => d.at <= c.at
    BY DEF Heard
  <1>2. c.type = known[s] /\ c.type \in Types
    BY <1>1, ClaimShape DEF Placed, Inv, TypeOK
  <1>3. Leads(c)
    <2> SUFFICES ASSUME NEW d \in claims, d.type = c.type
                 PROVE  \/ Rank[d.source] < Rank[c.source]
                        \/ Rank[d.source] = Rank[c.source] /\ d.at <= c.at
      BY DEF Leads
    <2>1. known[d.source] = known[s] /\ heard[d.source] # NoValue /\ d.source \in Sources
      BY <1>2, ClaimShape DEF Placed, Heard, Inv, TypeOK
    <2> QED BY <1>1, <2>1
  <1>4. column[c.type] = c.value
    BY <1>2, <1>3 DEF Inv, AuthorityWins, Resolved, Rows
  <1> QED BY <1>1, <1>2, <1>4

LEMMA HeardStep ==
    ASSUME Inv, Placed, Heard, [HeardNext]_<<vars, heard>>
    PROVE  Heard'
  <1>1. ASSUME NEW s \in Sources, NEW t \in Types, NEW v \in Values, Ingest(s, t, v),
               heard' = [heard EXCEPT ![s] = v]
        PROVE  Heard'
    <2> DEFINE new == Recorded(t, s, v)
    <2>1. PICK f : Apply(Written(s, t, new, f))
      BY <1>1 DEF Ingest, SourceWrites
    <2>2. claims' = claims \cup new
      BY <2>1, WrittenEffect DEF Inv
    <2>3. \A c \in new : c.source = s /\ c.value = v /\ c.at = now
      BY RecordedOwn
    <2>4. \A c \in claims : c.at < now /\ c.at \in Nat /\ now \in Nat /\ c.source \in Sources
      BY ClaimShape DEF Inv, TypeOK, Timely
    <2>5. heard' \in [Sources -> Values \cup {NoValue}] /\ v # NoValue
      BY <1>1, ConsensusAssumption DEF Heard
    <2>6. \A c \in claims' : heard'[c.source] # NoValue
      BY <1>1, <2>2, <2>3, <2>4, <2>5 DEF Heard
    <2>7. \E c \in claims' : /\ c.source = s /\ Norm(c.value) = Norm(v)
                             /\ \A d \in claims' : d.source = s => d.at <= c.at
      <3>1. CASE new = {}
        <4>1. Asserted(Rows(t), s, v)
          BY <3>1 DEF Recorded
        <4>2. PICK c \in Rows(t) : /\ c.source = s /\ Norm(c.value) = Norm(v)
                                   /\ \A d \in Rows(t) : d.source = s => d.at <= c.at
          BY <4>1 DEF Asserted
        <4>3. \A d \in claims : d.source = s => d \in Rows(t)
          BY <4>2 DEF Placed, Rows
        <4> QED BY <2>2, <3>1, <4>2, <4>3 DEF Rows
      <3>2. CASE new # {}
        <4>1. PICK c \in new : TRUE
          BY <3>2
        <4>2. now \in Nat
          BY DEF Inv, TypeOK
        <4>3. \A d \in claims' : d.at <= c.at
          <5> HIDE DEF new
          <5> QED BY <2>2, <2>3, <2>4, <4>1, <4>2
        <4> QED BY <2>2, <2>3, <4>1, <4>3
      <3> QED BY <3>1, <3>2
    <2>8. ASSUME NEW r \in Sources, r # s, heard'[r] # NoValue
          PROVE  \E c \in claims' : /\ c.source = r /\ Norm(c.value) = Norm(heard'[r])
                                    /\ \A d \in claims' : d.source = r => d.at <= c.at
      <3>1. heard'[r] = heard[r]
        BY <1>1, <2>8 DEF Heard
      <3>2. PICK c \in claims : /\ c.source = r /\ Norm(c.value) = Norm(heard[r])
                                /\ \A d \in claims : d.source = r => d.at <= c.at
        BY <2>8, <3>1 DEF Heard
      <3> QED BY <2>2, <2>3, <2>8, <3>1, <3>2
    <2>9. heard'[s] = v
      BY <1>1 DEF Heard
    <2> QED BY <2>5, <2>6, <2>7, <2>8, <2>9 DEF Heard
  <1>2. ASSUME NEW s \in Sources, NEW t \in Types, IngestWithout(s, t), UNCHANGED heard
        PROVE  Heard'
    <2>1. claims' = claims \cup {}
      BY <1>2, WrittenEffect DEF Inv, IngestWithout
    <2> QED BY <1>2, <2>1 DEF Heard
  <1>3. ASSUME NEW keep \in Types, NEW drop \in Types, Merge(keep, drop), UNCHANGED heard
        PROVE  Heard'
    <2>1. keep # drop /\ \E f : Apply(MergedWith(keep, drop, f))
      BY <1>3 DEF Merge, MayMerge, MergeWrites
    <2>2. /\ \A c \in claims' : \E d \in claims :
                c.at = d.at /\ c.source = d.source /\ c.value = d.value
          /\ \A d \in claims : \E c \in claims' :
                c.at = d.at /\ c.source = d.source /\ c.value = d.value
      BY <2>1, MergedEffect DEF Inv
    <2>3. \A c \in claims' : heard'[c.source] # NoValue
      BY <1>3, <2>2 DEF Heard
    <2>4. ASSUME NEW r \in Sources, heard[r] # NoValue
          PROVE  \E c \in claims' : /\ c.source = r /\ Norm(c.value) = Norm(heard[r])
                                    /\ \A d \in claims' : d.source = r => d.at <= c.at
      <3>1. PICK c \in claims : /\ c.source = r /\ Norm(c.value) = Norm(heard[r])
                                /\ \A d \in claims : d.source = r => d.at <= c.at
        BY <2>4 DEF Heard
      <3>2. PICK m \in claims' : m.at = c.at /\ m.source = c.source /\ m.value = c.value
        BY <2>2
      <3>3. \A d \in claims' : d.source = r => d.at <= m.at
        BY <2>2, <3>1, <3>2
      <3> QED BY <3>1, <3>2, <3>3
    <2> QED BY <1>3, <2>3, <2>4 DEF Heard
  <1>4. CASE UNCHANGED <<vars, heard>>
    BY <1>4 DEF vars, Heard
  <1> QED BY <1>1, <1>2, <1>3, <1>4 DEF HeardNext

\* LastWordShown: of the sources that spoke of a coin the one of highest authority has the
\* last word.
THEOREM LastWord == HeardSpec => []LastWordShown
  <1>1. HeardInit => Init /\ Heard
    BY DEF HeardInit, Init, Heard
  <1>2. [HeardNext]_<<vars, heard>> => [Next]_vars
    BY DEF HeardNext, Next
  <1> QED BY <1>1, <1>2, InitInv, StepInv, PlacedInit, PlacedStep, HeardStep, HeardShown, PTL
          DEF HeardSpec

-----------------------------------------------------------------------------
(* Runs that overlap.                                                       *)

\* Of any claims one outranks the others.  (Among finitely many; here by the way claims are
\* added, one at a time.)
Bests == \A S \in SUBSET claims : S # {} => \E b \in S : IsBest(b, S)

\* Writes a session may have decided.
WritesOK(w) ==
    /\ w.source \in Sources /\ w.type \in Types /\ w.drop \in Types \cup {NoType}
    /\ w.add \subseteq Claim /\ \A c, d \in w.add : c = d
    /\ w.field.flag \subseteq Nat
    /\ w.field.value \in Values \cup {NoValue}
    /\ w.field.event \in SUBSET (Values \X Values)

SessionOK(j) ==
    session[j] # Idle =>
        /\ session[j].phase \in {"loaded", "decided"}
        /\ session[j].type \in Types /\ session[j].drop \in Types \cup {NoType}
        /\ session[j].phase = "decided" => WritesOK(session[j].writes)

\* The claim a session is to add has a time of its own.
Pending(j) ==
    In(j, "decided") =>
        \A c \in session[j].writes.add :
            /\ c.at < now
            /\ \A d \in claims : d.at # c.at
            /\ \A k \in Jobs \ {j} : In(k, "decided") => \A d \in session[k].writes.add : d.at # c.at

\* A source's session that was alone: what it read and decided is what it would read and
\* decide now.
Fresh(s) ==
    alone[s] =>
        /\ \A k \in Jobs \ {s} : session[k] = Idle
        /\ In(s, "loaded") => session[s].loaded = column[session[s].type]
        /\ In(s, "decided") =>
              LET t == session[s].type
                  w == session[s].writes
              IN  /\ w = Written(s, t, w.add, w.field)
                  /\ session[s].resolves =>
                        /\ \A c \in w.add : c.type = t
                        /\ Rows(t) \cup w.add # {}
                        /\ w.field \in FieldWrites(t, Rows(t) \cup w.add, column[t])

RaceInv ==
    /\ TypeOK /\ Bests
    /\ \A c \in claims : c.at < now
    /\ \A c, d \in claims : c.at = d.at => c = d
    /\ session = [j \in Jobs |-> session[j]] /\ alone \in [Jobs -> BOOLEAN] /\ aborts \in Nat
    /\ \A j \in Jobs : SessionOK(j) /\ Pending(j)
    /\ \A s \in Sources : Fresh(s)

LEMMA RaceInvInit == RaceInit => RaceInv
  <1> SUFFICES ASSUME RaceInit PROVE RaceInv
    OBVIOUS
  <1>1. TypeOK /\ claims = {}
    BY InitInv DEF RaceInit, Inv, Init
  <1>2. session = [j \in Jobs |-> Idle] /\ alone = [j \in Jobs |-> FALSE] /\ aborts = 0
    BY DEF RaceInit
  <1>3. \A j \in Jobs : SessionOK(j) /\ Pending(j)
    BY <1>2 DEF SessionOK, Pending, In
  <1>4. \A s \in Sources : Fresh(s)
    BY <1>2 DEF Fresh, Jobs
  <1> QED BY <1>1, <1>2, <1>3, <1>4 DEF RaceInv, Bests

\* One row outranks itself.
LEMMA OneBest ==
    ASSUME NEW S \in SUBSET Claim, \A c, d \in S : c = d, S # {}
    PROVE  \E b \in S : IsBest(b, S)
  <1>1. PICK b \in S : TRUE
    OBVIOUS
  <1>2. b.at \in Nat
    BY ClaimShape
  <1> QED BY <1>1, <1>2 DEF IsBest, Outranks

\* Any claims and one more have a best one.
LEMMA BestWith ==
    ASSUME claims \subseteq Claim, Bests, NEW S \in SUBSET claims,
           NEW add \in SUBSET Claim, \A c, d \in add : c = d, S \cup add # {}
    PROVE  \E b \in S \cup add : IsBest(b, S \cup add)
  <1>1. CASE S = {}
    BY <1>1, OneBest
  <1>2. CASE add = {}
    BY <1>2 DEF Bests
  <1>3. CASE S # {} /\ add # {}
    <2>1. PICK a \in S : IsBest(a, S)
      BY <1>3 DEF Bests
    <2>2. PICK b \in add : IsBest(b, add)
      BY <1>3, OneBest
    <2> QED BY <2>1, <2>2, BestOfTwo
  <1> QED BY <1>1, <1>2, <1>3

\* What writes do to claims, whatever happened since they were decided.
LEMMA MovedClaim ==
    ASSUME NEW w, WritesOK(w), NEW c \in Claim
    PROVE  /\ Moved(c, w) \in Claim
           /\ Moved(c, w).at = c.at /\ Moved(c, w).source = c.source
  BY DEF WritesOK, Moved, Claim

LEMMA ApplyTyped ==
    ASSUME TypeOK, NEW w, WritesOK(w), Apply(w), now' = now
    PROVE  TypeOK' /\ claims' = {Moved(c, w) : c \in claims} \cup w.add
  <1>1. claims' = {Moved(c, w) : c \in claims} \cup w.add
    BY DEF Apply
  <1>2. claims' \subseteq Claim
    BY <1>1, MovedClaim DEF TypeOK, WritesOK
  <1>3. known' \in [Sources -> Types \cup {NoType}]
    BY DEF Apply, TypeOK, WritesOK
  <1>4. winners' \subseteq Nat
    BY DEF Apply, TypeOK, WritesOK
  <1>5. column' \in [Types -> Values \cup {NoValue}]
    BY DEF Apply, TypeOK, WritesOK
  <1>6. revised' \in [Types -> SUBSET (Values \X Values)]
    <2> DEFINE earlier == IF w.drop = NoType THEN revised[w.type]
                          ELSE revised[w.type] \cup revised[w.drop]
    <2>1. revised' = [t \in Types |-> IF t = w.drop THEN {}
                                      ELSE IF t # w.type THEN revised[t]
                                      ELSE IF w.field.event # {} THEN w.field.event ELSE earlier]
      BY DEF Apply
    <2>2. earlier \in SUBSET (Values \X Values)
      BY DEF TypeOK, WritesOK
    <2> HIDE DEF earlier
    <2> QED BY <2>1, <2>2 DEF TypeOK, WritesOK
  <1> QED BY <1>1, <1>2, <1>3, <1>4, <1>5, <1>6 DEF TypeOK

LEMMA ApplyBests ==
    ASSUME TypeOK, Bests, NEW w, WritesOK(w), claims' = {Moved(c, w) : c \in claims} \cup w.add
    PROVE  Bests'
  <1> SUFFICES ASSUME NEW S \in SUBSET claims', S # {} PROVE \E b \in S : IsBest(b, S)
    BY DEF Bests
  <1> DEFINE old == {c \in claims : Moved(c, w) \in S}
             new == w.add \cap S
  <1>1. /\ claims \subseteq Claim /\ new \in SUBSET Claim /\ \A c, d \in new : c = d
        /\ old \in SUBSET claims
    BY DEF TypeOK, WritesOK
  <1>2. \A c \in S : c \in new \/ \E d \in old : c = Moved(d, w)
    OBVIOUS
  <1>3. \A c \in S : \E d \in old \cup new : d.at = c.at /\ d.source = c.source
    BY <1>1, <1>2, MovedClaim
  <1>4. old \cup new # {}
    BY <1>3
  <1>5. \A d \in old \cup new : \E c \in S : d.at = c.at /\ d.source = c.source
    BY <1>1, MovedClaim
  <1> HIDE DEF old, new
  <1>6. PICK b \in old \cup new : IsBest(b, old \cup new)
    BY <1>1, <1>4, BestWith
  <1>7. PICK c \in S : b.at = c.at /\ b.source = c.source
    BY <1>5
  <1>8. ASSUME NEW d \in S PROVE Outranks(c, d)
    <2>1. PICK x \in old \cup new : x.at = d.at /\ x.source = d.source
      BY <1>3
    <2>2. Outranks(b, x)
      BY <1>6 DEF IsBest
    <2> QED BY <1>7, <2>1, <2>2 DEF Outranks
  <1> QED BY <1>8 DEF IsBest

\* The writes of a resolution are ones a session may decide.
LEMMA FieldOK ==
    ASSUME NEW t, NEW rows \in SUBSET Claim, NEW loaded, NEW f \in FieldWrites(t, rows, loaded),
           \E b \in rows : IsBest(b, rows)
    PROVE  /\ f.flag \subseteq Nat /\ f.value \in Values \cup {NoValue}
           /\ f.event \in SUBSET (Values \X Values)
  <1>1. Best(rows) \in rows
    BY BestIsBest
  <1>2. Best(rows).at \in Nat /\ Best(rows).value \in Values
    BY <1>1, ClaimShape
  <1>3. f.flag = {Best(rows).at} \ winners
    BY <1>1, FieldEffect
  <1>4. f.value = (IF Best(rows).value = loaded THEN NoValue ELSE Best(rows).value)
    BY <1>1, FieldEffect
  <1>5. f.event \in SUBSET (Values \X Values)
    BY <1>1, FieldEffect
  <1> QED BY <1>2, <1>3, <1>4, <1>5

\* A session opens.
LEMMA OpenStep ==
    ASSUME RaceInv, NEW j \in Jobs, NEW t \in Types, NEW drop \in Types \cup {NoType},
           Opened(j, t, drop)
    PROVE  RaceInv'
  <1> DEFINE x == [phase |-> "loaded", type |-> t, drop |-> drop, loaded |-> column[t]]
  <1>1. /\ session' = [session EXCEPT ![j] = x]
        /\ alone' = [k \in Jobs |-> k = j /\ \A i \in Jobs \ {j} : session[i] = Idle]
        /\ UNCHANGED <<vars, aborts>>
    BY DEF Opened
  <1>2. /\ session' = [k \in Jobs |-> session'[k]] /\ session'[j] = x
        /\ \A k \in Jobs \ {j} : session'[k] = session[k]
        /\ alone' \in [Jobs -> BOOLEAN] /\ aborts' \in Nat
    BY <1>1 DEF RaceInv
  <1>3. TypeOK' /\ Bests' /\ claims' = claims /\ now' = now
    BY <1>1 DEF RaceInv, TypeOK, Bests, IsBest, Outranks, vars
  <1>4. x.phase = "loaded" /\ x.type = t /\ x.drop = drop /\ x.loaded = column[t]
    OBVIOUS
  <1> HIDE DEF x
  <1>5. ASSUME NEW k \in Jobs PROVE SessionOK(k)'
    BY <1>2, <1>4 DEF RaceInv, SessionOK, WritesOK
  <1>6. ASSUME NEW k \in Jobs PROVE Pending(k)'
    BY <1>2, <1>3, <1>4 DEF RaceInv, Pending, In
  <1>7. ASSUME NEW s \in Sources PROVE Fresh(s)'
    <2> SUFFICES ASSUME s = j, \A i \in Jobs \ {j} : session[i] = Idle PROVE Fresh(s)'
      BY <1>1 DEF Fresh, Jobs
    <2> QED BY <1>1, <1>2, <1>4 DEF Fresh, In, vars
  <1> QED BY <1>2, <1>3, <1>5, <1>6, <1>7 DEF RaceInv

\* A source's writes are what it would decide now.
Current(s, t, w, resolves) ==
    /\ w = Written(s, t, w.add, w.field)
    /\ resolves =>
          /\ \A c \in w.add : c.type = t
          /\ Rows(t) \cup w.add # {}
          /\ w.field \in FieldWrites(t, Rows(t) \cup w.add, column[t])

\* A session decides.
LEMMA DecideStep ==
    ASSUME RaceInv, NEW j \in Jobs, In(j, "loaded"), NEW w, NEW resolves,
           Decided(j, w, resolves), WritesOK(w), \A c \in w.add : c.at = now,
           j \in Sources /\ alone[j] => Current(j, w.type, w, resolves)
    PROVE  RaceInv'
  <1> DEFINE x == [phase |-> "decided", type |-> w.type, drop |-> w.drop, writes |-> w,
                   resolves |-> resolves]
  <1>1. /\ session' = [session EXCEPT ![j] = x] /\ Clocked(w)
        /\ UNCHANGED <<known, claims, winners, column, revised, alone, aborts>>
    BY DEF Decided
  <1>2. /\ session' = [k \in Jobs |-> session'[k]] /\ session'[j] = x
        /\ \A k \in Jobs \ {j} : session'[k] = session[k]
        /\ alone' = alone /\ alone' \in [Jobs -> BOOLEAN] /\ aborts' \in Nat
    BY <1>1 DEF RaceInv
  <1>3. now \in Nat /\ now' \in Nat /\ now <= now' /\ (w.add # {} => now < now')
    BY <1>1 DEF RaceInv, TypeOK, Clocked
  <1>4. TypeOK' /\ Bests' /\ claims' = claims /\ \A c \in claims : c.at \in Nat
    BY <1>1, <1>3, ClaimShape DEF RaceInv, TypeOK, Bests, IsBest, Outranks
  <1>5. /\ x.phase = "decided" /\ x.type = w.type /\ x.drop = w.drop /\ x.writes = w
        /\ x.resolves = resolves
    OBVIOUS
  <1> HIDE DEF x
  <1>6. ASSUME NEW k \in Jobs PROVE SessionOK(k)'
    BY <1>2, <1>5 DEF RaceInv, SessionOK, WritesOK
  <1>7. ASSUME NEW k \in Jobs \ {j}, In(k, "decided"), NEW c \in session[k].writes.add
        PROVE  c.at \in Nat /\ c.at < now
    <2>1. WritesOK(session[k].writes) /\ c.at < now
      BY <1>7 DEF RaceInv, SessionOK, Pending, In
    <2> QED BY <2>1, ClaimShape DEF WritesOK
  <1>8. ASSUME NEW k \in Jobs PROVE Pending(k)'
    <2>1. CASE k = j
      <3> SUFFICES ASSUME NEW c \in w.add
                   PROVE  /\ c.at < now' /\ \A d \in claims' : d.at # c.at
                          /\ \A i \in Jobs \ {j} : In(i, "decided")' =>
                                \A d \in session'[i].writes.add : d.at # c.at
        BY <1>2, <1>5, <2>1 DEF Pending, In
      <3>1. c.at = now
        OBVIOUS
      <3>2. \A d \in claims' : d.at # now
        BY <1>3, <1>4 DEF RaceInv
      <3>3. \A i \in Jobs \ {j} : In(i, "decided")' =>
               \A d \in session'[i].writes.add : d.at # now
        BY <1>2, <1>3, <1>7 DEF In
      <3> QED BY <1>3, <3>1, <3>2, <3>3
    <2>2. CASE k # j
      <3> SUFFICES ASSUME In(k, "decided"), NEW c \in session[k].writes.add
                   PROVE  /\ c.at < now' /\ \A d \in claims' : d.at # c.at
                          /\ \A i \in Jobs \ {k} : In(i, "decided")' =>
                                \A d \in session'[i].writes.add : d.at # c.at
        BY <1>2, <2>2 DEF Pending, In
      <3>1. c.at \in Nat /\ c.at < now
        BY <1>7, <2>2
      <3>2. \A d \in claims' : d.at # c.at
        BY <1>4 DEF RaceInv, Pending
      <3>3. \A d \in w.add : d.at # c.at
        BY <1>3, <3>1
      <3>4. \A i \in Jobs \ {k} : In(i, "decided")' =>
               \A d \in session'[i].writes.add : d.at # c.at
        BY <1>2, <1>5, <3>3 DEF RaceInv, Pending, In
      <3> QED BY <1>3, <3>1, <3>2, <3>4
    <2> QED BY <2>1, <2>2
  <1>9. ASSUME NEW s \in Sources PROVE Fresh(s)'
    <2> SUFFICES ASSUME alone[s] PROVE Fresh(s)'
      BY <1>2 DEF Fresh
    <2>1. s \in Jobs /\ \A k \in Jobs \ {s} : session[k] = Idle
      BY DEF RaceInv, Fresh, Jobs
    <2>2. s = j
      BY <2>1 DEF In
    <2>3. Current(j, w.type, w, resolves)'
      <3>1. Current(j, w.type, w, resolves)
        BY <2>2
      <3>2. /\ \A t : Rows(t)' = Rows(t)
            /\ \A a, f : Written(j, w.type, a, f)' = Written(j, w.type, a, f)
            /\ column' = column
        BY <1>1 DEF Rows, Written
      <3>3. \A t, rows, loaded :
               FieldWrites(t, rows, loaded)' = FieldWrites(t, rows, loaded)
        BY <1>1 DEF FieldWrites, Unflagged
      <3> QED BY <3>1, <3>2, <3>3 DEF Current
    <2>4. /\ \A k \in Jobs \ {s} : session'[k] = Idle
          /\ session'[s] = x /\ x.phase # "loaded"
      BY <1>2, <1>5, <2>1, <2>2
    <2> QED BY <1>5, <2>2, <2>3, <2>4 DEF Fresh, In, Current
  <1>10. \A c \in claims' : c.at < now'
    BY <1>3, <1>4 DEF RaceInv
  <1> QED BY <1>2, <1>4, <1>6, <1>8, <1>9, <1>10 DEF RaceInv

\* What a source decides, with a value to report ...
LEMMA SpeakStep == ASSUME RaceInv, NEW s \in Sources, NEW v \in Values, Speak(s, v) PROVE RaceInv'
  <1> DEFINE t   == session[s].type
             new == Recorded(t, s, v)
             rows == Rows(t) \cup new
  <1>1. PICK w \in SourceWrites(s, t, v, session[s].loaded) : Decided(s, w, TRUE)
    BY DEF Speak
  <1>2. In(s, "loaded") /\ s \in Jobs /\ t \in Types
    BY DEF Speak, RaceInv, SessionOK, In, Jobs
  <1>3. PICK f \in FieldWrites(t, rows, session[s].loaded) : w = Written(s, t, new, f)
    BY DEF SourceWrites
  <1>4. /\ w.source = s /\ w.type = t /\ w.drop = NoType /\ w.add = new /\ w.field = f
        /\ w = Written(s, t, w.add, w.field)
    BY <1>3 DEF Written
  <1>5. /\ Rows(t) \in SUBSET claims /\ new \in SUBSET Claim /\ claims \subseteq Claim
        /\ \A c, d \in new : c = d
        /\ \A c \in new : c.at = now /\ c.type = t
    BY <1>2 DEF Recorded, Rows, Claim, RaceInv, TypeOK
  <1>6. rows # {}
    BY DEF Recorded, Asserted
  <1>7. \E b \in rows : IsBest(b, rows)
    <2> HIDE DEF new
    <2> QED BY <1>5, <1>6, BestWith DEF RaceInv
  <1>8. /\ f.flag \subseteq Nat /\ f.value \in Values \cup {NoValue}
        /\ f.event \in SUBSET (Values \X Values)
    <2>1. rows \in SUBSET Claim
      BY <1>5
    <2> HIDE DEF rows
    <2> QED BY <1>7, <2>1, FieldOK
  <1> HIDE DEF t, new
  <1>9. WritesOK(w)
    BY <1>2, <1>4, <1>5, <1>8 DEF WritesOK
  <1>10. ASSUME alone[s] PROVE Current(s, w.type, w, TRUE)
    <2>1. session[s].loaded = column[t]
      BY <1>2, <1>10 DEF RaceInv, Fresh, t
    <2> QED BY <1>3, <1>4, <1>5, <1>6, <2>1 DEF Current
  <1> QED BY <1>1, <1>2, <1>4, <1>5, <1>9, <1>10, DecideStep

\* ... or with none.
LEMMA PassStep == ASSUME RaceInv, NEW s \in Sources, Pass(s) PROVE RaceInv'
  <1> DEFINE t == session[s].type
             w == Written(s, t, {}, NoWrites)
  <1>1. In(s, "loaded") /\ s \in Jobs /\ t \in Types /\ Decided(s, w, FALSE)
    BY DEF Pass, RaceInv, SessionOK, In, Jobs
  <1>2. /\ w.source = s /\ w.type = t /\ w.drop = NoType /\ w.add = {} /\ w.field = NoWrites
        /\ w = Written(s, t, w.add, w.field)
    BY DEF Written
  <1> HIDE DEF t, w
  <1>3. WritesOK(w)
    BY <1>1, <1>2 DEF WritesOK, NoWrites
  <1>4. Current(s, w.type, w, FALSE)
    BY <1>2 DEF Current
  <1> QED BY <1>1, <1>2, <1>3, <1>4, DecideStep

\* What a reconciliation decides.
LEMMA DecideMergeStep == ASSUME RaceInv, DecideMerge PROVE RaceInv'
  <1> DEFINE x    == session[Reconciler]
             keep == x.type
             drop == x.drop
             rows == Rows(keep) \cup Rows(drop)
  <1>1. PICK w \in MergeWrites(keep, drop, x.loaded) : Decided(Reconciler, w, TRUE)
    BY DEF DecideMerge
  <1>2. /\ In(Reconciler, "loaded") /\ Reconciler \in Jobs /\ Reconciler \notin Sources
        /\ keep \in Types /\ drop \in Types \cup {NoType}
    BY RacesAssumption DEF DecideMerge, RaceInv, SessionOK, In, Jobs
  <1>3. PICK f : /\ w = MergedWith(keep, drop, f)
                 /\ \/ f = NoWrites
                    \/ rows # {} /\ f \in FieldWrites(keep, rows, x.loaded)
    BY DEF MergeWrites
  <1>4. w.source = Numista /\ w.type = keep /\ w.drop = drop /\ w.add = {} /\ w.field = f
    BY <1>3 DEF MergedWith
  <1>5. /\ f.flag \subseteq Nat /\ f.value \in Values \cup {NoValue}
        /\ f.event \in SUBSET (Values \X Values)
    <2>1. CASE f = NoWrites
      BY <2>1 DEF NoWrites
    <2>2. CASE rows # {} /\ f \in FieldWrites(keep, rows, x.loaded)
      <3>1. rows \in SUBSET claims /\ rows \in SUBSET Claim
        BY DEF Rows, RaceInv, TypeOK
      <3> HIDE DEF rows
      <3>2. \E b \in rows : IsBest(b, rows)
        BY <2>2, <3>1 DEF RaceInv, Bests
      <3> QED BY <2>2, <3>1, <3>2, FieldOK
    <2> QED BY <1>3, <2>1, <2>2
  <1> HIDE DEF x, keep, drop, rows
  <1>6. WritesOK(w)
    BY <1>2, <1>4, <1>5 DEF WritesOK, Sources
  <1> QED BY <1>1, <1>2, <1>4, <1>6, DecideStep

\* A session's writes reach the tables.
LEMMA CommitStep == ASSUME RaceInv, NEW j \in Jobs, Commit(j) PROVE RaceInv'
  <1> DEFINE w == session[j].writes
  <1>1. /\ In(j, "decided") /\ WritesOK(w) /\ Apply(w) /\ now' = now /\ aborts' = aborts
        /\ session' = [session EXCEPT ![j] = Idle] /\ alone' = [alone EXCEPT ![j] = FALSE]
    BY DEF Commit, Close, RaceInv, SessionOK, In
  <1> HIDE DEF w
  <1>2. TypeOK' /\ claims' = {Moved(c, w) : c \in claims} \cup w.add
    BY <1>1, ApplyTyped DEF RaceInv
  <1>3. Bests'
    BY <1>1, <1>2, ApplyBests DEF RaceInv
  <1>4. /\ session' = [k \in Jobs |-> session'[k]] /\ session'[j] = Idle
        /\ \A k \in Jobs \ {j} : session'[k] = session[k] /\ alone'[k] = alone[k]
        /\ alone'[j] = FALSE /\ alone' \in [Jobs -> BOOLEAN] /\ aborts' \in Nat
    BY <1>1 DEF RaceInv
  <1>5. \A c \in claims' : c \in w.add \/ \E d \in claims : c = Moved(d, w) /\ c.at = d.at
    BY <1>1, <1>2, MovedClaim DEF RaceInv, TypeOK
  <1>6. \A c \in w.add : c.at < now /\ \A d \in claims : d.at # c.at
    BY <1>1 DEF RaceInv, Pending, w
  <1>7. \A c \in claims' : c.at < now'
    BY <1>1, <1>5, <1>6 DEF RaceInv
  <1>8. ASSUME NEW c \in claims', NEW d \in claims', c.at = d.at PROVE c = d
    BY <1>1, <1>5, <1>6, <1>8 DEF RaceInv, WritesOK
  <1>9. ASSUME NEW k \in Jobs PROVE SessionOK(k)'
    BY <1>4 DEF RaceInv, SessionOK, WritesOK
  <1>10. ASSUME NEW k \in Jobs PROVE Pending(k)'
    <2> SUFFICES ASSUME k # j, In(k, "decided"), NEW c \in session[k].writes.add
                 PROVE  /\ c.at < now' /\ \A d \in claims' : d.at # c.at
                        /\ \A i \in Jobs \ {k} : In(i, "decided")' =>
                              \A d \in session'[i].writes.add : d.at # c.at
      BY <1>4 DEF Pending, In
    <2>1. c.at < now' /\ \A d \in claims : d.at # c.at
      BY <1>1 DEF RaceInv, Pending
    <2>2. \A d \in w.add : d.at # c.at
      BY <1>1 DEF RaceInv, Pending, w
    <2>3. \A i \in Jobs \ {k} : In(i, "decided")' => \A d \in session'[i].writes.add : d.at # c.at
      BY <1>4 DEF RaceInv, Pending, In
    <2> QED BY <1>5, <2>1, <2>2, <2>3
  <1>11. ASSUME NEW s \in Sources PROVE Fresh(s)'
    <2> SUFFICES ASSUME s # j, alone[s] PROVE FALSE
      BY <1>4 DEF Fresh, Jobs
    <2> QED BY <1>1 DEF RaceInv, Fresh, In
  <1> QED BY <1>2, <1>3, <1>4, <1>7, <1>8, <1>9, <1>10, <1>11 DEF RaceInv

\* A session ends without its writes.
LEMMA RollBackStep ==
    ASSUME RaceInv, NEW j \in Jobs, session[j] # Idle, Close(j), UNCHANGED vars, aborts' \in Nat
    PROVE  RaceInv'
  <1>1. /\ session' = [k \in Jobs |-> session'[k]] /\ session'[j] = Idle
        /\ \A k \in Jobs \ {j} : session'[k] = session[k] /\ alone'[k] = alone[k]
        /\ alone'[j] = FALSE /\ alone' \in [Jobs -> BOOLEAN]
    BY DEF RaceInv, Close
  <1>2. TypeOK' /\ Bests' /\ claims' = claims /\ now' = now
    BY DEF RaceInv, TypeOK, Bests, IsBest, Outranks, vars
  <1>3. ASSUME NEW k \in Jobs PROVE SessionOK(k)'
    BY <1>1 DEF RaceInv, SessionOK, WritesOK
  <1>4. ASSUME NEW k \in Jobs PROVE Pending(k)'
    BY <1>1, <1>2 DEF RaceInv, Pending, In
  <1>5. ASSUME NEW s \in Sources PROVE Fresh(s)'
    <2> SUFFICES ASSUME s # j, alone[s] PROVE FALSE
      BY <1>1 DEF Fresh, Jobs
    <2> QED BY DEF RaceInv, Fresh
  <1> QED BY <1>1, <1>2, <1>3, <1>4, <1>5 DEF RaceInv

LEMMA RaceInvStep == RaceInv /\ [RaceNext]_raceVars => RaceInv'
  <1> SUFFICES ASSUME RaceInv, [RaceNext]_raceVars PROVE RaceInv'
    OBVIOUS
  <1>1. ASSUME NEW s \in Sources, NEW t \in Types, Open(s, t) PROVE RaceInv'
    BY <1>1, OpenStep DEF Open, Jobs
  <1>2. ASSUME NEW keep \in Types, NEW drop \in Types, OpenMerge(keep, drop) PROVE RaceInv'
    BY <1>2, OpenStep DEF OpenMerge, Jobs
  <1>3. ASSUME NEW j \in Jobs, Refuse(j) \/ Abort(j) PROVE RaceInv'
    <2>1. session[j] # Idle /\ Close(j) /\ UNCHANGED vars /\ aborts' \in Nat
      BY <1>3 DEF Refuse, Abort, In, RaceInv
    <2> QED BY <2>1, RollBackStep
  <1>4. CASE UNCHANGED raceVars
    <2>1. UNCHANGED <<known, claims, winners, column, revised, now, session, alone, aborts>>
      BY <1>4 DEF raceVars, vars
    <2>2. TypeOK' /\ Bests'
      BY <2>1 DEF RaceInv, TypeOK, Bests, IsBest, Outranks
    <2>3. ASSUME NEW j \in Jobs PROVE SessionOK(j)' /\ Pending(j)'
      BY <2>1 DEF RaceInv, SessionOK, Pending, In, WritesOK
    <2>4. ASSUME NEW s \in Sources PROVE Fresh(s)'
      <3>1. Fresh(s)
        BY DEF RaceInv
      <3>2. \A t, a, f : Written(s, t, a, f)' = Written(s, t, a, f)
        BY <2>1 DEF Written
      <3>3. \A t, rows, loaded : FieldWrites(t, rows, loaded)' = FieldWrites(t, rows, loaded)
        BY <2>1 DEF FieldWrites, Unflagged
      <3> QED BY <2>1, <3>1, <3>2, <3>3 DEF Fresh, In, Rows
    <2> QED BY <2>1, <2>2, <2>3, <2>4 DEF RaceInv
  <1> QED BY <1>1, <1>2, <1>3, <1>4, SpeakStep, PassStep, DecideMergeStep, CommitStep
          DEF RaceNext

\* AloneRepairs: a run that had the coin to itself and a value to report leaves its type
\* resolved, whatever overlapping runs left before it.
THEOREM AloneRun == RaceSpec => AloneRepairs
  <1>1. ASSUME RaceInv, [RaceNext]_raceVars, NEW s \in Sources, NEW t \in Types,
               alone[s], In(s, "decided"), aborts' = aborts, session'[s] = Idle,
               session[s].type = t, session[s].resolves
        PROVE  Resolved(t)'
    <2> DEFINE w    == session[s].writes
               rows == Rows(t) \cup w.add
               f    == w.field
    <2>1. /\ session[s] # Idle /\ s \in Jobs /\ \A k \in Jobs \ {s} : session[k] = Idle
          /\ WritesOK(w) /\ w = Written(s, t, w.add, w.field)
          /\ \A c \in w.add : c.type = t
          /\ rows # {} /\ f \in FieldWrites(t, rows, column[t])
      BY <1>1 DEF RaceInv, Fresh, In, Jobs, SessionOK
    <2>2. Commit(s) \/ Refuse(s)
      <3>1. ASSUME NEW j \in Jobs, session[j] = Idle \/ In(j, "loaded"), NEW y,
                   session' = [session EXCEPT ![j] = y]
            PROVE  FALSE
        BY <1>1, <2>1, <3>1 DEF In, RaceInv
      <3>2. \A j \in Jobs : ~Abort(j)
        BY <1>1 DEF Abort, RaceInv
      <3>3. \A j \in Jobs : Commit(j) \/ Refuse(j) => j = s
        BY <2>1 DEF Commit, Refuse, In
      <3>4. \A j \in Jobs : \A u, drop : ~Opened(j, u, drop)
        BY <3>1 DEF Opened
      <3>5. \A j \in Jobs : \A x, b : ~(In(j, "loaded") /\ Decided(j, x, b))
        BY <3>1 DEF Decided
      <3>6. raceVars' # raceVars
        BY <1>1, <2>1 DEF raceVars
      <3>7. \A r \in Sources : r \in Jobs /\ Reconciler \in Jobs
        BY DEF Jobs
      <3> QED BY <1>1, <3>2, <3>3, <3>4, <3>5, <3>6, <3>7
              DEF RaceNext, Open, OpenMerge, Speak, Pass, DecideMerge
    <2>3. ~Refuse(s)
      <3>1. w.attach = (known[s] # t) /\ w.type = t
        BY <2>1 DEF Written
      <3> QED BY <3>1 DEF Refuse, Refused, Alive
    <2>4. Apply(Written(s, t, w.add, f)) /\ now' = now /\ TypeOK
      <3>1. Apply(w) /\ now' = now
        BY <2>2, <2>3 DEF Commit
      <3>2. TypeOK
        BY <1>1 DEF RaceInv
      <3> HIDE DEF w
      <3> QED BY <2>1, <3>1, <3>2
    <2>5. /\ claims' = claims \cup w.add
          /\ winners' = (winners \ f.unflag) \cup f.flag
          /\ column' = [u \in Types |-> IF u = t /\ f.value # NoValue THEN f.value
                                                                        ELSE column[u]]
      BY <2>4, WrittenEffect
    <2>6. /\ rows \in SUBSET Claim /\ Rows(t) \in SUBSET claims
          /\ \A c, d \in w.add : c = d
          /\ \A c \in w.add : \A d \in claims : d.at # c.at
      BY <1>1, <2>1, <2>4 DEF Rows, TypeOK, WritesOK, RaceInv, Pending
    <2>7. \A c, d \in rows : c.at = d.at => c = d
      BY <1>1, <2>6 DEF RaceInv
    <2>8. \A c : c \in rows <=> c \in claims' /\ c.type = t
      BY <2>1, <2>5 DEF Rows
    <2>9. \E b \in rows : IsBest(b, rows)
      <3>1. w.add \in SUBSET Claim /\ claims \subseteq Claim /\ Bests
        BY <1>1, <2>1 DEF WritesOK, RaceInv, TypeOK
      <3> HIDE DEF w
      <3> QED BY <2>1, <2>6, <3>1, BestWith
    <2> HIDE DEF rows, f, w
    <2>10. Best(rows) \in rows /\ IsBest(Best(rows), rows)
      BY <2>9, BestIsBest
    <2>11. f.flag = {Best(rows).at} \ winners
      BY <2>1, <2>6, <2>10, FieldEffect
    <2>12. f.unflag = Unflagged(rows, Best(rows))
      BY <2>1, <2>6, <2>10, FieldEffect
    <2>13. f.value = (IF Best(rows).value = column[t] THEN NoValue ELSE Best(rows).value)
      BY <2>1, <2>6, <2>10, FieldEffect
    <2>14. column'[t] = Best(rows).value
      <3>1. Best(rows).value # NoValue
        BY <2>6, <2>10, ClaimShape, ConsensusAssumption
      <3> QED BY <2>5, <2>13, <3>1
    <2>15. winners' = (winners \ Unflagged(rows, Best(rows))) \cup ({Best(rows).at} \ winners)
      BY <2>5, <2>11, <2>12
    <2> QED BY <2>6, <2>7, <2>8, <2>10, <2>14, <2>15, ResolvesType
  <1>2. RaceInv /\ [RaceNext]_raceVars =>
           [\A s \in Sources, t \in Types :
               /\ alone[s] /\ In(s, "decided") /\ aborts' = aborts /\ session'[s] = Idle
               /\ session[s].type = t /\ session[s].resolves
               => Resolved(t)']_raceVars
    BY <1>1
  <1> QED BY <1>2, RaceInvInit, RaceInvStep, PTL DEF RaceSpec, AloneRepairs
================================================================================
