------------------------------ MODULE SyncJobProofs ------------------------------
(***************************************************************************)
(* What the history of a job and its cursor promise, for any number of      *)
(* units, transactions a unit takes, calls and command-line runs, and any    *)
(* bound on faults.                                                          *)
(***************************************************************************)
EXTENDS SyncJob, FiniteSetTheorems, TLAPS

-----------------------------------------------------------------------------
(* The invariant.                                                           *)

Places == {"idle", "checked", "queued", "begun", "looked", "running", "fetched",
           "committed", "refused"}

\* The rows, the cursors and where the tasks are; a unit on its way is not in the cursor, and
\* only such a unit has transactions behind it.
Shape ==
    /\ pc \in [Tasks -> Places]
    /\ unit \in [Tasks -> Units \cup {NoUnit}] /\ part \in [Tasks -> 0..(Parts - 1)]
    /\ cursor \in [Tasks -> SUBSET Units]
    /\ target \in [Tasks -> Tasks \cup {Nobody}] /\ missed \in [Tasks -> SUBSET Tasks]
    /\ row \in [Tasks -> Row] /\ latest \in Tasks \cup {Nobody}
    /\ served \subseteq Units /\ begun \subseteq Units /\ crossed \subseteq Tasks
    /\ repeats \in Nat /\ losses \in Nat /\ broken \in Nat
    /\ \A t \in Tasks : /\ pc[t] \in {"fetched", "committed"} => unit[t] \in Units \ cursor[t]
                        /\ part[t] > 0 => pc[t] = "fetched"
                        /\ missed[t] # {} => Opening(t)

\* A run that is being opened knows which row it has to close, unless another was opened
\* meanwhile; then the latest is one of those, or was opened across one.
Informed ==
    \A t \in Tasks :
        /\ pc[t] = "looked" /\ missed[t] = {} =>
              (LatestRow.status = "running" => target[t] = latest)
        /\ missed[t] # {} => latest \in missed[t] \cup crossed

\* A run on its way is the latest, its row is open and has the cursor in memory.
Single ==
    \A t \in Tasks : InBody(t) => /\ t = latest /\ row[t].status = "running"
                                  /\ row[t].cursor = cursor[t]

\* A run that is being opened alone goes on from where the history stands.
Alone ==
    \A t \in Tasks : pc[t] = "looked" /\ missed[t] = {} =>
        /\ \A k \in Tasks : ~InBody(k)
        /\ cursor[t] = Resumed(LatestRow)

\* The units of the cycle that nobody has to ask for again, as things stand ...
Standing ==
    IF latest # Nobody /\ InBody(latest) THEN Done(latest) ELSE Resumed(LatestRow)
\* ... and the one that is being worked through.
Underway ==
    IF latest # Nobody /\ InBody(latest) /\ part[latest] > 0 THEN {unit[latest]} ELSE {}
Touched == Standing \cup Underway

\* They were served; each other unit that was begun is the work of a break not yet repeated.
Kept ==
    /\ Standing \subseteq served
    /\ Cardinality(begun \ Touched) + repeats <= losses + broken

JobInv == Shape /\ OneOpenRun /\ Informed /\ (~overlap => Single /\ Alone /\ Kept)

\* What is left of a cycle is finite.
LEMMA BegunFinite ==
    ASSUME begun \subseteq Units, NEW S
    PROVE  IsFiniteSet(begun \ S) /\ Cardinality(begun \ S) \in Nat
<1>1. IsFiniteSet(begun \ S)
    BY FS_Subset, SyncAssumption
<1> QED
    BY <1>1, FS_CardinalityType

LEMMA NoWorse ==
    ASSUME NEW c \in Nat, NEW r \in Nat, NEW l \in Nat, NEW b \in Nat, NEW m \in Nat, NEW n \in Nat,
           c + r <= l + b, m >= l, n >= b
    PROVE  c + r <= m + n
    OBVIOUS

LEMMA OneLess ==
    ASSUME NEW c \in Nat, NEW r \in Nat, NEW q \in Nat, NEW l \in Nat, NEW b \in Nat,
           c + r <= l + b, q <= r + 1
    PROVE  (c - 1) + q <= l + b
    OBVIOUS

LEMMA OneMore ==
    ASSUME NEW c \in Nat, NEW d \in Nat, NEW r \in Nat, NEW l \in Nat, NEW b \in Nat,
           c + r <= l + b, d <= c + 1
    PROVE  d + r <= (l + 1) + b /\ d + r <= l + (b + 1)
    OBVIOUS

\* A step that changes none of this keeps it.
LEMMA KeptStays ==
    ASSUME Shape, Kept, Standing' = Standing, Underway' = Underway, served' = served,
           begun' = begun, repeats' = repeats, losses' \in Nat, broken' \in Nat,
           losses' >= losses, broken' >= broken
    PROVE  Kept'
<1>1. Cardinality(begun \ Touched) \in Nat
    BY BegunFinite DEF Shape
<1>2. Touched' = Touched
    BY DEF Touched
<1>3. Cardinality(begun \ Touched)' = Cardinality(begun \ Touched)
    BY <1>2
<1>4. Cardinality(begun \ Touched) + repeats <= losses + broken /\ Standing \subseteq served
    BY DEF Kept
<1>5. Cardinality(begun \ Touched)' + repeats' <= losses' + broken'
  <2> DEFINE c == Cardinality(begun \ Touched)
             d == Cardinality(begun' \ Touched')
  <2>1. repeats \in Nat /\ losses \in Nat /\ broken \in Nat
    BY DEF Shape
  <2>2. c \in Nat /\ d \in Nat /\ d = c /\ c + repeats <= losses + broken
    BY <1>1, <1>3, <1>4
  <2> HIDE DEF c, d
  <2>3. d + repeats' <= losses' + broken'
    BY <2>1, <2>2, NoWorse
  <2> QED
    BY <2>3 DEF d
<1> QED
    BY <1>4, <1>5 DEF Kept

-----------------------------------------------------------------------------
(* Steps outside the body of a run.                                         *)

\* What is said of the runs, not of their opening.
record == <<row, latest, served, begun, repeats, losses, broken, crossed>>

\* Nothing moves: the clock, a run that is skipped, a restart.
LEMMA StillStep ==
    ASSUME JobInv, UNCHANGED record, UNCHANGED taskVars, overlap' = overlap
    PROVE  JobInv'
<1>1. \A t \in Tasks : /\ InBody(t)' <=> InBody(t)
                       /\ Opening(t)' <=> Opening(t)
    BY DEF InBody, Opening, taskVars
<1>2. Shape' /\ OneOpenRun' /\ LatestRow' = LatestRow
    BY <1>1 DEF JobInv, Shape, OneOpenRun, LatestRow, record, taskVars
<1>3. Resumed(LatestRow)' = Resumed(LatestRow)
    BY <1>2 DEF Resumed
<1>4. Informed' /\ (~overlap' => Single' /\ Alone')
    BY <1>1, <1>2, <1>3 DEF JobInv, Informed, Single, Alone, record, taskVars
<1>5. Standing' = Standing /\ Underway' = Underway
    BY <1>3 DEF Standing, Underway, Done, InBody, record, taskVars
<1>6. ~overlap' => Kept'
    BY <1>5, KeptStays DEF JobInv, Shape, record
<1> QED
    BY <1>2, <1>4, <1>6 DEF JobInv

\* A task moves outside the body, and no run is opened or closed.
LEMMA OutsideStep ==
    ASSUME JobInv, UNCHANGED record, ~overlap' => ~overlap,
           pc' \in [Tasks -> Places], unit' \in [Tasks -> Units \cup {NoUnit}],
           part' \in [Tasks -> 0..(Parts - 1)], cursor' \in [Tasks -> SUBSET Units],
           target' \in [Tasks -> Tasks \cup {Nobody}], missed' \in [Tasks -> SUBSET Tasks],
           NEW t \in Tasks, ~InBody(t), ~InBody(t)', part'[t] = 0, missed'[t] # {} => Opening(t)',
           \A k \in Tasks \ {t} : /\ pc'[k] = pc[k] /\ unit'[k] = unit[k] /\ part'[k] = part[k]
                                  /\ cursor'[k] = cursor[k] /\ target'[k] = target[k]
                                  /\ missed'[k] = missed[k]
    PROVE  /\ Shape' /\ OneOpenRun' /\ (~overlap' => Single' /\ Kept') /\ LatestRow' = LatestRow
           /\ \A k \in Tasks : InBody(k)' <=> InBody(k)
<1>1. pc'[t] \notin {"fetched", "committed"}
    BY DEF InBody
<1>2. \A k \in Tasks : /\ InBody(k)' <=> InBody(k)
                       /\ InBody(k) => /\ pc'[k] = pc[k] /\ cursor'[k] = cursor[k]
                                       /\ unit'[k] = unit[k] /\ part'[k] = part[k]
    BY DEF InBody
<1>3. Shape'
    BY <1>1 DEF JobInv, Shape, record, Opening
<1>4. OneOpenRun' /\ LatestRow' = LatestRow
    BY DEF JobInv, OneOpenRun, LatestRow, record
<1>5. Standing' = Standing /\ Underway' = Underway
  <2>1. CASE latest \in Tasks /\ InBody(latest)
    <3>1. latest' = latest /\ latest # Nobody /\ InBody(latest)'
      BY <1>2, <2>1, SyncAssumption DEF record
    <3>2. Done(latest)' = Done(latest) /\ part'[latest] = part[latest] /\ unit'[latest] = unit[latest]
      BY <1>2, <2>1 DEF Done, record
    <3> QED
      BY <2>1, <3>1, <3>2 DEF Standing, Underway
  <2>2. CASE latest = Nobody \/ ~InBody(latest)
    <3>1. latest = Nobody \/ ~InBody(latest)'
      BY <1>2, <2>2 DEF JobInv, Shape, record
    <3> QED
      BY <1>4, <2>2, <3>1 DEF Standing, Underway, Resumed, record
  <2> QED
    BY <2>1, <2>2 DEF JobInv, Shape
<1>6. ~overlap' => Single' /\ Kept'
  <2> SUFFICES ASSUME ~overlap PROVE Single' /\ Kept'
    OBVIOUS
  <2>1. Single'
    BY <1>2 DEF JobInv, Single, record
  <2>2. Kept'
    BY <1>5, KeptStays DEF JobInv, Shape, record
  <2> QED
    BY <2>1, <2>2
<1> QED
    BY <1>2, <1>3, <1>4, <1>6

\* A task that has not looked for the latest run has nothing to know of it.
LEMMA UnawareStep ==
    ASSUME JobInv, UNCHANGED record, overlap' = overlap,
           NEW to \in Places \ {"looked"}, NEW t \in Tasks, pc' = [pc EXCEPT ![t] = to],
           unit' \in [Tasks -> Units \cup {NoUnit}],
           part' \in [Tasks -> 0..(Parts - 1)], cursor' \in [Tasks -> SUBSET Units],
           target' \in [Tasks -> Tasks \cup {Nobody}], missed' \in [Tasks -> SUBSET Tasks],
           ~InBody(t), ~InBody(t)', part'[t] = 0, missed'[t] = {},
           \A k \in Tasks \ {t} : /\ unit'[k] = unit[k] /\ part'[k] = part[k]
                                  /\ cursor'[k] = cursor[k] /\ target'[k] = target[k]
                                  /\ missed'[k] = missed[k]
    PROVE  JobInv'
<1>1. /\ pc' \in [Tasks -> Places] /\ pc'[t] = to /\ \A k \in Tasks \ {t} : pc'[k] = pc[k]
    BY DEF JobInv, Shape
<1>2. /\ Shape' /\ OneOpenRun' /\ (~overlap' => Single' /\ Kept') /\ LatestRow' = LatestRow
      /\ \A k \in Tasks : InBody(k)' <=> InBody(k)
    BY <1>1, OutsideStep
<1>3. Informed'
    BY <1>1, <1>2 DEF JobInv, Informed, record
<1>4. ASSUME ~overlap PROVE Alone'
  <2>1. Resumed(LatestRow)' = Resumed(LatestRow)
    BY <1>2 DEF Resumed
  <2> QED
    BY <1>1, <1>2, <1>4, <2>1 DEF JobInv, Alone
<1> QED
    BY <1>2, <1>3, <1>4 DEF JobInv

\* Calls that come and wait, and openings that begin.
LEMMA CallStep ==
    ASSUME JobInv,
           \/ Tick \/ Fire \/ Skip \/ Restart
           \/ \E m \in Manuals : Trigger(m) \/ Background(m)
           \/ \E c \in Clis : RunCli(c)
           \/ \E t \in Tasks : Begin(t)
    PROVE  JobInv'
<1>1. CASE Tick \/ Skip \/ Restart
    BY <1>1, StillStep DEF Tick, Skip, Restart, ageVars, audit, record
<1>2. ASSUME NEW t \in Tasks, pc[t] \in {"idle", "checked", "queued"},
             NEW to \in {"checked", "queued", "begun"}, pc' = [pc EXCEPT ![t] = to],
             UNCHANGED <<unit, part, cursor, target, missed, record, overlap>>
      PROVE  JobInv'
  <2>1. to \in Places \ {"looked"} /\ ~InBody(t) /\ ~InBody(t)' /\ ~Opening(t)
    BY <1>2 DEF JobInv, Shape, Places, InBody, Opening
  <2>2. part[t] = 0 /\ missed[t] = {}
    BY <1>2, <2>1, SyncAssumption DEF JobInv, Shape
  <2>3. /\ unit \in [Tasks -> Units \cup {NoUnit}] /\ part \in [Tasks -> 0..(Parts - 1)]
        /\ cursor \in [Tasks -> SUBSET Units] /\ target \in [Tasks -> Tasks \cup {Nobody}]
        /\ missed \in [Tasks -> SUBSET Tasks]
    BY DEF JobInv, Shape
  <2>4. UNCHANGED record /\ overlap' = overlap /\ UNCHANGED <<unit, part, cursor, target, missed>>
    BY <1>2
  <2> QED
    BY <1>2, <2>1, <2>2, <2>3, <2>4, UnawareStep
<1>3. CASE Fire
    BY <1>2, <1>3 DEF Fire, Tasks, Servers, ageVars, audit, record
<1>4. ASSUME NEW m \in Manuals, Trigger(m) \/ Background(m)
      PROVE  JobInv'
    BY <1>2, <1>4 DEF Trigger, Background, Tasks, Servers, ageVars, audit, record
<1>5. ASSUME NEW c \in Clis, RunCli(c)
      PROVE  JobInv'
    BY <1>2, <1>5 DEF RunCli, Tasks, ageVars, audit, record
<1>6. ASSUME NEW t \in Tasks, Begin(t)
      PROVE  JobInv'
    BY <1>2, <1>6 DEF Begin, ageVars, audit, record
<1> QED
    BY <1>1, <1>3, <1>4, <1>5, <1>6

LEMMA FailOpeningStep == ASSUME JobInv, NEW t \in Tasks, FailOpening(t) PROVE JobInv'
<1> USE SyncAssumption
<1>1. /\ Opening(t) /\ pc' = [pc EXCEPT ![t] = "idle"]
      /\ unit' = [unit EXCEPT ![t] = NoUnit] /\ part' = [part EXCEPT ![t] = 0]
      /\ cursor' = [cursor EXCEPT ![t] = {}]
      /\ target' = [target EXCEPT ![t] = Nobody] /\ missed' = [missed EXCEPT ![t] = {}]
      /\ UNCHANGED record /\ overlap' = overlap
    BY DEF FailOpening, Return, ageVars, audit, record
<1>2. ~InBody(t) /\ ~InBody(t)' /\ "idle" \in Places \ {"looked"}
    BY <1>1 DEF Opening, InBody, Places, JobInv, Shape
<1>3. /\ unit' \in [Tasks -> Units \cup {NoUnit}] /\ part' \in [Tasks -> 0..(Parts - 1)]
      /\ cursor' \in [Tasks -> SUBSET Units] /\ target' \in [Tasks -> Tasks \cup {Nobody}]
      /\ missed' \in [Tasks -> SUBSET Tasks] /\ part'[t] = 0 /\ missed'[t] = {}
    BY <1>1 DEF JobInv, Shape
<1>4. \A k \in Tasks \ {t} : /\ unit'[k] = unit[k] /\ part'[k] = part[k]
                             /\ cursor'[k] = cursor[k] /\ target'[k] = target[k]
                             /\ missed'[k] = missed[k]
    BY <1>1 DEF JobInv, Shape
<1> QED
    BY <1>1, <1>2, <1>3, <1>4, UnawareStep

-----------------------------------------------------------------------------
(* A run is opened.                                                         *)

LEMMA LatestRowType == Shape => LatestRow \in Row /\ Resumed(LatestRow) \subseteq Units
<1>1. Shape => LatestRow \in Row
    BY DEF Shape, LatestRow, Row
<1> QED
    BY <1>1 DEF Resumed, Row

LEMMA LookUpStep == ASSUME JobInv, NEW t \in Tasks, LookUp(t) PROVE JobInv'
<1> USE SyncAssumption
<1> DEFINE found == LatestRow.status = "running"
<1>1. /\ pc[t] = "begun" /\ pc' = [pc EXCEPT ![t] = "looked"]
      /\ cursor' = [cursor EXCEPT ![t] = Resumed(LatestRow)]
      /\ target' = [target EXCEPT ![t] = IF found THEN latest ELSE Nobody]
      /\ UNCHANGED <<unit, part, missed>> /\ UNCHANGED record
    BY DEF LookUp, record
<1>2. overlap' = (overlap \/ (found /\ InBody(latest)))
    BY DEF LookUp
<1>3. ~InBody(t) /\ ~InBody(t)' /\ Opening(t)' /\ part'[t] = 0 /\ "looked" \in Places
    BY <1>1 DEF InBody, Opening, Places, JobInv, Shape
<1>4. /\ pc' \in [Tasks -> Places] /\ cursor' \in [Tasks -> SUBSET Units]
      /\ target' \in [Tasks -> Tasks \cup {Nobody}]
    BY <1>1, <1>3, LatestRowType DEF JobInv, Shape
<1>5. /\ unit' \in [Tasks -> Units \cup {NoUnit}] /\ part' \in [Tasks -> 0..(Parts - 1)]
      /\ missed' \in [Tasks -> SUBSET Tasks]
    BY <1>1 DEF JobInv, Shape
<1>6. \A k \in Tasks \ {t} : /\ pc'[k] = pc[k] /\ unit'[k] = unit[k] /\ part'[k] = part[k]
                             /\ cursor'[k] = cursor[k] /\ target'[k] = target[k]
                             /\ missed'[k] = missed[k]
    BY <1>1 DEF JobInv, Shape
<1>7. ~overlap' => ~overlap
    BY <1>2
<1>8. /\ Shape' /\ OneOpenRun' /\ (~overlap' => Single' /\ Kept') /\ LatestRow' = LatestRow
      /\ \A k \in Tasks : InBody(k)' <=> InBody(k)
    BY <1>1, <1>3, <1>4, <1>5, <1>6, <1>7, OutsideStep
<1>9. pc'[t] = "looked" /\ cursor'[t] = Resumed(LatestRow) /\ (found => target'[t] = latest)
    BY <1>1 DEF JobInv, Shape
<1>10. Informed'
    BY <1>1, <1>6, <1>8, <1>9 DEF JobInv, Informed, record
<1>11. ASSUME ~overlap' PROVE Alone'
  <2>1. ~overlap /\ ~(found /\ InBody(latest))
    BY <1>2, <1>11
  <2>2. \A k \in Tasks : ~InBody(k)
    BY <2>1 DEF JobInv, Single, LatestRow
  <2>3. Resumed(LatestRow)' = Resumed(LatestRow)
    BY <1>8 DEF Resumed
  <2> QED
    BY <1>1, <1>6, <1>8, <1>9, <2>1, <2>2, <2>3 DEF JobInv, Alone
<1> QED
    BY <1>8, <1>10, <1>11 DEF JobInv

LEMMA OpenStep == ASSUME JobInv, NEW t \in Tasks, OpenRun(t) PROVE JobInv'
<1> USE SyncAssumption
<1> DEFINE late    == missed[t] # {}
           closing == target[t] # Nobody
           closed  == IF closing /\ target[t] \notin missed[t] THEN CloseOrphan(target[t]) ELSE row
           new     == [status |-> "running", cursor |-> cursor[t]]
<1>1. /\ pc[t] = "looked" /\ pc' = [pc EXCEPT ![t] = "running"]
      /\ row' = [closed EXCEPT ![t] = new]
      /\ latest' \in {t} \cup (IF late THEN {latest} ELSE {})
      /\ target' = [target EXCEPT ![t] = Nobody]
      /\ missed' = [k \in Tasks |-> IF k = t THEN {}
                                    ELSE IF Opening(k) THEN missed[k] \cup {t} ELSE missed[k]]
      /\ crossed' = (crossed \ {t}) \cup (IF late THEN missed[t] \cup {t} ELSE {})
      /\ UNCHANGED <<unit, part, cursor, served, begun, repeats, broken, losses>>
    BY DEF OpenRun
<1>2. overlap' = (overlap \/ late)
    BY DEF OpenRun
<1>3. new \in Row /\ closed \in [Tasks -> Row]
  <2>1. new \in Row
    BY DEF JobInv, Shape, Row
  <2>2. closing => [row[target[t]] EXCEPT !.status = "failed"] \in Row
    BY DEF JobInv, Shape, Row
  <2>3. closed \in [Tasks -> Row]
    BY <2>2 DEF CloseOrphan, JobInv, Shape
  <2> QED
    BY <2>1, <2>3
<1>4. \A k \in Tasks : closed[k].status = "running" =>
                          row[k].status = "running" /\ (k = target[t] => late)
  <2> SUFFICES ASSUME NEW k \in Tasks, closed[k].status = "running"
               PROVE  row[k].status = "running" /\ (k = target[t] => late)
    OBVIOUS
  <2>1. CASE closing /\ target[t] \notin missed[t]
    <3>1. closed[target[t]].status = "failed" /\ (k # target[t] => closed[k] = row[k])
      BY <2>1 DEF CloseOrphan, JobInv, Shape, Row
    <3> QED
      BY <3>1
  <2>2. CASE ~(closing /\ target[t] \notin missed[t])
    BY <2>2
  <2> QED
    BY <2>1, <2>2
<1> HIDE DEF closed, new
<1>5. /\ row' \in [Tasks -> Row] /\ row'[t] = new /\ \A k \in Tasks \ {t} : row'[k] = closed[k]
    BY <1>1, <1>3
<1>6. /\ pc' \in [Tasks -> Places] /\ pc'[t] = "running"
      /\ \A k \in Tasks \ {t} : pc'[k] = pc[k]
    BY <1>1 DEF JobInv, Shape, Places
<1>7. latest' \in {t, latest} /\ (latest' # t => late)
    BY <1>1
<1>8. /\ \A k \in Tasks : k \in crossed /\ k # t => k \in crossed'
      /\ late => t \in crossed' /\ missed[t] \subseteq crossed'
    BY <1>1
<1>9. Shape'
  <2>1. missed' \in [Tasks -> SUBSET Tasks] /\ crossed' \subseteq Tasks
    BY <1>1 DEF JobInv, Shape
  <2>2. \A k \in Tasks : missed'[k] # {} => Opening(k)'
    BY <1>1, <1>6 DEF Opening, JobInv, Shape
  <2>3. \A k \in Tasks : pc'[k] \in {"fetched", "committed"} <=> pc[k] \in {"fetched", "committed"}
    BY <1>1, <1>6
  <2>4. \A k \in Tasks : part[k] > 0 => pc'[k] = "fetched"
    BY <1>1, <1>6 DEF JobInv, Shape
  <2>5. \A k \in Tasks : pc'[k] \in {"fetched", "committed"} => unit'[k] \in Units \ cursor'[k]
    BY <1>1, <2>3 DEF JobInv, Shape
  <2>6. /\ unit' \in [Tasks -> Units \cup {NoUnit}] /\ part' \in [Tasks -> 0..(Parts - 1)]
        /\ cursor' \in [Tasks -> SUBSET Units] /\ target' \in [Tasks -> Tasks \cup {Nobody}]
        /\ latest' \in Tasks \cup {Nobody} /\ served' \subseteq Units /\ begun' \subseteq Units
        /\ repeats' \in Nat /\ losses' \in Nat /\ broken' \in Nat
    BY <1>1, <1>7 DEF JobInv, Shape
  <2>7. \A k \in Tasks : part'[k] > 0 => pc'[k] = "fetched"
    BY <1>1, <2>4
  <2> QED
    BY <1>5, <1>6, <2>1, <2>2, <2>5, <2>6, <2>7 DEF Shape
<1>10. late => latest \in missed[t] \cup crossed
    BY DEF JobInv, Informed
<1>11. OneOpenRun'
  <2> SUFFICES ASSUME NEW k \in Tasks, row'[k].status = "running"
               PROVE  k = latest' \/ k \in crossed'
    BY DEF OneOpenRun
  <2>1. CASE k = t
    BY <1>7, <1>8, <2>1
  <2>2. CASE k # t
    <3>1. row[k].status = "running" /\ (k = target[t] => late)
      BY <1>4, <1>5, <2>2
    <3>2. CASE k \in crossed
      BY <1>8, <2>2, <3>2
    <3>3. CASE k = latest
      <4>1. LatestRow.status = "running"
        BY <3>1, <3>3 DEF LatestRow
      <4>2. late
        BY <1>1, <3>1, <3>3, <4>1 DEF JobInv, Informed
      <4> QED
        BY <1>8, <1>10, <2>2, <3>3, <4>2
    <3> QED
      BY <3>1, <3>2, <3>3 DEF JobInv, OneOpenRun
  <2> QED
    BY <2>1, <2>2
<1>12. \A k \in Tasks : ~(pc'[k] = "looked" /\ missed'[k] = {})
    BY <1>1, <1>6 DEF Opening
<1>13. Informed'
  <2> SUFFICES ASSUME NEW k \in Tasks, missed'[k] # {} PROVE latest' \in missed'[k] \cup crossed'
    BY <1>12 DEF Informed
  <2>1. t \in missed'[k]
    BY <1>1 DEF JobInv, Shape
  <2>2. CASE latest' = t
    BY <2>1, <2>2
  <2>3. CASE latest' # t
    BY <1>7, <1>8, <1>10, <2>3 DEF JobInv, Shape
  <2> QED
    BY <2>2, <2>3
<1>14. ASSUME ~overlap' PROVE Single' /\ Alone' /\ Kept'
  <2>1. ~overlap /\ ~late /\ latest' = t
    BY <1>2, <1>7, <1>14
  <2>2. (\A k \in Tasks : ~InBody(k)) /\ cursor[t] = Resumed(LatestRow)
    BY <1>1, <2>1 DEF JobInv, Alone
  <2>3. \A k \in Tasks : InBody(k)' => k = t
    BY <1>6, <2>2 DEF InBody
  <2>4. Single' /\ Alone'
    BY <1>1, <1>5, <1>12, <2>1, <2>3 DEF Single, Alone, new
  <2>5. Standing = cursor[t] /\ Underway = {}
    BY <2>2 DEF Standing, Underway, JobInv, Shape
  <2>6. t # Nobody /\ InBody(t)' /\ part[t] = 0
    BY <1>1, <1>6 DEF InBody, JobInv, Shape
  <2>7. Done(t)' = cursor[t]
    BY <1>1, <1>6 DEF Done
  <2>8. Standing' = cursor[t] /\ Underway' = {}
    BY <1>1, <2>1, <2>6, <2>7 DEF Standing, Underway
  <2>9. Kept'
    BY <1>1, <2>1, <2>5, <2>8, KeptStays DEF JobInv, Shape
  <2> QED
    BY <2>4, <2>9
<1> QED
    BY <1>9, <1>11, <1>13, <1>14 DEF JobInv

-----------------------------------------------------------------------------
(* The body of a run, and its end.                                          *)

\* What a step of a run in its body leaves alone, and what it must see to.
LEMMA BodyStep ==
    ASSUME JobInv, NEW t \in Tasks, InBody(t),
           NEW to \in {"idle", "running", "fetched", "committed", "refused"},
           pc' = [pc EXCEPT ![t] = to],
           unit' \in [Tasks -> Units \cup {NoUnit}], part' \in [Tasks -> 0..(Parts - 1)],
           cursor' \in [Tasks -> SUBSET Units], target' \in [Tasks -> Tasks \cup {Nobody}],
           missed' \in [Tasks -> SUBSET Tasks], row' \in [Tasks -> Row],
           \A k \in Tasks \ {t} : /\ unit'[k] = unit[k] /\ part'[k] = part[k]
                                  /\ cursor'[k] = cursor[k] /\ target'[k] = target[k]
                                  /\ missed'[k] = missed[k] /\ row'[k] = row[k],
           missed'[t] = {}, row'[t].status = "running" => row[t].status = "running",
           to \in {"fetched", "committed"} => unit'[t] \in Units \ cursor'[t],
           part'[t] > 0 => to = "fetched",
           latest' = latest, crossed' = crossed, overlap' = overlap,
           served' \subseteq Units, begun' \subseteq Units,
           repeats' \in Nat, losses' \in Nat, broken' \in Nat
    PROVE  /\ Shape' /\ OneOpenRun' /\ Informed' /\ (~overlap' => Alone')
           /\ InBody(t)' <=> to # "idle"
           /\ \A k \in Tasks \ {t} : InBody(k)' <=> InBody(k)
<1> USE SyncAssumption
<1>1. /\ pc' \in [Tasks -> Places] /\ pc'[t] = to /\ \A k \in Tasks \ {t} : pc'[k] = pc[k]
    BY DEF JobInv, Shape, Places
<1>2. /\ InBody(t)' <=> to # "idle"
      /\ \A k \in Tasks \ {t} : (InBody(k)' <=> InBody(k)) /\ (Opening(k)' <=> Opening(k))
    BY <1>1 DEF InBody, Opening
<1>3. Shape'
  <2>1. \A k \in Tasks : pc'[k] \in {"fetched", "committed"} => unit'[k] \in Units \ cursor'[k]
    BY <1>1 DEF JobInv, Shape
  <2>2. \A k \in Tasks : part'[k] > 0 => pc'[k] = "fetched"
    BY <1>1 DEF JobInv, Shape
  <2>3. \A k \in Tasks : missed'[k] # {} => Opening(k)'
    BY <1>2 DEF JobInv, Shape
  <2>4. latest' \in Tasks \cup {Nobody} /\ crossed' \subseteq Tasks
    BY DEF JobInv, Shape
  <2> QED
    BY <1>1, <2>1, <2>2, <2>3, <2>4 DEF Shape
<1>4. \A k \in Tasks : row'[k].status = "running" => row[k].status = "running"
    OBVIOUS
<1>5. OneOpenRun'
    BY <1>4 DEF JobInv, OneOpenRun
<1>6. LatestRow'.status = "running" => LatestRow.status = "running"
  <2>1. CASE latest = Nobody
    BY <2>1 DEF LatestRow
  <2>2. CASE latest \in Tasks
    BY <1>4, <2>2 DEF LatestRow
  <2> QED
    BY <2>1, <2>2 DEF JobInv, Shape
<1>7. Informed'
    BY <1>1, <1>6 DEF JobInv, Informed
<1>8. ASSUME ~overlap PROVE Alone'
  <2>1. \A k \in Tasks : ~(pc'[k] = "looked" /\ missed'[k] = {})
    BY <1>1, <1>8 DEF JobInv, Alone
  <2> QED
    BY <2>1 DEF Alone
<1> QED
    BY <1>2, <1>3, <1>5, <1>7, <1>8

\* Where the history stands while the run goes on, and after it.
LEMMA BodyStands ==
    ASSUME JobInv, ~overlap, NEW t \in Tasks, InBody(t), latest' = latest,
           \A k \in Tasks \ {t} : (InBody(k)' <=> InBody(k)) /\ row'[k] = row[k] /\ cursor'[k] = cursor[k]
    PROVE  /\ t = latest /\ Standing = Done(t)
           /\ Underway = (IF part[t] > 0 THEN {unit[t]} ELSE {})
           /\ InBody(t)' => /\ Standing' = Done(t)'
                            /\ Underway' = (IF part'[t] > 0 THEN {unit'[t]} ELSE {})
                            /\ row'[t].status = "running" /\ row'[t].cursor = cursor'[t] => Single'
           /\ ~InBody(t)' => /\ Standing' = Resumed(row'[t]) /\ Underway' = {}
                             /\ Single'
<1>1. t = latest /\ latest # Nobody /\ LatestRow' = row'[t]
    BY SyncAssumption DEF JobInv, Single, LatestRow
<1>2. \A k \in Tasks \ {t} : ~InBody(k) /\ ~InBody(k)'
    BY <1>1 DEF JobInv, Single
<1>3. Standing = Done(t) /\ Underway = (IF part[t] > 0 THEN {unit[t]} ELSE {})
    BY <1>1 DEF Standing, Underway
<1>4. ASSUME InBody(t)'
      PROVE  /\ Standing' = Done(t)' /\ Underway' = (IF part'[t] > 0 THEN {unit'[t]} ELSE {})
             /\ row'[t].status = "running" /\ row'[t].cursor = cursor'[t] => Single'
    BY <1>1, <1>2, <1>4 DEF Standing, Underway, Single
<1>5. ASSUME ~InBody(t)'
      PROVE  Standing' = Resumed(row'[t]) /\ Underway' = {} /\ Single'
  <2>1. Standing' = Resumed(LatestRow') /\ Underway' = {}
    BY <1>1, <1>5 DEF Standing, Underway, Resumed
  <2> QED
    BY <1>1, <1>2, <1>5, <2>1 DEF Single
<1> QED
    BY <1>1, <1>3, <1>4, <1>5

LEMMA FetchStep ==
    ASSUME JobInv, NEW t \in Tasks, NEW u \in Units, Fetch(t, u) PROVE JobInv'
<1> USE SyncAssumption
<1>1. /\ pc[t] = "running" /\ u \notin cursor[t]
      /\ pc' = [pc EXCEPT ![t] = "fetched"] /\ unit' = [unit EXCEPT ![t] = u]
      /\ UNCHANGED <<part, cursor, target, missed, row, latest, crossed, served, begun, repeats,
                     losses, broken>>
      /\ overlap' = overlap
    BY DEF Fetch, audit
<1>2. InBody(t) /\ part[t] = 0 /\ missed[t] = {}
    BY <1>1 DEF InBody, Opening, JobInv, Shape
<1>3. /\ unit' \in [Tasks -> Units \cup {NoUnit}] /\ unit'[t] = u
      /\ \A k \in Tasks \ {t} : unit'[k] = unit[k]
    BY <1>1 DEF JobInv, Shape
<1>4. /\ part' \in [Tasks -> 0..(Parts - 1)] /\ cursor' \in [Tasks -> SUBSET Units]
      /\ target' \in [Tasks -> Tasks \cup {Nobody}] /\ missed' \in [Tasks -> SUBSET Tasks]
      /\ row' \in [Tasks -> Row] /\ served' \subseteq Units /\ begun' \subseteq Units
      /\ repeats' \in Nat /\ losses' \in Nat /\ broken' \in Nat
    BY <1>1 DEF JobInv, Shape
<1>5. /\ Shape' /\ OneOpenRun' /\ Informed' /\ (~overlap' => Alone')
      /\ InBody(t)' /\ \A k \in Tasks \ {t} : InBody(k)' <=> InBody(k)
    BY <1>1, <1>2, <1>3, <1>4, BodyStep, ZenonT(60)
<1>6. ASSUME ~overlap PROVE Single' /\ Kept'
  <2>1. /\ Standing = Done(t) /\ Underway = {} /\ Standing' = Done(t)' /\ Underway' = {}
        /\ Single'
    BY <1>1, <1>2, <1>5, <1>6, BodyStands DEF JobInv, Single
  <2>2. Done(t)' = Done(t)
    BY <1>1 DEF Done, JobInv, Shape
  <2> QED
    BY <1>1, <1>6, <2>1, <2>2, KeptStays DEF JobInv, Shape
<1> QED
    BY <1>1, <1>5, <1>6 DEF JobInv

LEMMA CheckpointStep ==
    ASSUME JobInv, NEW t \in Tasks, NEW to \in {"running", "refused"}, Checkpointed(t, to)
    PROVE  JobInv'
<1> USE SyncAssumption
<1> DEFINE done == Done(t)
<1>1. /\ pc[t] = "committed" /\ pc' = [pc EXCEPT ![t] = to]
      /\ cursor' = [cursor EXCEPT ![t] = done] /\ unit' = [unit EXCEPT ![t] = NoUnit]
      /\ row' = [row EXCEPT ![t] = [row[t] EXCEPT !.cursor = done]]
      /\ UNCHANGED <<part, target, missed, latest, crossed, served, begun, repeats,
                     losses, broken>>
      /\ overlap' = overlap
    BY DEF Checkpointed, Saved, audit
<1>2. InBody(t) /\ part[t] = 0 /\ missed[t] = {}
    BY <1>1 DEF InBody, Opening, JobInv, Shape
<1>3. done \subseteq Units
    BY <1>1 DEF JobInv, Shape, Done
<1>4. [row[t] EXCEPT !.cursor = done] \in Row
    BY <1>3 DEF JobInv, Shape, Row
<1> HIDE DEF done
<1>5. /\ cursor'[t] = done /\ row'[t].cursor = done /\ row'[t].status = row[t].status
      /\ pc'[t] = to
    BY <1>1, <1>4 DEF JobInv, Shape, Row
<1>6. \A k \in Tasks \ {t} : /\ unit'[k] = unit[k] /\ part'[k] = part[k]
                             /\ cursor'[k] = cursor[k] /\ target'[k] = target[k]
                             /\ missed'[k] = missed[k] /\ row'[k] = row[k]
    BY <1>1 DEF JobInv, Shape
<1>7. /\ unit' \in [Tasks -> Units \cup {NoUnit}] /\ part' \in [Tasks -> 0..(Parts - 1)]
      /\ cursor' \in [Tasks -> SUBSET Units] /\ row' \in [Tasks -> Row]
    BY <1>1, <1>3, <1>4 DEF JobInv, Shape
<1>8. /\ target' \in [Tasks -> Tasks \cup {Nobody}] /\ missed' \in [Tasks -> SUBSET Tasks]
      /\ served' \subseteq Units /\ begun' \subseteq Units
      /\ repeats' \in Nat /\ losses' \in Nat /\ broken' \in Nat
    BY <1>1 DEF JobInv, Shape
<1>9. /\ Shape' /\ OneOpenRun' /\ Informed' /\ (~overlap' => Alone')
      /\ InBody(t)' /\ \A k \in Tasks \ {t} : InBody(k)' <=> InBody(k)
  <2>1. /\ to \in {"idle", "running", "fetched", "committed", "refused"} /\ to # "idle"
        /\ (to \in {"fetched", "committed"} => unit'[t] \in Units \ cursor'[t])
    OBVIOUS
  <2>2. /\ missed'[t] = {} /\ (row'[t].status = "running" => row[t].status = "running")
        /\ (part'[t] > 0 => to = "fetched")
    BY <1>1, <1>2, <1>5
  <2>3. pc' = [pc EXCEPT ![t] = to] /\ latest' = latest /\ crossed' = crossed /\ overlap' = overlap
    BY <1>1
  <2> QED
    BY <1>2, <1>6, <1>7, <1>8, <2>1, <2>2, <2>3, BodyStep
<1>10. ASSUME ~overlap PROVE Single' /\ Kept'
  <2>1. row[t].status = "running"
    BY <1>2, <1>10 DEF JobInv, Single
  <2>2. /\ Standing = Done(t) /\ Underway = {} /\ Standing' = Done(t)' /\ Underway' = {}
        /\ Single'
    BY <1>1, <1>2, <1>5, <1>6, <1>9, <1>10, <2>1, BodyStands
  <2>3. Done(t)' = Done(t)
    BY <1>5 DEF Done, done
  <2> QED
    BY <1>1, <1>10, <2>2, <2>3, KeptStays DEF JobInv, Shape
<1> QED
    BY <1>1, <1>9, <1>10 DEF JobInv

\* A unit is begun, again perhaps, or gone on with: whatever was left of it is being repeated.
LEMMA KeptByCommit ==
    ASSUME Shape, Kept, NEW u \in Units, Touched' = Touched \cup {u}, begun' = begun \cup {u},
           Standing' \subseteq served', losses' = losses, broken' = broken,
           repeats' = repeats \/ (u \in begun \ Touched /\ repeats' = repeats + 1)
    PROVE  Kept'
<1> DEFINE before == begun \ Touched
           after  == begun' \ Touched'
<1>1. IsFiniteSet(before) /\ Cardinality(before) \in Nat
    BY BegunFinite DEF Shape
<1>2. repeats \in Nat /\ losses \in Nat /\ broken \in Nat
    BY DEF Shape
<1>3. Cardinality(before) + repeats <= losses + broken
    BY DEF Kept
<1>4. after = before \ {u}
    OBVIOUS
<1>5. CASE u \notin before
  <2>1. after = before
    BY <1>4, <1>5
  <2>2. repeats' = repeats
    BY <1>5
  <2>3. Cardinality(after) + repeats' <= losses' + broken'
    BY <1>3, <2>1, <2>2
  <2> QED
    BY <2>3 DEF Kept
<1>6. CASE u \in before
  <2>1. Cardinality(after) = Cardinality(before) - 1
    BY <1>1, <1>4, <1>6, FS_RemoveElement, ZenonT(40)
  <2>2. repeats' \in Nat /\ repeats' <= repeats + 1
    BY <1>2
  <2> DEFINE c == Cardinality(before)
             d == Cardinality(after)
  <2>3. c \in Nat /\ d = c - 1 /\ c + repeats <= losses + broken
    BY <1>1, <1>3, <2>1
  <2> HIDE DEF c, d
  <2>4. d + repeats' <= losses + broken
    BY <1>2, <2>2, <2>3, OneLess
  <2>5. Cardinality(after) + repeats' <= losses' + broken'
    BY <2>4 DEF d
  <2> QED
    BY <2>5 DEF Kept
<1> QED
    BY <1>5, <1>6

LEMMA CommitStep == ASSUME JobInv, NEW t \in Tasks, Commit(t) PROVE JobInv'
<1> USE SyncAssumption
<1> DEFINE whole == part[t] + 1 = Parts
           again == part[t] = 0 /\ unit[t] \in begun /\ repeats <= MaxFaults
           to    == IF whole THEN "committed" ELSE "fetched"
           next  == IF whole THEN 0 ELSE part[t] + 1
<1>1. /\ pc[t] = "fetched" /\ pc' = [pc EXCEPT ![t] = to] /\ part' = [part EXCEPT ![t] = next]
      /\ served' = (IF whole THEN served \cup {unit[t]} ELSE served)
      /\ begun' = begun \cup {unit[t]}
      /\ repeats' = (IF again THEN repeats + 1 ELSE repeats)
      /\ UNCHANGED <<unit, cursor, target, missed, row, latest, crossed, losses, broken>>
      /\ overlap' = overlap
    BY DEF Commit
<1>2. InBody(t) /\ missed[t] = {} /\ unit[t] \in Units \ cursor[t]
    BY <1>1 DEF InBody, Opening, JobInv, Shape
<1>3. next \in 0..(Parts - 1) /\ (next > 0 => to = "fetched")
    BY DEF JobInv, Shape
<1>4. /\ part' \in [Tasks -> 0..(Parts - 1)] /\ part'[t] = next
      /\ pc'[t] = to /\ \A k \in Tasks \ {t} : part'[k] = part[k]
    BY <1>1, <1>3 DEF JobInv, Shape
<1>5. repeats' \in Nat /\ losses' \in Nat /\ broken' \in Nat
    BY <1>1 DEF JobInv, Shape
<1>6. /\ unit' \in [Tasks -> Units \cup {NoUnit}] /\ cursor' \in [Tasks -> SUBSET Units]
      /\ target' \in [Tasks -> Tasks \cup {Nobody}] /\ missed' \in [Tasks -> SUBSET Tasks]
      /\ row' \in [Tasks -> Row]
    BY <1>1 DEF JobInv, Shape
<1>7. served' \subseteq Units /\ begun' \subseteq Units
    BY <1>1, <1>2 DEF JobInv, Shape
<1>8. /\ to \in {"idle", "running", "fetched", "committed", "refused"} /\ to # "idle"
      /\ (to \in {"fetched", "committed"} => unit'[t] \in Units \ cursor'[t])
    BY <1>1, <1>2
<1> HIDE DEF to, next
<1>9. /\ Shape' /\ OneOpenRun' /\ Informed' /\ (~overlap' => Alone')
      /\ InBody(t)' /\ \A k \in Tasks \ {t} : InBody(k)' <=> InBody(k)
    BY <1>1, <1>2, <1>3, <1>4, <1>5, <1>6, <1>7, <1>8, BodyStep, ZenonT(40)
<1>10. ASSUME ~overlap PROVE Single' /\ Kept'
  <2>1. row[t].status = "running" /\ row[t].cursor = cursor[t]
    BY <1>2, <1>10 DEF JobInv, Single
  <2>2. /\ Standing = Done(t) /\ Underway = (IF part[t] > 0 THEN {unit[t]} ELSE {})
        /\ Standing' = Done(t)' /\ Underway' = (IF part'[t] > 0 THEN {unit'[t]} ELSE {})
        /\ Single'
    BY <1>1, <1>2, <1>9, <1>10, <2>1, BodyStands
  <2>3. Done(t) = cursor[t] /\ Done(t)' = (IF whole THEN cursor[t] \cup {unit[t]} ELSE cursor[t])
    BY <1>1, <1>4 DEF Done, to
  <2>4. part[t] \in 0..(Parts - 1) /\ (part'[t] > 0 <=> ~whole)
    BY <1>4 DEF next, JobInv, Shape
  <2>5. Touched' = Touched \cup {unit[t]}
    <3>1. CASE whole
      BY <1>1, <2>2, <2>3, <2>4, <3>1 DEF Touched
    <3>2. CASE ~whole
      BY <1>1, <2>2, <2>3, <2>4, <3>2 DEF Touched
    <3> QED
      BY <3>1, <3>2
  <2>6. repeats' = repeats \/ (unit[t] \in begun \ Touched /\ repeats' = repeats + 1)
    BY <1>1, <1>2, <2>2, <2>3 DEF Touched
  <2>7. Standing' \subseteq served'
    BY <1>1, <1>10, <2>2, <2>3 DEF JobInv, Kept
  <2> QED
    BY <1>1, <1>2, <1>10, <2>2, <2>5, <2>6, <2>7, KeptByCommit DEF JobInv
<1> QED
    BY <1>1, <1>9, <1>10 DEF JobInv

\* A task returns, its row well formed and not opened anew.
LEMMA ReturnStep ==
    ASSUME JobInv, NEW t \in Tasks, InBody(t),
           pc' = [pc EXCEPT ![t] = "idle"], unit' = [unit EXCEPT ![t] = NoUnit],
           part' = [part EXCEPT ![t] = 0], cursor' = [cursor EXCEPT ![t] = {}],
           target' = [target EXCEPT ![t] = Nobody], missed' = [missed EXCEPT ![t] = {}],
           row' \in [Tasks -> Row], \A k \in Tasks \ {t} : row'[k] = row[k],
           row'[t].status = "running" => row[t].status = "running",
           latest' = latest, crossed' = crossed, overlap' = overlap,
           served' \subseteq Units, begun' \subseteq Units,
           repeats' \in Nat, losses' \in Nat, broken' \in Nat
    PROVE  /\ Shape' /\ OneOpenRun' /\ Informed' /\ (~overlap' => Single' /\ Alone')
           /\ ~overlap => /\ t = latest /\ Standing = Done(t)
                          /\ Underway = (IF part[t] > 0 THEN {unit[t]} ELSE {})
                          /\ Standing' = Resumed(row'[t]) /\ Underway' = {}
<1> USE SyncAssumption
<1> DEFINE to == "idle"
<1>1. /\ unit' \in [Tasks -> Units \cup {NoUnit}] /\ part' \in [Tasks -> 0..(Parts - 1)]
      /\ cursor' \in [Tasks -> SUBSET Units] /\ target' \in [Tasks -> Tasks \cup {Nobody}]
      /\ missed' \in [Tasks -> SUBSET Tasks] /\ part'[t] = 0 /\ missed'[t] = {}
    BY DEF JobInv, Shape
<1>2. \A k \in Tasks \ {t} : /\ unit'[k] = unit[k] /\ part'[k] = part[k]
                             /\ cursor'[k] = cursor[k] /\ target'[k] = target[k]
                             /\ missed'[k] = missed[k] /\ row'[k] = row[k]
    BY DEF JobInv, Shape
<1>3. /\ to \in {"idle", "running", "fetched", "committed", "refused"}
      /\ (to \in {"fetched", "committed"} => unit'[t] \in Units \ cursor'[t])
      /\ (part'[t] > 0 => to = "fetched") /\ pc' = [pc EXCEPT ![t] = to]
    BY <1>1
<1>4. /\ Shape' /\ OneOpenRun' /\ Informed' /\ (~overlap' => Alone')
      /\ ~InBody(t)' /\ \A k \in Tasks \ {t} : InBody(k)' <=> InBody(k)
  <2> HIDE DEF to
  <2>1. /\ Shape' /\ OneOpenRun' /\ Informed' /\ (~overlap' => Alone')
        /\ (InBody(t)' <=> to # "idle") /\ \A k \in Tasks \ {t} : InBody(k)' <=> InBody(k)
    BY <1>1, <1>2, <1>3, BodyStep, ZenonT(40)
  <2> QED
    BY <2>1 DEF to
<1>5. ASSUME ~overlap
      PROVE  /\ t = latest /\ Standing = Done(t)
             /\ Underway = (IF part[t] > 0 THEN {unit[t]} ELSE {})
             /\ Standing' = Resumed(row'[t]) /\ Underway' = {} /\ Single'
    BY <1>2, <1>4, <1>5, BodyStands
<1> QED
    BY <1>4, <1>5

LEMMA SucceedStep == ASSUME JobInv, NEW t \in Tasks, Succeed(t) PROVE JobInv'
<1> DEFINE new == [status |-> "succeeded", cursor |-> {}]
<1>1. /\ InBody(t) /\ pc' = [pc EXCEPT ![t] = "idle"]
      /\ unit' = [unit EXCEPT ![t] = NoUnit] /\ part' = [part EXCEPT ![t] = 0]
      /\ cursor' = [cursor EXCEPT ![t] = {}]
      /\ target' = [target EXCEPT ![t] = Nobody] /\ missed' = [missed EXCEPT ![t] = {}]
      /\ row' = [row EXCEPT ![t] = new] /\ served' = {} /\ begun' = {}
      /\ latest' = latest /\ crossed' = crossed /\ overlap' = overlap
      /\ UNCHANGED <<repeats, losses, broken>>
    BY DEF Succeed, Return, InBody
<1>2. row' \in [Tasks -> Row] /\ row'[t] = new /\ \A k \in Tasks \ {t} : row'[k] = row[k]
    BY <1>1 DEF JobInv, Shape, Row
<1>3. /\ row'[t].status = "running" => row[t].status = "running"
      /\ served' \subseteq Units /\ begun' \subseteq Units
      /\ repeats' \in Nat /\ losses' \in Nat /\ broken' \in Nat
    BY <1>1, <1>2 DEF JobInv, Shape
<1>4. /\ Shape' /\ OneOpenRun' /\ Informed' /\ (~overlap' => Single' /\ Alone')
      /\ ~overlap => Standing' = Resumed(row'[t])
    BY <1>1, <1>2, <1>3, ReturnStep
<1>5. ASSUME ~overlap PROVE Kept'
  <2>1. Standing' = {}
    BY <1>2, <1>4, <1>5 DEF Resumed
  <2> DEFINE c == Cardinality(begun \ Touched)
             d == Cardinality(begun' \ Touched')
  <2>2. repeats \in Nat /\ losses \in Nat /\ broken \in Nat
    BY DEF JobInv, Shape
  <2>3. d = 0
    BY <1>1, FS_EmptySet
  <2>4. c \in Nat
    BY BegunFinite DEF JobInv, Shape
  <2>5. c + repeats <= losses + broken
    BY <1>5 DEF JobInv, Kept
  <2> HIDE DEF c, d
  <2>6. d + repeats <= losses + broken
    BY <2>2, <2>3, <2>4, <2>5
  <2>7. d + repeats' <= losses' + broken'
    BY <1>1, <2>6
  <2> QED
    BY <1>1, <2>1, <2>7 DEF Kept, d
<1> QED
    BY <1>1, <1>4, <1>5 DEF JobInv

\* A break lets go of one unit at most.
LEMMA KeptByBreak ==
    ASSUME Shape, Kept, NEW u, Standing' \subseteq Standing, Touched \subseteq Touched' \cup {u},
           served' = served, begun' = begun, repeats' = repeats,
           \/ losses' = losses + 1 /\ broken' = broken
           \/ losses' = losses /\ broken' = broken + 1
    PROVE  Kept'
<1> DEFINE before == begun \ Touched
           after  == begun' \ Touched'
<1>1. IsFiniteSet(before) /\ Cardinality(before) \in Nat
    BY BegunFinite DEF Shape
<1>2. after \subseteq before \cup {u}
    OBVIOUS
<1>3. /\ IsFiniteSet(before \cup {u})
      /\ Cardinality(before \cup {u}) \in Nat
      /\ Cardinality(before \cup {u}) <= Cardinality(before) + 1
  <2>1. u \in before => before \cup {u} = before
    OBVIOUS
  <2> HIDE DEF before
  <2> QED
    BY <1>1, <2>1, FS_AddElement
<1>4. Cardinality(after) \in Nat /\ Cardinality(after) <= Cardinality(before \cup {u})
  <2> HIDE DEF before, after
  <2> QED
    BY <1>2, <1>3, FS_Subset, FS_CardinalityType
<1>5. repeats \in Nat /\ losses \in Nat /\ broken \in Nat
    BY DEF Shape
<1>6. Cardinality(before) + repeats <= losses + broken /\ Standing \subseteq served
    BY DEF Kept
<1>7. Cardinality(after) + repeats' <= losses' + broken'
  <2> DEFINE c == Cardinality(before)
             d == Cardinality(after)
  <2>1. c \in Nat /\ d \in Nat /\ d <= c + 1 /\ c + repeats <= losses + broken
    <3> HIDE DEF before, after
    <3> QED
      BY <1>1, <1>3, <1>4, <1>6
  <2> HIDE DEF c, d
  <2>2. d + repeats <= (losses + 1) + broken /\ d + repeats <= losses + (broken + 1)
    BY <1>5, <2>1, OneMore
  <2>3. d + repeats' <= losses' + broken'
    BY <2>2
  <2> QED
    BY <2>3 DEF d
<1> QED
    BY <1>6, <1>7 DEF Kept

LEMMA FailStep == ASSUME JobInv, NEW t \in Tasks, FailRun(t) PROVE JobInv'
<1> DEFINE new == [status |-> "failed", cursor |-> Done(t)]
<1>1. /\ InBody(t) /\ pc' = [pc EXCEPT ![t] = "idle"]
      /\ unit' = [unit EXCEPT ![t] = NoUnit] /\ part' = [part EXCEPT ![t] = 0]
      /\ cursor' = [cursor EXCEPT ![t] = {}]
      /\ target' = [target EXCEPT ![t] = Nobody] /\ missed' = [missed EXCEPT ![t] = {}]
      /\ row' = [row EXCEPT ![t] = new]
      /\ broken' = (IF part[t] > 0 THEN broken + 1 ELSE broken)
      /\ latest' = latest /\ crossed' = crossed /\ overlap' = overlap
      /\ UNCHANGED <<served, begun, repeats, losses>>
    BY DEF FailRun, Return
<1>2. Done(t) \subseteq Units
    BY DEF JobInv, Shape, Done
<1>3. row' \in [Tasks -> Row] /\ row'[t] = new /\ \A k \in Tasks \ {t} : row'[k] = row[k]
    BY <1>1, <1>2 DEF JobInv, Shape, Row
<1>4. /\ row'[t].status = "running" => row[t].status = "running"
      /\ served' \subseteq Units /\ begun' \subseteq Units
      /\ repeats' \in Nat /\ losses' \in Nat /\ broken' \in Nat
    BY <1>1, <1>3 DEF JobInv, Shape
<1>5. /\ Shape' /\ OneOpenRun' /\ Informed' /\ (~overlap' => Single' /\ Alone')
      /\ ~overlap => /\ Standing = Done(t) /\ Underway = (IF part[t] > 0 THEN {unit[t]} ELSE {})
                     /\ Standing' = Resumed(row'[t]) /\ Underway' = {}
    BY <1>1, <1>3, <1>4, ReturnStep
<1>6. ASSUME ~overlap PROVE Kept'
  <2>1. Standing' = Standing
    BY <1>3, <1>5, <1>6 DEF Resumed
  <2>2. CASE part[t] > 0
    <3>1. Touched \subseteq Touched' \cup {unit[t]}
      BY <1>5, <1>6, <2>1, <2>2 DEF Touched
    <3> QED
      BY <1>1, <1>6, <2>1, <2>2, <3>1, KeptByBreak DEF JobInv
  <2>3. CASE ~(part[t] > 0)
    <3>1. Underway' = Underway
      BY <1>5, <1>6, <2>3
    <3>2. losses' = losses /\ broken' = broken /\ losses \in Nat /\ broken \in Nat
      BY <1>1, <2>3 DEF JobInv, Shape
    <3>3. losses' \in Nat /\ broken' \in Nat /\ losses' >= losses /\ broken' >= broken
      BY <3>2
    <3> QED
      BY <1>1, <1>6, <2>1, <3>1, <3>3, KeptStays DEF JobInv
  <2> QED
    BY <2>2, <2>3
<1> QED
    BY <1>1, <1>5, <1>6 DEF JobInv

LEMMA LoseStep == ASSUME JobInv, NEW t \in Tasks, LoseRun(t) PROVE JobInv'
<1>1. /\ InBody(t) /\ pc' = [pc EXCEPT ![t] = "idle"]
      /\ unit' = [unit EXCEPT ![t] = NoUnit] /\ part' = [part EXCEPT ![t] = 0]
      /\ cursor' = [cursor EXCEPT ![t] = {}]
      /\ target' = [target EXCEPT ![t] = Nobody] /\ missed' = [missed EXCEPT ![t] = {}]
      /\ losses' = losses + 1
      /\ latest' = latest /\ crossed' = crossed /\ overlap' = overlap
      /\ UNCHANGED <<row, served, begun, repeats, broken>>
    BY DEF LoseRun, Return, audit
<1>2. /\ row' \in [Tasks -> Row] /\ \A k \in Tasks \ {t} : row'[k] = row[k]
      /\ row'[t].status = "running" => row[t].status = "running"
      /\ served' \subseteq Units /\ begun' \subseteq Units
      /\ repeats' \in Nat /\ losses' \in Nat /\ broken' \in Nat
    BY <1>1 DEF JobInv, Shape
<1>3. /\ Shape' /\ OneOpenRun' /\ Informed' /\ (~overlap' => Single' /\ Alone')
      /\ ~overlap => /\ Standing = Done(t) /\ Underway = (IF part[t] > 0 THEN {unit[t]} ELSE {})
                     /\ Standing' = Resumed(row'[t]) /\ Underway' = {}
    BY <1>1, <1>2, ReturnStep
<1>4. ASSUME ~overlap PROVE Kept'
  <2>1. Resumed(row'[t]) = cursor[t]
    BY <1>1, <1>4 DEF Resumed, JobInv, Single
  <2>2. Standing' \subseteq Standing /\ Touched \subseteq Touched' \cup {unit[t]}
    BY <1>3, <1>4, <2>1 DEF Done, Touched
  <2> QED
    BY <1>1, <1>4, <2>2, KeptByBreak DEF JobInv
<1> QED
    BY <1>1, <1>3, <1>4 DEF JobInv

LEMMA CrashStep == ASSUME JobInv, Crash PROVE JobInv'
<1> USE SyncAssumption
<1>1. /\ pc' = [t \in Tasks |-> IF t \in Servers THEN "idle" ELSE pc[t]]
      /\ unit' = [t \in Tasks |-> IF t \in Servers THEN NoUnit ELSE unit[t]]
      /\ part' = [t \in Tasks |-> IF t \in Servers THEN 0 ELSE part[t]]
      /\ cursor' = [t \in Tasks |-> IF t \in Servers THEN {} ELSE cursor[t]]
      /\ target' = [t \in Tasks |-> IF t \in Servers THEN Nobody ELSE target[t]]
      /\ missed' = [t \in Tasks |-> IF t \in Servers THEN {} ELSE missed[t]]
      /\ losses' = losses + 1
      /\ UNCHANGED <<row, latest, crossed, served, begun, repeats, broken>> /\ overlap' = overlap
    BY DEF Crash, audit
<1>2. \A k \in Tasks : /\ k \in Servers => /\ pc'[k] = "idle" /\ part'[k] = 0 /\ missed'[k] = {}
                       /\ k \notin Servers => /\ pc'[k] = pc[k] /\ unit'[k] = unit[k]
                                              /\ part'[k] = part[k] /\ cursor'[k] = cursor[k]
                                              /\ target'[k] = target[k] /\ missed'[k] = missed[k]
    BY <1>1
<1>3. Shape'
  <2>1. /\ pc' \in [Tasks -> Places] /\ unit' \in [Tasks -> Units \cup {NoUnit}]
        /\ part' \in [Tasks -> 0..(Parts - 1)] /\ cursor' \in [Tasks -> SUBSET Units]
        /\ target' \in [Tasks -> Tasks \cup {Nobody}] /\ missed' \in [Tasks -> SUBSET Tasks]
    BY <1>1 DEF JobInv, Shape, Places
  <2>2. \A k \in Tasks : /\ pc'[k] \in {"fetched", "committed"} => unit'[k] \in Units \ cursor'[k]
                         /\ part'[k] > 0 => pc'[k] = "fetched"
    BY <1>2 DEF JobInv, Shape
  <2>3. \A k \in Tasks : missed'[k] # {} => Opening(k)'
    BY <1>2 DEF JobInv, Shape, Opening
  <2> QED
    BY <1>1, <2>1, <2>2, <2>3 DEF JobInv, Shape
<1>4. OneOpenRun' /\ LatestRow' = LatestRow
    BY <1>1 DEF JobInv, OneOpenRun, LatestRow
<1>5. Informed'
    BY <1>1, <1>2, <1>4 DEF JobInv, Informed
<1>6. \A k \in Tasks : /\ k \in Servers => ~InBody(k)'
                       /\ InBody(k)' => InBody(k)
    BY <1>2 DEF InBody
<1>7. Resumed(LatestRow)' = Resumed(LatestRow)
    BY <1>4 DEF Resumed
<1>8. ASSUME ~overlap PROVE Single' /\ Alone' /\ Kept'
  <2>1. Single' /\ Alone'
    BY <1>1, <1>2, <1>6, <1>7, <1>8 DEF JobInv, Single, Alone
  <2>2. CASE latest \in Servers /\ InBody(latest)
    <3>1. latest \in Tasks /\ latest # Nobody /\ ~InBody(latest)'
      BY <1>1, <1>6, <2>2 DEF Tasks
    <3>2. /\ Standing = Done(latest)
          /\ Underway = (IF part[latest] > 0 THEN {unit[latest]} ELSE {})
      BY <2>2, <3>1 DEF Standing, Underway
    <3>3. Standing' = Resumed(row[latest])
      BY <1>1, <1>7, <3>1 DEF Standing, LatestRow
    <3>4. Resumed(row[latest]) = cursor[latest]
      BY <1>8, <2>2, <3>1 DEF JobInv, Single, Resumed
    <3>5. Standing' \subseteq Standing /\ Touched \subseteq Touched' \cup {unit[latest]}
      BY <3>2, <3>3, <3>4 DEF Done, Touched
    <3> QED
      BY <1>1, <1>8, <2>1, <3>5, KeptByBreak DEF JobInv
  <2>3. CASE ~(latest \in Servers /\ InBody(latest))
    <3>1. Standing' = Standing /\ Underway' = Underway
      <4>1. CASE latest = Nobody \/ ~InBody(latest)
        <5>1. latest' = Nobody \/ ~InBody(latest)'
          BY <1>1, <1>6, <4>1 DEF JobInv, Shape
        <5> QED
          BY <1>7, <4>1, <5>1 DEF Standing, Underway
      <4>2. CASE latest \in Tasks /\ latest \notin Servers /\ InBody(latest)
        <5>1. /\ Done(latest)' = Done(latest) /\ InBody(latest)' /\ latest # Nobody
              /\ part'[latest] = part[latest] /\ unit'[latest] = unit[latest] /\ latest' = latest
          BY <1>1, <1>2, <4>2 DEF Done, InBody
        <5> QED
          BY <4>2, <5>1 DEF Standing, Underway
      <4> QED
        BY <2>3, <4>1, <4>2 DEF JobInv, Shape
    <3>2. Kept'
      BY <1>1, <1>8, <3>1, KeptStays DEF JobInv, Shape
    <3> QED
      BY <2>1, <3>2
  <2> QED
    BY <2>2, <2>3
<1> QED
    BY <1>1, <1>3, <1>4, <1>5, <1>8 DEF JobInv

-----------------------------------------------------------------------------
(* The theorems.                                                            *)

LEMMA JobInvInit == Init => JobInv
<1> SUFFICES ASSUME Init PROVE JobInv
    OBVIOUS
<1> USE SyncAssumption
<1>1. Shape
    BY DEF Init, Shape, Row, Places
<1>2. OneOpenRun /\ Informed /\ Single /\ Alone
    BY DEF Init, OneOpenRun, Informed, Single, Alone, InBody
<1>3. Standing = {} /\ begun \ Touched = {}
    BY DEF Init, Standing, LatestRow, Resumed
<1>4. Kept
    BY <1>3, FS_EmptySet DEF Init, Kept
<1> QED
    BY <1>1, <1>2, <1>4 DEF JobInv

LEMMA JobInvStep == JobInv /\ [Next]_vars => JobInv'
<1> SUFFICES ASSUME JobInv, [Next]_vars PROVE JobInv'
    OBVIOUS
<1>1. CASE UNCHANGED vars
  <2>1. UNCHANGED record /\ UNCHANGED taskVars /\ overlap' = overlap
    BY <1>1 DEF vars, taskVars, audit, record
  <2> QED
    BY <2>1, StillStep
<1>2. CASE Next
  <2>1. ASSUME NEW t \in Tasks, Checkpoint(t) \/ StopForToday(t) PROVE JobInv'
    BY <2>1, CheckpointStep DEF Checkpoint, StopForToday
  <2>2. ASSUME NEW t \in Tasks,
               Begin(t) \/ LookUp(t) \/ OpenRun(t) \/ FailOpening(t) \/ Commit(t)
        PROVE  JobInv'
    BY <2>2, CallStep, LookUpStep, OpenStep, FailOpeningStep, CommitStep
  <2>3. ASSUME NEW t \in Tasks,
               Succeed(t) \/ FailRun(t) \/ LoseRun(t) \/ \E u \in Units : Fetch(t, u)
        PROVE  JobInv'
    BY <2>3, FetchStep, SucceedStep, FailStep, LoseStep
  <2> QED
    BY <1>2, <2>1, <2>2, <2>3, CallStep, CrashStep DEF Next
<1> QED
    BY <1>1, <1>2

LEMMA JobInvAlways == Spec => []JobInv
    BY JobInvInit, JobInvStep, PTL DEF Spec

\* OneOpenRun: the history of a job shows one unfinished run, the latest, whatever crashes left;
\* others only where processes opened a run across each other.
THEOREM SingleOpenRow == Spec => []OneOpenRun
<1>1. JobInv => OneOpenRun
    BY DEF JobInv
<1> QED
    BY <1>1, JobInvAlways, PTL

\* CursorHonest: no run starts with a unit in its cursor that nobody has committed.
THEOREM HonestCursor == Spec => []CursorHonest
<1>1. JobInv => CursorHonest
  <2> SUFFICES ASSUME JobInv, ~overlap, latest # Nobody
               PROVE  Resumed(row[latest]) \subseteq served
      BY DEF CursorHonest
  <2>1. latest \in Tasks /\ Standing \subseteq served
    BY DEF JobInv, Shape, Kept
  <2>2. CASE InBody(latest)
    <3>1. Resumed(row[latest]) = cursor[latest] /\ Standing = Done(latest)
      BY <2>1, <2>2 DEF JobInv, Single, Resumed, Standing
    <3> QED
      BY <2>1, <3>1 DEF Done
  <2>3. CASE ~InBody(latest)
    BY <2>1, <2>3 DEF Standing, LatestRow
  <2> QED
    BY <2>2, <2>3
<1> QED
    BY <1>1, JobInvAlways, PTL

\* RepeatsNeedBreak: a unit is begun again in a cycle at most once for each process or closing
\* transaction that was lost, and for each run that failed in the middle of a unit.
THEOREM RepeatsBounded == Spec => []RepeatsNeedBreak
<1>1. JobInv => RepeatsNeedBreak
  <2> SUFFICES ASSUME JobInv, ~overlap PROVE repeats <= losses + broken
      BY DEF RepeatsNeedBreak
  <2> DEFINE c == Cardinality(begun \ Touched)
  <2>1. repeats \in Nat /\ losses \in Nat /\ broken \in Nat
    BY DEF JobInv, Shape
  <2>2. c \in Nat
    BY BegunFinite DEF JobInv, Shape
  <2>3. c + repeats <= losses + broken
    BY DEF JobInv, Kept
  <2> HIDE DEF c
  <2> QED
    BY <2>1, <2>2, <2>3
<1> QED
    BY <1>1, JobInvAlways, PTL

-----------------------------------------------------------------------------
(* The retry delay.                                                         *)

\* The scheduler's failed run is the latest, and no process got in the way.
Resting == ~overlap /\ latest = Scheduler /\ row[latest].status = "failed"

\* Then what is left to wait and what has passed make up the delay; a stopped server reads it
\* from the run's end when it is back.  A run that was fired waits for nothing.
Waited ==
    /\ wait \in Nat /\ age \in Nat /\ finished \in {"none", "succeeded", "failed"}
    /\ pc[Scheduler] # "idle" => up /\ wait = 0
    /\ Resting => finished = "failed" /\ (up => wait + age >= Retry)

LEMMA WaitedInit == Init => Waited
    BY SyncAssumption DEF Init, Waited, Resting, Tasks, Servers

\* Steps that leave the plan and the history of the runs alone.
LEMMA WaitedKept ==
    ASSUME Waited, UNCHANGED <<up, wait, age, finished, row, latest>>, ~overlap' => ~overlap,
           pc'[Scheduler] = pc[Scheduler] \/ pc[Scheduler] # "idle" \/ (up /\ wait = 0)
    PROVE  Waited'
    BY DEF Waited, Resting

\* Steps of a run: its row is open, so the scheduler's failed run is not the latest.
LEMMA WaitedBody ==
    ASSUME JobInv, Waited, NEW t \in Tasks, InBody(t), latest' = latest, overlap' = overlap,
           up' = up, wait' \in Nat, age' \in Nat, finished' \in {"none", "succeeded", "failed"},
           t # Scheduler => wait' = wait, pc' \in [Tasks -> Places],
           \A k \in Tasks \ {t} : pc'[k] = pc[k],
           pc'[t] # "idle" => wait' = wait,
           ~overlap /\ t = Scheduler /\ row'[t].status = "failed" =>
                finished' = "failed" /\ wait' + age' >= Retry
    PROVE  Waited'
<1>1. Scheduler \in Tasks
    BY DEF Tasks, Servers
<1>2. ~overlap => t = latest
    BY DEF JobInv, Single
<1>3. pc'[Scheduler] # "idle" => up' /\ wait' = 0
  <2>1. CASE t = Scheduler
    BY <2>1 DEF Waited, InBody
  <2>2. CASE t # Scheduler
    BY <1>1, <2>2 DEF Waited
  <2> QED
    BY <2>1, <2>2
<1>4. ASSUME Resting' PROVE finished' = "failed" /\ wait' + age' >= Retry
    BY <1>2, <1>4 DEF Resting
<1> QED
    BY <1>3, <1>4 DEF Waited

LEMMA PlanNextRunType ==
    ASSUME wait \in Nat, age \in Nat, finished \in {"none", "succeeded", "failed"}
    PROVE  /\ PlanNextRun \in Nat /\ PlanNextRun \in 0..Longest
           /\ finished = "failed" => PlanNextRun + age >= Retry
<1> USE SyncAssumption
<1>1. /\ Left(Retry, age) \in Nat /\ Left(Retry, age) <= Retry
      /\ Left(Retry, age) + age >= Retry
    BY DEF Left
<1>2. Left(Interval, age) \in Nat /\ Left(Interval, age) <= Interval
    BY DEF Left
<1>3. Longest \in Nat /\ Retry <= Longest /\ Interval <= Longest
    BY DEF Longest
<1>4. CASE finished = "failed"
    BY <1>1, <1>3, <1>4 DEF PlanNextRun
<1>5. CASE finished = "succeeded"
  <2>1. PlanNextRun = Left(Interval, age)
    BY <1>5 DEF PlanNextRun
  <2> QED
    BY <1>2, <1>3, <1>5, <2>1
<1>6. CASE finished = "none"
    BY <1>3, <1>6 DEF PlanNextRun
<1> QED
    BY <1>4, <1>5, <1>6

LEMMA WaitedStep == JobInv /\ JobInv' /\ Waited /\ [Next]_vars => Waited'
<1> USE SyncAssumption
<1> SUFFICES ASSUME JobInv, JobInv', Waited, [Next]_vars PROVE Waited'
    OBVIOUS
<1>1. Scheduler \in Tasks /\ pc \in [Tasks -> Places] /\ pc' \in [Tasks -> Places]
    BY DEF JobInv, Shape, Tasks, Servers
<1>2. CASE Tick
  <2>1. (Resting' <=> Resting) /\ finished' = finished /\ up' = up /\ pc' = pc
    BY <1>2 DEF Tick, audit, taskVars, Resting
  <2>2. wait \in Nat /\ age \in Nat /\ Longest \in Nat /\ Retry <= Longest
    BY DEF Waited, Longest
  <2>3. /\ wait' = (IF wait > 0 THEN wait - 1 ELSE 0)
        /\ age' = (IF age < Longest THEN age + 1 ELSE age)
    BY <1>2 DEF Tick
  <2>4. wait' \in Nat /\ age' \in Nat /\ (wait = 0 => wait' = 0)
    BY <2>2, <2>3
  <2>5. wait + age >= Retry => wait' + age' >= Retry
    BY <2>2, <2>3
  <2> QED
    BY <2>1, <2>4, <2>5 DEF Waited
<1>3. CASE Skip
    BY <1>3 DEF Skip, Waited, Resting, taskVars, ageVars, audit
<1>4. CASE Crash
  <2>1. pc'[Scheduler] = "idle"
    BY <1>1, <1>4 DEF Crash, Servers
  <2> QED
    BY <1>4, <2>1 DEF Crash, Waited, Resting, ageVars, audit
<1>5. CASE Restart
  <2>1. PlanNextRun \in Nat /\ (finished = "failed" => PlanNextRun + age >= Retry)
    BY PlanNextRunType DEF Waited
  <2>2. /\ ~up /\ up' = TRUE /\ wait' = PlanNextRun /\ age' = age /\ finished' = finished
        /\ pc' = pc /\ (Resting' <=> Resting)
    BY <1>5 DEF Restart, Resting, taskVars, ageVars, audit
  <2> QED
    BY <2>1, <2>2 DEF Waited
<1>6. CASE Fire \/ UNCHANGED vars
  <2>1. UNCHANGED <<up, wait, age, finished, row, latest>> /\ overlap' = overlap
    BY <1>6 DEF Fire, vars, ageVars, audit
  <2>2. pc'[Scheduler] = pc[Scheduler] \/ (up /\ wait = 0)
    BY <1>6 DEF Fire, vars, taskVars
  <2> QED
    BY <2>1, <2>2, WaitedKept
<1>7. ASSUME NEW t \in Tasks, t # Scheduler, Trigger(t) \/ Background(t) \/ RunCli(t)
      PROVE  Waited'
  <2>1. UNCHANGED <<up, wait, age, finished, row, latest>> /\ overlap' = overlap
    BY <1>7 DEF Trigger, Background, RunCli, ageVars, audit
  <2>2. pc'[Scheduler] = pc[Scheduler]
    BY <1>1, <1>7 DEF Trigger, Background, RunCli
  <2> QED
    BY <2>1, <2>2, WaitedKept
<1>8. ASSUME NEW t \in Tasks, NEW u, Begin(t) \/ LookUp(t) \/ Fetch(t, u) \/ Commit(t)
      PROVE  Waited'
  <2>1. UNCHANGED <<up, wait, age, finished, row, latest>>
    BY <1>8 DEF Begin, LookUp, Fetch, Commit, ageVars
  <2>2. ~overlap' => ~overlap
    <3>1. CASE LookUp(t)
      BY <3>1, Zenon DEF LookUp
    <3>2. CASE Begin(t) \/ Fetch(t, u) \/ Commit(t)
      BY <3>2 DEF Begin, Fetch, Commit, audit
    <3> QED
      BY <1>8, <3>1, <3>2
  <2>3. pc'[Scheduler] = pc[Scheduler] \/ pc[Scheduler] # "idle"
    BY <1>1, <1>8 DEF Begin, LookUp, Fetch, Commit
  <2> QED
    BY <2>1, <2>2, <2>3, WaitedKept
<1>9. ASSUME NEW t \in Tasks, OpenRun(t) PROVE Waited'
  <2>1. /\ UNCHANGED <<up, wait>> /\ age' \in Nat /\ finished' \in {"none", "succeeded", "failed"}
    BY <1>9 DEF OpenRun, Waited, ageVars
  <2>2. pc[t] = "looked" /\ \A k \in Tasks \ {t} : pc'[k] = pc[k]
    BY <1>1, <1>9 DEF OpenRun
  <2>3. pc'[Scheduler] # "idle" => up' /\ wait' = 0
    BY <1>1, <2>1, <2>2 DEF Waited
  <2>4. ~overlap' => pc'[t] = "running"
    BY <1>1, <1>9 DEF OpenRun
  <2>5. ~overlap' => latest' = t /\ row'[t].status = "running"
    BY <2>4 DEF JobInv, Single, InBody
  <2>6. ~Resting'
    BY <2>5 DEF Resting
  <2> QED
    BY <2>1, <2>3, <2>6 DEF Waited
<1>10. ASSUME NEW t \in Tasks, FailOpening(t) PROVE Waited'
  <2>1. /\ pc[t] # "idle" /\ UNCHANGED <<up, row, latest, age, finished>> /\ overlap' = overlap
        /\ wait' \in Nat /\ (t # Scheduler => wait' = wait)
        /\ pc'[t] = "idle" /\ \A k \in Tasks \ {t} : pc'[k] = pc[k]
    BY <1>1, <1>10 DEF FailOpening, Return, Opening, Waited, ageVars, audit
  <2>2. CASE t = Scheduler
    <3>1. wait = 0 /\ up /\ pc'[Scheduler] = "idle" /\ wait' \in Nat /\ age \in Nat
      BY <2>1, <2>2 DEF Waited
    <3>2. Resting => finished = "failed" /\ age >= Retry
      BY <3>1 DEF Waited
    <3>3. age >= Retry => wait' + age' >= Retry
      BY <2>1, <3>1
    <3>4. Resting' => Resting
      BY <2>1 DEF Resting
    <3> QED
      BY <2>1, <3>1, <3>2, <3>3, <3>4 DEF Waited
  <2>3. CASE t # Scheduler
    <3>1. wait' = wait /\ pc'[Scheduler] = pc[Scheduler]
      BY <1>1, <2>1, <2>3
    <3> QED
      BY <2>1, <3>1, WaitedKept
  <2> QED
    BY <2>2, <2>3
<1>11. ASSUME NEW t \in Tasks, Checkpoint(t) \/ StopForToday(t) PROVE Waited'
  <2>1. /\ InBody(t) /\ UNCHANGED <<latest, up, wait, age, finished>> /\ overlap' = overlap
        /\ \A k \in Tasks \ {t} : pc'[k] = pc[k]
    BY <1>1, <1>11 DEF Checkpoint, StopForToday, Checkpointed, InBody, ageVars, audit
  <2>2. ~overlap => row'[t].status = "running"
    BY <1>11, <2>1 DEF Checkpoint, StopForToday, Checkpointed, Saved, JobInv, Single, Shape, Row
  <2> QED
    BY <1>1, <2>1, <2>2, WaitedBody DEF Waited
<1>12. ASSUME NEW t \in Tasks, Succeed(t) PROVE Waited'
  <2>1. /\ InBody(t) /\ UNCHANGED <<latest, up>> /\ overlap' = overlap /\ wait' \in Nat /\ age' \in Nat
        /\ finished' = "succeeded" /\ (t # Scheduler => wait' = wait)
        /\ row'[t].status = "succeeded"
        /\ pc'[t] = "idle" /\ \A k \in Tasks \ {t} : pc'[k] = pc[k]
    BY <1>1, <1>12 DEF Succeed, Return, PlanAfter, InBody, Waited, JobInv, Shape
  <2> QED
    BY <1>1, <2>1, WaitedBody
<1>13. ASSUME NEW t \in Tasks, FailRun(t) PROVE Waited'
  <2>1. /\ InBody(t) /\ UNCHANGED <<latest, up>> /\ overlap' = overlap /\ age' = 0
        /\ finished' = "failed" /\ wait' = (IF t = Scheduler THEN Retry ELSE wait)
        /\ pc'[t] = "idle" /\ \A k \in Tasks \ {t} : pc'[k] = pc[k]
    BY <1>1, <1>13 DEF FailRun, Return, PlanAfter
  <2>2. wait' \in Nat /\ age' \in Nat /\ (t = Scheduler => wait' + age' >= Retry)
    BY <2>1 DEF Waited
  <2> QED
    BY <1>1, <2>1, <2>2, WaitedBody
<1>14. ASSUME NEW t \in Tasks, LoseRun(t) PROVE Waited'
  <2>1. /\ InBody(t) /\ UNCHANGED <<row, latest, up, age, finished>> /\ overlap' = overlap
        /\ wait' \in Nat /\ (t # Scheduler => wait' = wait)
        /\ pc'[t] = "idle" /\ \A k \in Tasks \ {t} : pc'[k] = pc[k]
    BY <1>1, <1>14 DEF LoseRun, Return, Waited, ageVars, audit
  <2>2. ~overlap => row'[t].status = "running"
    BY <2>1 DEF JobInv, Single
  <2>3. age' \in Nat /\ finished' \in {"none", "succeeded", "failed"}
    BY <2>1 DEF Waited
  <2> QED
    BY <1>1, <2>1, <2>2, <2>3, WaitedBody
<1> QED
    BY <1>2, <1>3, <1>4, <1>5, <1>6, <1>7, <1>8, <1>9, <1>10, <1>11, <1>12, <1>13, <1>14
       DEF Next, Tasks, Servers

\* RetryRespected: the timer never fires before the retry delay of the scheduler's last failed
\* run is over, whatever was skipped or restarted since, and be the cadence shorter than it.
THEOREM RetryDelay == Spec => RetryRespected
<1>1. Waited /\ [Next]_vars =>
         [Fire /\ ~overlap /\ latest = Scheduler /\ row[latest].status = "failed"
             => age >= Retry]_vars
    BY SyncAssumption DEF Waited, Resting, Fire
<1> QED
    BY <1>1, JobInvInit, JobInvStep, WaitedInit, WaitedStep, PTL DEF Spec, RetryRespected

-----------------------------------------------------------------------------
(* Types.  The rows, the cursors and the tasks are in Shape.                  *)

\* The figures; every loss and every break is a fault.
Figures ==
    /\ up \in BOOLEAN /\ overlap \in BOOLEAN
    /\ wait \in 0..Longest /\ age \in 0..Longest
    /\ finished \in {"none", "succeeded", "failed"}
    /\ faults \in 0..MaxFaults /\ losses \in 0..faults /\ broken \in 0..faults
    /\ repeats \in 0..(MaxFaults + 1)

\* A task of the server that opens or works through a run.
AtWork(t) == Opening(t) \/ InBody(t)

\* It has the lock of its job.
Locked ==
    /\ queue \in Seq(Servers)
    /\ \A t \in Servers : AtWork(t) => queue # <<>> /\ Head(queue) = t

LEMMA Cadences == Longest \in Nat /\ Interval \in 0..Longest /\ Retry \in 0..Longest
    BY SyncAssumption DEF Longest

LEMMA LockedInit == Init => Figures /\ Locked
<1> SUFFICES ASSUME Init PROVE Figures /\ Locked
    OBVIOUS
<1>1. Figures
  <2>1. wait \in 0..Longest /\ age \in 0..Longest /\ faults \in 0..MaxFaults
    BY SyncAssumption, Cadences DEF Init
  <2>2. losses \in 0..faults /\ broken \in 0..faults /\ repeats \in 0..(MaxFaults + 1)
    BY SyncAssumption DEF Init
  <2>3. up = TRUE /\ overlap = FALSE /\ finished = "none"
    BY Zenon DEF Init
  <2> QED
    BY <2>1, <2>2, <2>3, Zenon DEF Figures
<1>2. queue = <<>> /\ \A t \in Servers : ~AtWork(t)
    BY DEF Init, AtWork, InBody, Opening, Tasks
<1>3. Locked
    BY <1>2 DEF Locked
<1> QED
    BY <1>1, <1>3

\* Asking for the lock takes it from nobody.
LEMMA LockAsked ==
    ASSUME Locked, NEW s \in Servers, queue' = Append(queue, s),
           \A t \in Servers : AtWork(t)' => AtWork(t)
    PROVE  Locked'
<1>1. queue \in Seq(Servers)
    BY DEF Locked
<1>2. Append(queue, s) \in Seq(Servers)
    BY <1>1
<1>3. ASSUME NEW t \in Servers, AtWork(t) PROVE queue' # <<>> /\ Head(queue') = t
  <2>1. queue # <<>> /\ Head(queue) = t
    BY <1>3 DEF Locked
  <2>2. Append(queue, s) # <<>> /\ Head(Append(queue, s)) = Head(queue)
    BY <1>1, <2>1
  <2> QED
    BY <2>1, <2>2
<1> QED
    BY <1>2, <1>3 DEF Locked

\* With the lock goes whoever ran.
LEMMA LockLeft ==
    ASSUME Shape, Locked, NEW t \in Tasks, AtWork(t), NEW left, Return(t, left)
    PROVE  Locked'
<1>1. queue \in Seq(Servers)
    BY DEF Locked
<1>2. ASSUME NEW s \in Servers, AtWork(s)' PROVE s # t /\ AtWork(s)
  <2>1. s # t
    BY <1>2 DEF Return, Shape, AtWork, InBody, Opening, Tasks
  <2>2. pc'[s] = pc[s]
    BY <2>1 DEF Return, Shape, Tasks
  <2> QED
    BY <1>2, <2>1, <2>2 DEF AtWork, InBody, Opening
<1>3. CASE t \in Servers
  <2>1. queue # <<>> /\ Head(queue) = t
    BY <1>3 DEF Locked
  <2>2. queue' \in Seq(Servers)
    BY <1>1, <1>3, <2>1 DEF Return, Released
  <2>3. \A s \in Servers : ~(AtWork(s)')
    BY <1>2, <2>1 DEF Locked
  <2> QED
    BY <2>2, <2>3 DEF Locked
<1>4. CASE t \notin Servers
  <2>1. queue' = queue
    BY <1>4 DEF Return, Released
  <2> QED
    BY <1>2, <2>1 DEF Locked
<1> QED
    BY <1>3, <1>4

\* Nobody gets to work or out of the queue.
LEMMA LockKept ==
    ASSUME Locked, queue' = queue, \A t \in Servers : AtWork(t)' => AtWork(t)
    PROVE  Locked'
    BY DEF Locked

LEMMA LockedStep == Shape /\ Locked /\ [Next]_vars => Locked'
<1> SUFFICES ASSUME Shape, Locked, [Next]_vars PROVE Locked'
    OBVIOUS
<1>1. ASSUME NEW t \in Servers, (Fire /\ t = Scheduler) \/ Background(t) PROVE Locked'
  <2>1. queue' = Append(queue, t) /\ pc' = [pc EXCEPT ![t] = "queued"]
    BY <1>1 DEF Fire, Background
  <2>2. \A s \in Servers : AtWork(s)' => AtWork(s)
    BY <2>1 DEF Shape, AtWork, InBody, Opening, Tasks
  <2> QED
    BY <2>1, <2>2, LockAsked
<1>2. ASSUME NEW t \in Tasks, NEW u,
             \/ Trigger(t) \/ RunCli(t) \/ LookUp(t) \/ OpenRun(t)
             \/ Fetch(t, u) \/ Commit(t) \/ Checkpoint(t) \/ StopForToday(t)
      PROVE  Locked'
  <2>1. queue' = queue
    BY <1>2 DEF Trigger, RunCli, LookUp, OpenRun, Fetch, Commit, Checkpoint, StopForToday,
                Checkpointed
  <2>2. /\ \A s \in Tasks \ {t} : pc'[s] = pc[s]
        /\ pc'[t] \in {"checked", "queued"} \/ AtWork(t)
    BY <1>2 DEF Trigger, RunCli, LookUp, OpenRun, Fetch, Commit, Checkpoint, StopForToday,
                Checkpointed, Shape, AtWork, InBody, Opening
  <2>3. ASSUME NEW s \in Servers, AtWork(s)' PROVE AtWork(s)
    BY <2>2, <2>3 DEF AtWork, InBody, Opening, Tasks
  <2> QED
    BY <2>1, <2>3, LockKept
<1>3. ASSUME NEW t \in Tasks, Begin(t) PROVE Locked'
  <2>1. queue' = queue /\ pc' = [pc EXCEPT ![t] = "begun"] /\ HoldsLock(t)
    BY <1>3 DEF Begin
  <2>2. ASSUME NEW s \in Servers, AtWork(s)' PROVE queue # <<>> /\ Head(queue) = s
    <3>1. CASE s = t
      BY <2>1, <3>1, SyncAssumption DEF HoldsLock
    <3>2. CASE s # t
      <4>1. AtWork(s)
        BY <2>1, <2>2, <3>2 DEF Shape, AtWork, InBody, Opening, Tasks
      <4> QED
        BY <4>1 DEF Locked
    <3> QED
      BY <3>1, <3>2
  <2> QED
    BY <2>1, <2>2 DEF Locked
<1>4. ASSUME NEW t \in Tasks, Succeed(t) \/ FailRun(t) \/ LoseRun(t) \/ FailOpening(t)
      PROVE  Locked'
  <2>1. AtWork(t) /\ \E left : Return(t, left)
    BY <1>4 DEF Succeed, FailRun, LoseRun, FailOpening, AtWork, InBody
  <2> QED
    BY <2>1, LockLeft
<1>5. CASE Crash
  <2>1. queue' = <<>> /\ \A s \in Servers : pc'[s] = "idle"
    BY <1>5 DEF Crash, Tasks
  <2>2. \A s \in Servers : ~(AtWork(s)')
    BY <2>1 DEF AtWork, InBody, Opening
  <2> QED
    BY <2>1, <2>2 DEF Locked
<1>6. CASE Tick \/ Skip \/ Restart \/ UNCHANGED vars
  <2>1. queue' = queue /\ pc' = pc
    BY <1>6 DEF Tick, Skip, Restart, vars, taskVars
  <2> QED
    BY <2>1, LockKept DEF AtWork, InBody, Opening
<1> QED
    BY <1>1, <1>2, <1>3, <1>4, <1>5, <1>6 DEF Next, Tasks, Servers

\* Another fault leaves the losses and breaks among the faults.
LEMMA OneFault ==
    ASSUME NEW f \in 0..MaxFaults, NEW n \in 0..f, f < MaxFaults
    PROVE  f + 1 \in 0..MaxFaults /\ n \in 0..(f + 1) /\ n + 1 \in 0..(f + 1)
    BY SyncAssumption

LEMMA FiguresStep == Figures /\ [Next]_vars => Figures'
<1> USE SyncAssumption
<1> SUFFICES ASSUME Figures, [Next]_vars PROVE Figures'
    OBVIOUS
<1>1. /\ up \in BOOLEAN /\ overlap \in BOOLEAN
      /\ wait \in 0..Longest /\ age \in 0..Longest
      /\ finished \in {"none", "succeeded", "failed"}
      /\ faults \in 0..MaxFaults /\ losses \in 0..faults /\ broken \in 0..faults
      /\ repeats \in 0..(MaxFaults + 1)
    BY Zenon DEF Figures
<1>2. /\ 0 \in 0..Longest /\ Interval \in 0..Longest /\ Retry \in 0..Longest
      /\ \A left \in 0..Interval : left \in 0..Longest
    BY Cadences
<1>3. ASSUME faults < MaxFaults
      PROVE  /\ faults + 1 \in 0..MaxFaults
             /\ losses \in 0..(faults + 1) /\ losses + 1 \in 0..(faults + 1)
             /\ broken \in 0..(faults + 1) /\ broken + 1 \in 0..(faults + 1)
    BY <1>1, <1>3, OneFault
<1>4. CASE Tick
  <2>1. wait' \in 0..Longest /\ age' \in 0..Longest
    BY <1>1, <1>4, Cadences DEF Tick
  <2> QED
    BY <1>4, <2>1, Zenon DEF Tick, audit, Figures
<1>5. CASE Fire \/ UNCHANGED vars
    BY <1>5, Zenon DEF Fire, vars, ageVars, audit, Figures
<1>6. CASE Skip
    BY <1>2, <1>3, <1>6, Zenon DEF Skip, ageVars, audit, Figures
<1>7. CASE Crash
    BY <1>2, <1>3, <1>7, Zenon DEF Crash, ageVars, audit, Figures
<1>8. CASE Restart
  <2>1. PlanNextRun \in 0..Longest
    BY <1>1, PlanNextRunType, Cadences
  <2>2. up' \in BOOLEAN /\ wait' = PlanNextRun
    BY <1>8 DEF Restart
  <2> QED
    BY <1>8, <2>1, <2>2, Zenon DEF Restart, ageVars, audit, Figures
<1>9. ASSUME NEW t, NEW u, Background(t) \/ Begin(t) \/ Fetch(t, u) \/ Checkpoint(t)
      PROVE  Figures'
    BY <1>9, Zenon DEF Background, Begin, Fetch, Checkpoint, Checkpointed, ageVars, audit, Figures
<1>10. ASSUME NEW t, Trigger(t) \/ RunCli(t) \/ StopForToday(t) PROVE Figures'
    BY <1>3, <1>10, Zenon DEF Trigger, RunCli, StopForToday, Checkpointed, ageVars, audit, Figures
<1>11. ASSUME NEW t, LookUp(t) PROVE Figures'
  <2>1. overlap' \in BOOLEAN
    BY <1>11, Zenon DEF LookUp
  <2> QED
    BY <1>11, <2>1, Zenon DEF LookUp, ageVars, Figures
<1>12. ASSUME NEW t, OpenRun(t) PROVE Figures'
  <2>1. /\ UNCHANGED <<up, wait, faults, losses, broken, repeats>>
        /\ \/ finished' = "failed" /\ age' = 0
           \/ finished' = finished /\ age' = age
    BY <1>12, Zenon DEF OpenRun, ageVars
  <2>2. overlap' \in BOOLEAN
    BY <1>12, Zenon DEF OpenRun
  <2>3. age' \in 0..Longest
    BY <1>1, <1>2, <2>1
  <2>4. finished' \in {"none", "succeeded", "failed"}
    BY <2>1 DEF Figures
  <2> QED
    BY <2>1, <2>2, <2>3, <2>4, Zenon DEF Figures
<1>13. ASSUME NEW t, Commit(t) PROVE Figures'
  <2>1. repeats' \in 0..(MaxFaults + 1)
    BY <1>1, <1>13 DEF Commit
  <2> QED
    BY <1>13, <2>1, Zenon DEF Commit, ageVars, Figures
<1>14. ASSUME NEW t, Succeed(t) PROVE Figures'
  <2>1. wait' \in 0..Longest /\ age' = 0
    BY <1>1, <1>2, <1>14 DEF Succeed, Return, PlanAfter
  <2>2. finished' \in {"none", "succeeded", "failed"}
    BY <1>14 DEF Succeed
  <2> QED
    BY <1>2, <1>14, <2>1, <2>2, Zenon DEF Succeed, Figures
<1>15. ASSUME NEW t, FailRun(t) PROVE Figures'
  <2>1. wait' \in 0..Longest /\ age' = 0
    BY <1>1, <1>2, <1>15 DEF FailRun, Return, PlanAfter
  <2>2. finished' \in {"none", "succeeded", "failed"}
    BY <1>15 DEF FailRun
  <2>3. broken' \in 0..(faults + 1)
    BY <1>3, <1>15, Zenon DEF FailRun
  <2>4. faults' = faults + 1 /\ losses' = losses /\ faults < MaxFaults
    BY <1>15 DEF FailRun
  <2> QED
    BY <1>2, <1>3, <1>15, <2>1, <2>2, <2>3, <2>4, Zenon DEF FailRun, Figures
<1>16. ASSUME NEW t, LoseRun(t) \/ FailOpening(t) PROVE Figures'
  <2>1. wait' \in 0..Longest
    BY <1>1, <1>2, <1>16, Zenon DEF LoseRun, FailOpening, Return
  <2> QED
    BY <1>3, <1>16, <2>1, Zenon DEF LoseRun, FailOpening, ageVars, audit, Figures
<1> QED
    BY <1>4, <1>5, <1>6, <1>7, <1>8, <1>9, <1>10, <1>11, <1>12, <1>13, <1>14, <1>15, <1>16
       DEF Next

LEMMA JobAlways == Spec => [](JobInv /\ Figures /\ Locked)
<1>1. JobInv => Shape
    BY DEF JobInv
<1> QED
    BY <1>1, JobInvInit, JobInvStep, LockedInit, LockedStep, FiguresStep, PTL DEF Spec

\* The job's state is well typed: only tasks of the server wait for its lock, no plan is further
\* away than the longer of cadence and retry delay, and losses and breaks are among the faults.
THEOREM JobTypes == Spec => []TypeOK
<1>1. JobInv /\ Figures /\ Locked => TypeOK
  <2> SUFFICES ASSUME Shape, Figures, Locked PROVE TypeOK
    BY DEF JobInv
  <2>1. losses \in 0..MaxFaults /\ broken \in 0..MaxFaults
    BY SyncAssumption DEF Figures
  <2> QED
    BY <2>1, Zenon DEF Shape, Places, Figures, Locked, TypeOK
<1> QED
    BY <1>1, JobAlways, PTL

\* One at a time: no two runs of a job overlap inside the server, from the first read of the
\* history to the close, whoever asked for them and whenever; the lock is left by its holder
\* and by nobody else.
THEOREM OneRunInTheServer ==
    Spec => [](\A s, t \in Servers : AtWork(s) /\ AtWork(t) => s = t)
<1>1. Locked => \A s, t \in Servers : AtWork(s) /\ AtWork(t) => s = t
    BY DEF Locked
<1> QED
    BY <1>1, JobAlways, PTL

\* Nobody opens a run across another.
Uncrossed == Clis = {} => crossed = {} /\ \A t \in Tasks : missed[t] = {}

LEMMA UncrossedStep == Shape /\ Locked /\ Uncrossed /\ [Next]_vars => Uncrossed'
<1> SUFFICES ASSUME Shape, Locked, Uncrossed, [Next]_vars, Clis = {}
             PROVE  crossed' = {} /\ \A t \in Tasks : missed'[t] = {}
    BY DEF Uncrossed
<1>1. /\ missed \in [Tasks -> SUBSET Tasks] /\ Tasks = Servers
      /\ crossed = {} /\ \A t \in Tasks : missed[t] = {}
    BY DEF Shape, Uncrossed, Tasks
<1>2. ASSUME NEW t \in Tasks, OpenRun(t) PROVE crossed' = {} /\ \A k \in Tasks : missed'[k] = {}
  <2>1. Opening(t) /\ \A k \in Tasks : Opening(k) => k = t
    BY <1>1, <1>2 DEF OpenRun, Opening, Locked, AtWork
  <2>2. missed' = [k \in Tasks |-> IF k = t THEN {}
                                    ELSE IF Opening(k) THEN missed[k] \cup {t} ELSE missed[k]]
    BY <1>2, Zenon DEF OpenRun
  <2>3. \A k \in Tasks : missed'[k] = {}
    BY <1>1, <2>1, <2>2
  <2>4. crossed' = (crossed \ {t}) \cup {}
    BY <1>1, <1>2, Zenon DEF OpenRun
  <2> QED
    BY <1>1, <2>3, <2>4
<1>3. ASSUME NEW t \in Tasks, Succeed(t) \/ FailRun(t) \/ LoseRun(t) \/ FailOpening(t)
      PROVE  crossed' = {} /\ \A k \in Tasks : missed'[k] = {}
  <2>1. crossed' = crossed /\ missed' = [missed EXCEPT ![t] = {}]
    BY <1>3 DEF Succeed, FailRun, LoseRun, FailOpening, Return, audit
  <2> QED
    BY <1>1, <2>1
<1>4. CASE Crash
  <2>1. /\ crossed' = crossed
        /\ missed' = [t \in Tasks |-> IF t \in Servers THEN {} ELSE missed[t]]
    BY <1>4 DEF Crash, audit
  <2> QED
    BY <1>1, <2>1
<1>5. CASE Tick \/ Fire \/ Skip \/ Restart \/ UNCHANGED vars
    BY <1>1, <1>5 DEF Tick, Fire, Skip, Restart, vars, taskVars, audit
<1>6. ASSUME NEW t \in Tasks, NEW u,
             \/ Trigger(t) \/ Background(t) \/ RunCli(t) \/ Begin(t) \/ LookUp(t)
             \/ Fetch(t, u) \/ Commit(t) \/ Checkpoint(t) \/ StopForToday(t)
      PROVE  crossed' = {} /\ \A k \in Tasks : missed'[k] = {}
    BY <1>1, <1>6 DEF Trigger, Background, RunCli, Begin, LookUp, Fetch, Commit, Checkpoint,
                      StopForToday, Checkpointed, audit
<1> QED
    BY <1>2, <1>3, <1>4, <1>5, <1>6 DEF Next, Tasks, Servers

\* With no second process the history never shows two unfinished runs, whatever fails, crashes
\* or is called by hand: the lock alone keeps the runs of the server from crossing.
THEOREM OneServerOneOpenRun ==
    Spec => [](Clis = {} => \A t \in Tasks : row[t].status = "running" => t = latest)
<1>1. Init => Uncrossed
    BY DEF Init, Uncrossed
<1>2. JobInv => Shape /\ OneOpenRun
    BY DEF JobInv
<1>3. OneOpenRun /\ Uncrossed =>
         (Clis = {} => \A t \in Tasks : row[t].status = "running" => t = latest)
    BY DEF OneOpenRun, Uncrossed
<1> QED
    BY <1>1, <1>2, <1>3, JobAlways, UncrossedStep, PTL DEF Spec
================================================================================
