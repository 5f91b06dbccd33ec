---------------------------- MODULE ConsensusHistory ----------------------------
(***************************************************************************)
(* Consensus with a history variable that remembers what each source said  *)
(* last of the coin, for the property that the catalogue shows it.         *)
(***************************************************************************)
EXTENDS Consensus

VARIABLE heard      \* per source: the value it last reported for the coin

HeardInit == Init /\ heard = [s \in Sources |-> NoValue]

HeardNext ==
    \/ \E s \in Sources, t \in Types :
          \/ \E v \in Values : Ingest(s, t, v) /\ heard' = [heard EXCEPT ![s] = v]
          \/ IngestWithout(s, t) /\ UNCHANGED heard
    \/ \E keep, drop \in Types : Merge(keep, drop) /\ UNCHANGED heard

HeardSpec == HeardInit /\ [][HeardNext]_<<vars, heard>>

\* The highest authority that spoke of a coin has the last word: whatever was said before,
\* its own earlier figures included, the column holds what it said last, but for the way
\* it is written.  (record_claim compares with the source's latest claim only.)
LastWordShown ==
    \A s \in Sources :
        /\ heard[s] # NoValue
        /\ \A r \in Sources \ {s} :
              known[r] = known[s] /\ heard[r] # NoValue => Rank[r] < Rank[s]
        => Norm(column[known[s]]) = Norm(heard[s])
=================================================================================
