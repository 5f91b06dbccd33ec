------------------------------ MODULE PieceLedger ------------------------------
(***************************************************************************)
(* What the portfolio promises about a physical piece, whatever requests    *)
(* arrive: its holder, its verification and its trail (piece_event, which   *)
(* a certificate signs) change together, the trail only grows while the     *)
(* piece is in a collection, and a piece that left never comes back.        *)
(* Marketplace implements this specification.                               *)
(***************************************************************************)
EXTENDS Naturals, Sequences

CONSTANTS Users, Items, Nobody

VARIABLES owner, removed, verified, chain

ledger == <<owner, removed, verified, chain>>

Init ==
    /\ owner = [i \in Items |-> Nobody]
    /\ removed = {}
    /\ verified = [i \in Items |-> FALSE]
    /\ chain = [i \in Items |-> <<>>]

Keep(i) ==
    /\ owner'[i] = owner[i] /\ verified'[i] = verified[i] /\ chain'[i] = chain[i]
    /\ i \in removed' <=> i \in removed

\* A collector enters the piece: the trail starts with them, unverified.
Register(i) ==
    /\ owner[i] = Nobody /\ i \notin removed /\ i \notin removed'
    /\ owner'[i] \in Users
    /\ verified'[i] = FALSE
    /\ chain'[i] = <<[kind |-> "registered", from |-> Nobody, to |-> owner'[i]]>>

\* The holder confirms the piece with a photo.
Verify(i) ==
    /\ owner[i] # Nobody /\ owner'[i] = owner[i]
    /\ i \notin removed /\ i \notin removed'
    /\ verified'[i] = TRUE
    /\ chain'[i] = Append(chain[i], [kind |-> "verified", from |-> Nobody, to |-> owner[i]])

\* A verified piece changes hands, perhaps twice in one deal: every new event takes
\* over where the trail stood and the last one names the new holder.
Transfer(i) ==
    /\ owner[i] # Nobody /\ owner'[i] \in Users
    /\ i \notin removed /\ i \notin removed'
    /\ verified[i] /\ verified'[i]
    /\ Len(chain'[i]) > Len(chain[i])
    /\ SubSeq(chain'[i], 1, Len(chain[i])) = chain[i]
    /\ \A k \in Len(chain[i]) + 1 .. Len(chain'[i]) :
          /\ chain'[i][k].kind \in {"sale", "trade"}
          /\ chain'[i][k].from = IF k = Len(chain[i]) + 1 THEN owner[i]
                                                         ELSE chain'[i][k - 1].to
    /\ chain'[i][Len(chain'[i])].to = owner'[i]

\* The holder takes it out of the collection, for good.
Remove(i) ==
    /\ owner[i] # Nobody /\ owner'[i] = Nobody
    /\ i \in removed'
    /\ verified'[i] = FALSE
    /\ chain'[i] = <<>>

Next == \A i \in Items : Keep(i) \/ Register(i) \/ Verify(i) \/ Transfer(i) \/ Remove(i)

Spec == Init /\ [][Next]_ledger
================================================================================
