--------------------------- MODULE MCFrontendSync ---------------------------
(* FrontendSync for TLC.                                                   *)
EXTENDS FrontendSync, SequencesExt

Stores == {[instance |-> r, sequence |-> n, content |-> [i \in 1..n |-> i]] : r \in 0..2, n \in 0..MaxHead}

(* To release patches at once is to hand them to applyPatch one after the  *)
(* other, in the order of their sequence, as the client does.              *)
ASSUME ReleasedInOrder ==
  \A st \in Stores : \A patches \in SUBSET [type : {"patch"}, instance : 1..2, sequence : 1..MaxHead] :
    LET ordered == SetToSortSeq(patches, LAMBDA p, q : p.sequence < q.sequence)
        after(i) == FoldLeft(Applied, st, SubSeq(ordered, 1, i))
    IN /\ AppliedAll(st, patches) = after(Len(ordered))
       /\ TimersFor(st, patches) =
            Cardinality({i \in DOMAIN ordered : NeedsResync(after(i - 1), ordered[i])})
=============================================================================
