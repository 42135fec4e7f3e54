------------------------- MODULE ProjectionReplica -------------------------
(***************************************************************************)
(* What a view's frontend store promises: it shows a prefix of the patches *)
(* of one runtime instance, made of exactly these patches, and it never    *)
(* goes back within an instance or to an instance that was replaced.       *)
(***************************************************************************)
EXTENDS Naturals

VARIABLES
  source,   \* the runtime: its instance and how many patches it has made
  replica   \* the store: whose patches it shows, how many, and which

Prefix(n) == [i \in 1..n |-> i]

Init ==
  /\ source = [instance |-> 1, head |-> 0]
  /\ replica = [instance |-> 0, sequence |-> 0, content |-> Prefix(0)]

(* The runtime makes patches.                                              *)
Grow ==
  /\ \E n \in 1..2 : source' = [source EXCEPT !.head = @ + n]
  /\ UNCHANGED replica

(* Another runtime instance takes over.                                    *)
Replace ==
  /\ source' = [instance |-> source.instance + 1, head |-> 0]
  /\ UNCHANGED replica

(* The store catches up with the running instance, in part or entirely.    *)
CatchUp ==
  /\ \E n \in 0..source.head :
       /\ replica.instance = source.instance => n >= replica.sequence
       /\ replica' = [instance |-> source.instance, sequence |-> n, content |-> Prefix(n)]
  /\ UNCHANGED source

Next == Grow \/ Replace \/ CatchUp

Spec == Init /\ [][Next]_<<source, replica>>
=============================================================================
