----------------------------- MODULE MCEdgeQueue -----------------------------
(* A small instance of EdgeQueue for TLC.                                  *)
EXTENDS EdgeQueue, TLC

CONSTANTS e1, e2, r1, r2, o1

(* An update and a payment whose numbers are the same.                     *)
SameSequence == e1 :> 1 @@ e2 :> 1

(* Two reconcilers with one process id: an old container and a new one.    *)
SameOwner == [r \in Reconcilers |-> o1]
=============================================================================
