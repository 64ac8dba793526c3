------------------------------ MODULE MCOutbox ------------------------------
(* An instance of Outbox for TLC.                                          *)
EXTENDS Outbox, TLC

CONSTANTS p1, p2, k1, a, b, n, o1, o2

(* Two edits of a post whose events lead to one classification.            *)
TwoCompletionOf == p1 :> k1 @@ p2 :> k1

(* Two classifiers that run under the same process id, and a planner.      *)
PairOwnerOf == a :> o1 @@ b :> o1 @@ n :> o2
=============================================================================
