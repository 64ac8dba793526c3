------------------------------- MODULE DueOrder -------------------------------
(***************************************************************************)
(* The order in which the claim queries take rows: available_at, id.  Time *)
(* is abstract: older[x] is the set of due rows that come before the due   *)
(* row x.                                                                  *)
(***************************************************************************)
EXTENDS Integers, FiniteSets

(* x becomes due after the rows that are due already.                      *)
Arrive(older, due, x) == [older EXCEPT ![x] = due]

(* x is no longer due.                                                     *)
Leave(older, x) ==
    [y \in DOMAIN older |-> IF y = x THEN {} ELSE older[y] \ {x}]

(* x comes first among the rows S.                                         *)
FirstOf(older, x, S) == older[x] \cap S = {}

(* ORDER BY available_at, id LIMIT limit over the rows S: the first of     *)
(* them, as many as there are up to the limit.                             *)
Oldest(older, S, limit) ==
    {B \in SUBSET S :
        /\ B # {}
        /\ \A x \in B : older[x] \cap S \subseteq B
        /\ Cardinality(B) <= limit
        /\ Cardinality(B) = limit \/ B = S}
=============================================================================
