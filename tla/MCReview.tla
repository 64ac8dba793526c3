------------------------------ MODULE MCReview ------------------------------
(* An instance of Review for TLC: a post whose first version is explicit   *)
(* and whose edit needs a review.                                          *)
EXTENDS Review, TLC

CONSTANTS e1, m1, p1, w1, w2, s1

EditedPostOf == e1 :> p1 @@ m1 :> p1
EditedDuplicatesOf == e1 :> {m1} @@ m1 :> {e1}
=============================================================================
