----------------------------- MODULE MCEdgeInbox -----------------------------
(* Small instances of EdgeInbox for TLC.                                   *)
EXTENDS EdgeInbox, TLC

CONSTANTS u1, u2, p1, chat, order, w1, w2

(* Two updates of one chat and a payment.                                  *)
ChatAndOrder == [e \in Events |-> (u1 :> chat @@ u2 :> chat @@ p1 :> order)[e]]
ChatAndOrderSequence == [e \in Events |-> (u1 :> 2 @@ u2 :> 3 @@ p1 :> 1)[e]]
=============================================================================
