------------------------------ MODULE InboxTable ------------------------------
(***************************************************************************)
(* What the table edge_inbox_events is to those who write it: the          *)
(* reconciler inserts events and deletes old ones, the notification        *)
(* workers close them.  EdgeQueue and EdgeInbox each have a half of its    *)
(* writers in full and the other half as single steps; both implement this *)
(* specification.                                                          *)
(***************************************************************************)
CONSTANT Events

VARIABLE table    \* "absent", "open" or "closed" (processed_at IS NOT NULL)

Rows(S) == {e \in Events : table[e] = S}

SetRows(B, state) == table' = [e \in Events |-> IF e \in B THEN state ELSE table[e]]

Init == table = [e \in Events |-> "absent"]

(* A batch is inserted: only events that have no row.                      *)
Insert(B) == B \subseteq Rows("absent") /\ SetRows(B, "open")

(* An event is closed, once.                                               *)
Close(e) == e \in Rows("open") /\ SetRows({e}, "closed")

(* Retention deletes closed rows only.                                     *)
Delete(B) == B \subseteq Rows("closed") /\ SetRows(B, "absent")

Next == \/ \E B \in SUBSET Events : Insert(B) \/ Delete(B)
        \/ \E e \in Events : Close(e)

Spec == Init /\ [][Next]_table
=============================================================================
