----------------------------- MODULE AtLeastOnce -----------------------------
(***************************************************************************)
(* What a table of deliveries promises: each job ends at most once, as     *)
(* sent only after the recipient was given the message at least once, and  *)
(* its end is final.  Giving the message twice, or giving it and then      *)
(* failing, is allowed.                                                    *)
(***************************************************************************)
CONSTANT Jobs

VARIABLES outcome, taken

Init == /\ outcome = [j \in Jobs |-> "open"]
        /\ taken = [j \in Jobs |-> FALSE]

(* The recipient is given the message; also by a worker that comes late.   *)
Take(j) == /\ taken' = [taken EXCEPT ![j] = TRUE]
           /\ UNCHANGED outcome

EndSent(j) == /\ outcome[j] = "open" /\ taken[j]
              /\ outcome' = [outcome EXCEPT ![j] = "sent"]
              /\ UNCHANGED taken

EndFailed(j) == /\ outcome[j] = "open"
                /\ outcome' = [outcome EXCEPT ![j] = "failed"]
                /\ UNCHANGED taken

Next == \E j \in Jobs : Take(j) \/ EndSent(j) \/ EndFailed(j)

Spec == Init /\ [][Next]_<<outcome, taken>>
=============================================================================
