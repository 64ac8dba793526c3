------------------------------ MODULE EffectOnce ------------------------------
(***************************************************************************)
(* What an outbox promises: the effect of a job is performed once, in the  *)
(* step that ends the job and creates the job that follows it; a job that  *)
(* is given up has no effect; what has ended stays as it is.               *)
(***************************************************************************)
EXTENDS Integers

CONSTANTS First, Later, FollowUp

VARIABLES state, performed

Jobs == First \cup Later

Init == /\ state = [j \in Jobs |-> "absent"]
        /\ performed = [j \in Jobs |-> 0]

Create(j) == /\ j \in First /\ state[j] = "absent"
             /\ state' = [state EXCEPT ![j] = "open"]
             /\ UNCHANGED performed

(* The job k that follows j, unless it is there already.                   *)
Follows(j, k) == j \in First /\ k = FollowUp[j] /\ state[k] = "absent"

Perform(j) ==
    /\ state[j] = "open"
    /\ performed' = [performed EXCEPT ![j] = @ + 1]
    /\ state' = [k \in Jobs |-> IF k = j THEN "done"
                                ELSE IF Follows(j, k) THEN "open"
                                ELSE state[k]]

GiveUp(j) == /\ state[j] = "open"
             /\ state' = [state EXCEPT ![j] = "dead"]
             /\ UNCHANGED performed

Next == \E j \in Jobs : Create(j) \/ Perform(j) \/ GiveUp(j)

Spec == Init /\ [][Next]_<<state, performed>>
=============================================================================
