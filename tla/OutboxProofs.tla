------------------------------ MODULE OutboxProofs ------------------------------
(***************************************************************************)
(* Proofs about Outbox, for every set of events and workers, equal owner   *)
(* strings included, and every bound.                                      *)
(***************************************************************************)
EXTENDS Outbox, TLAPS

RowTypeOK ==
    /\ attempts \in [Events -> Nat]
    /\ lease \in [Events -> {"none", "live", "expired"}]
    /\ leaseOwner \in [Events -> Owners \cup {NoOwner}]
    /\ \A e \in Events : /\ lease[e] = "none" <=> leaseOwner[e] = NoOwner
                         /\ lease[e] # "none" => e \in stored \ processed
    /\ due \in SUBSET (stored \ processed)
    /\ older \in [Events -> SUBSET Events]

LEMMA SetTaskType ==
    ASSUME TypeOK, NEW w \in Workers, NEW e \in Events, NEW t \in Task, SetTask(w, e, t)
    PROVE  task' \in [Workers -> [Events -> Task]]
  BY DEF SetTask, TypeOK

LEMMA IdleType == Idle \in Task
  BY DEF Idle, Task

LEMMA EnterType ==
    ASSUME TypeOK, NEW w \in Workers, NEW e \in Events,
           NEW phase \in {"work", "commit", "failing", "release", "deferring"},
           Enter(w, e, phase)
    PROVE  task' \in [Workers -> [Events -> Task]]
<1>. DEFINE t == [phase |-> phase, attempt |-> task[w][e].attempt]
<1>1. t \in Task
  BY DEF TypeOK, Task
<1>2. SetTask(w, e, t)
  BY DEF Enter
<1>. HIDE DEF t
<1>. QED BY <1>1, <1>2, SetTaskType

(* A released row is typed, whether it was processed or put off.           *)
LEMMA ReleaseType ==
    ASSUME TypeOK, NEW e \in Events, ReleaseLease(e), LeaveQueue(e), attempts' = attempts,
           stored \subseteq stored', processed' \in {processed, processed \cup {e}}
    PROVE  RowTypeOK'
<1>1. older' = [y \in Events |-> IF y = e THEN {} ELSE older[y] \ {e}]
  BY DEF LeaveQueue, Leave, TypeOK
<1>2. older' \in [Events -> SUBSET Events]
  BY <1>1 DEF TypeOK
<1>3. due' \in SUBSET (stored' \ processed')
  BY DEF LeaveQueue, TypeOK
<1>4. \A y \in Events : /\ lease'[y] = IF y = e THEN "none" ELSE lease[y]
                        /\ leaseOwner'[y] = IF y = e THEN NoOwner ELSE leaseOwner[y]
  BY DEF ReleaseLease, TypeOK
<1>5. \A y \in Events : /\ lease'[y] = "none" <=> leaseOwner'[y] = NoOwner
                        /\ lease'[y] # "none" => y \in stored' \ processed'
  BY <1>4 DEF TypeOK
<1>6. /\ lease' \in [Events -> {"none", "live", "expired"}]
      /\ leaseOwner' \in [Events -> Owners \cup {NoOwner}]
      /\ attempts' \in [Events -> Nat]
  BY DEF ReleaseLease, TypeOK
<1>. QED BY <1>2, <1>3, <1>5, <1>6 DEF RowTypeOK

LEMMA CommitEffectType ==
    ASSUME TypeOK, NEW w \in Workers, NEW e \in Events, CommitEffect(w, e)
    PROVE  TypeOK'
<1>1. CASE OwnsOpenRow(w, e)
  <2>1. e \in stored \ processed
    BY <1>1, ConstantsAssumption DEF OwnsOpenRow, TypeOK
  <2>2. /\ effects' = [effects EXCEPT ![e] = @ + 1]
        /\ stored' = StoredAfter(e) /\ processed' = processed \cup {e}
        /\ ReleaseLease(e) /\ LeaveQueue(e) /\ attempts' = attempts
        /\ SetTask(w, e, Idle) /\ dead' = dead /\ faults' = faults
    BY <1>1 DEF CommitEffect, MarkProcessed
  <2>3. stored' \in SUBSET Events /\ stored \subseteq stored'
    BY <2>2, ConstantsAssumption DEF StoredAfter, TypeOK, Events
  <2>4. RowTypeOK'
    BY <2>2, <2>3, ReleaseType
  <2>5. task' \in [Workers -> [Events -> Task]]
    BY <2>2, SetTaskType, IdleType
  <2>6. effects' \in [Events -> Nat]
    BY <2>2 DEF TypeOK
  <2>. QED BY <2>1, <2>2, <2>3, <2>4, <2>5, <2>6 DEF TypeOK, RowTypeOK
<1>2. CASE ~OwnsOpenRow(w, e)
  <2>1. Enter(w, e, "failing")
    BY <1>2 DEF CommitEffect
  <2>2. task' \in [Workers -> [Events -> Task]]
    BY <2>1, EnterType
  <2>. QED BY <1>2, <2>2 DEF CommitEffect, TypeOK, rowVars
<1>. QED BY <1>1, <1>2

LEMMA CommitFailureType ==
    ASSUME TypeOK, NEW w \in Workers, NEW e \in Events, CommitFailure(w, e)
    PROVE  TypeOK'
<1>0. /\ SetTask(w, e, Idle) /\ UNCHANGED <<stored, effects, faults>>
  BY DEF CommitFailure
<1>1. task' \in [Workers -> [Events -> Task]]
  BY <1>0, SetTaskType, IdleType
<1>2. CASE OwnsOpenRow(w, e)
  <2>1. e \in stored \ processed
    BY <1>2, ConstantsAssumption DEF OwnsOpenRow, TypeOK
  <2>2. /\ ReleaseLease(e) /\ LeaveQueue(e) /\ attempts' = attempts
        /\ \/ processed' = processed \cup {e} /\ dead' = dead \cup {e}
           \/ processed' = processed /\ dead' = dead
    BY <1>2 DEF CommitFailure, MarkProcessed
  <2>3. RowTypeOK'
    BY <1>0, <2>2, ReleaseType
  <2>. QED BY <1>0, <1>1, <2>1, <2>2, <2>3 DEF TypeOK, RowTypeOK
<1>3. CASE ~OwnsOpenRow(w, e)
  BY <1>0, <1>1, <1>3 DEF CommitFailure, TypeOK, rowVars
<1>. QED BY <1>2, <1>3

LEMMA DeferType ==
    ASSUME TypeOK, NEW w \in Workers, NEW e \in Events, Defer(w, e)
    PROVE  TypeOK'
<1>1. task' \in [Workers -> [Events -> Task]]
  BY SetTaskType, IdleType DEF Defer
<1>2. CASE OwnsOpenRow(w, e)
  <2>1. RowTypeOK'
    BY <1>2, ReleaseType DEF Defer
  <2>. QED BY <1>1, <2>1 DEF Defer, TypeOK, RowTypeOK
<1>3. CASE ~OwnsOpenRow(w, e)
  BY <1>1, <1>3 DEF Defer, TypeOK, rowVars
<1>. QED BY <1>2, <1>3

LEMMA ClaimType ==
    ASSUME TypeOK, NEW w \in Workers, ClaimEvents(w)
    PROVE  TypeOK'
<1>1. PICK B \in Oldest(older, ClaimableOf(w), ClaimLimit) :
        /\ attempts' = [e \in Events |-> IF e \in B THEN attempts[e] + 1 ELSE attempts[e]]
        /\ lease' = [e \in Events |-> IF e \in B THEN "live" ELSE lease[e]]
        /\ leaseOwner' = [e \in Events |-> IF e \in B THEN OwnerOf[w] ELSE leaseOwner[e]]
        /\ task' = [task EXCEPT ![w] = [e \in Events |->
                       IF e \in B THEN [phase |-> "work", attempt |-> attempts'[e]] ELSE Idle]]
  BY DEF ClaimEvents
<1>2. B \subseteq due
  BY DEF Oldest, ClaimableOf
<1>3. OwnerOf[w] \in Owners /\ NoOwner \notin Owners
  BY ConstantsAssumption
<1>4. attempts' \in [Events -> Nat]
  BY <1>1 DEF TypeOK
<1>5. [e \in Events |-> IF e \in B THEN [phase |-> "work", attempt |-> attempts'[e]] ELSE Idle]
        \in [Events -> Task]
  BY <1>4, IdleType DEF Task
<1>6. task' \in [Workers -> [Events -> Task]]
  BY <1>1, <1>5 DEF TypeOK
<1>. QED BY <1>1, <1>2, <1>3, <1>4, <1>6 DEF ClaimEvents, TypeOK

LEMMA NextTypeOK == ASSUME TypeOK, [Next]_vars PROVE TypeOK'
<1>1. ASSUME NEW w \in Workers, ClaimEvents(w) PROVE TypeOK'
  BY <1>1, ClaimType
<1>2. ASSUME NEW w \in Workers, Crash(w) PROVE TypeOK'
  BY <1>2, IdleType DEF Crash, Fault, TypeOK, rowVars
<1>3. ASSUME NEW w \in Workers, NEW e \in Events, TaskStep(w, e) PROVE TypeOK'
  <2>1. CASE BeginEffect(w, e) \/ WorkFails(w, e)
    <3>1. task' \in [Workers -> [Events -> Task]]
      BY <2>1, EnterType DEF BeginEffect, WorkFails
    <3>. QED BY <2>1, <3>1 DEF BeginEffect, WorkFails, TypeOK, rowVars
  <2>2. CASE BeginFailure(w, e)
    <3>1. task' \in [Workers -> [Events -> Task]]
      BY <2>2, EnterType, SetTaskType, IdleType DEF BeginFailure
    <3>. QED BY <2>2, <3>1 DEF BeginFailure, TypeOK, rowVars
  <2>. QED BY <1>3, <2>1, <2>2, CommitEffectType, CommitFailureType, DeferType DEF TaskStep
<1>4. ASSUME NEW w \in Workers, NEW e \in Events, ReviewUnavailable(w, e) PROVE TypeOK'
  <2>1. task' \in [Workers -> [Events -> Task]]
    BY <1>4, EnterType DEF ReviewUnavailable
  <2>. QED BY <1>4, <2>1 DEF ReviewUnavailable, Fault, TypeOK, rowVars
<1>5. ASSUME NEW w \in Workers, NEW e \in Events, TransactionFails(w, e) PROVE TypeOK'
  <2>1. task' \in [Workers -> [Events -> Task]]
    BY <1>5, EnterType, SetTaskType, IdleType DEF TransactionFails
  <2>. QED BY <1>5, <2>1 DEF TransactionFails, Fault, TypeOK, rowVars
<1>6. ASSUME NEW e \in Events, BecomesDue(e) PROVE TypeOK'
  BY <1>6 DEF BecomesDue, Arrive, TypeOK
<1>7. ASSUME NEW e \in Events, LeaseExpires(e) PROVE TypeOK'
  <2>1. faults' \in Nat
    BY <1>7 DEF LeaseExpires, Fault, TypeOK
  <2>. QED BY <1>7, <2>1 DEF LeaseExpires, TypeOK
<1>8. ASSUME NEW e \in PostEvents, PersistPost(e) PROVE TypeOK'
  BY <1>8 DEF PersistPost, TypeOK, rowVars, Events
<1>9. CASE UNCHANGED vars
  BY <1>9 DEF vars, rowVars, TypeOK
<1>. QED BY <1>1, <1>2, <1>3, <1>4, <1>5, <1>6, <1>7, <1>8, <1>9 DEF Next

(* Every reachable state is well typed; in particular only unprocessed     *)
(* events are leased or due, and every dead letter was processed.          *)
THEOREM TypeCorrect == Spec => []TypeOK
<1>1. Init => TypeOK
  BY ConstantsAssumption, IdleType DEF Init, TypeOK
<1>. QED BY <1>1, NextTypeOK, PTL DEF Spec

-----------------------------------------------------------------------------
(* Effects.                                                                *)

(* The three ways in which a step can touch what was stored, processed,    *)
(* given up or performed.                                                  *)
Effected(e) ==
    /\ e \in stored \ processed
    /\ effects' = [effects EXCEPT ![e] = @ + 1]
    /\ stored' = StoredAfter(e)
    /\ processed' = processed \cup {e} /\ dead' = dead

GivenUp(e) ==
    /\ e \in stored \ processed
    /\ processed' = processed \cup {e} /\ dead' = dead \cup {e}
    /\ UNCHANGED <<stored, effects>>

Stored(e) ==
    /\ e \in PostEvents \ stored
    /\ stored' = stored \cup {e}
    /\ UNCHANGED <<processed, dead, effects>>

LEMMA Steps ==
    ASSUME TypeOK, [Next]_vars
    PROVE  \/ UNCHANGED <<stored, processed, dead, effects>>
           \/ \E e \in Events : Effected(e) \/ GivenUp(e) \/ Stored(e)
<1>. DEFINE Quiet == UNCHANGED <<stored, processed, dead, effects>>
<1>0. ASSUME NEW w \in Workers, NEW e \in Events, OwnsOpenRow(w, e)
      PROVE  e \in stored \ processed
  BY <1>0, ConstantsAssumption DEF OwnsOpenRow, TypeOK
<1>1. ASSUME NEW w \in Workers, NEW e \in Events, CommitEffect(w, e)
      PROVE  Quiet \/ Effected(e)
  <2>1. CASE OwnsOpenRow(w, e)
    BY <1>0, <1>1, <2>1 DEF CommitEffect, MarkProcessed, Effected
  <2>2. CASE ~OwnsOpenRow(w, e)
    BY <1>1, <2>2 DEF CommitEffect
  <2>. QED BY <2>1, <2>2
<1>2. ASSUME NEW w \in Workers, NEW e \in Events, CommitFailure(w, e)
      PROVE  Quiet \/ GivenUp(e)
  <2>1. CASE OwnsOpenRow(w, e)
    BY <1>0, <1>2, <2>1 DEF CommitFailure, MarkProcessed, GivenUp
  <2>2. CASE ~OwnsOpenRow(w, e)
    BY <1>2, <2>2 DEF CommitFailure
  <2>. QED BY <2>1, <2>2
<1>3. ASSUME NEW e \in PostEvents, PersistPost(e) PROVE e \in Events /\ Stored(e)
  BY <1>3 DEF PersistPost, Stored, Events
<1>4. ASSUME NEW w \in Workers, NEW e \in Events,
             BeginEffect(w, e) \/ WorkFails(w, e) \/ BeginFailure(w, e) \/ Defer(w, e)
               \/ ReviewUnavailable(w, e) \/ TransactionFails(w, e)
      PROVE  Quiet
  BY <1>4 DEF BeginEffect, WorkFails, BeginFailure, Defer, ReviewUnavailable, TransactionFails
<1>5. ASSUME NEW w \in Workers, ClaimEvents(w) \/ Crash(w) PROVE Quiet
  BY <1>5 DEF ClaimEvents, Crash
<1>6. ASSUME NEW e \in Events, BecomesDue(e) \/ LeaseExpires(e) PROVE Quiet
  BY <1>6 DEF BecomesDue, LeaseExpires
<1>7. CASE UNCHANGED vars
  BY <1>7 DEF vars
<1>. HIDE DEF Quiet
<1>8. Quiet \/ \E e \in Events : Effected(e) \/ GivenUp(e) \/ Stored(e)
  BY <1>1, <1>2, <1>3, <1>4, <1>5, <1>6, <1>7 DEF Next, TaskStep, Quiet
<1>. QED BY <1>8 DEF Quiet

(* An event has its effect once or becomes a dead letter, never both.      *)
THEOREM EffectsAreExactlyOnce == Spec => []ExactlyOnce
<1>1. Init => ExactlyOnce
  BY DEF Init, ExactlyOnce
<1>2. ASSUME TypeOK, ExactlyOnce, [Next]_vars PROVE ExactlyOnce'
  <2>1. CASE UNCHANGED <<stored, processed, dead, effects>>
    BY <1>2, <2>1 DEF ExactlyOnce
  <2>2. ASSUME NEW e \in Events, Effected(e) PROVE ExactlyOnce'
    <3>1. effects[e] = 0 /\ e \notin dead
      BY <1>2, <2>2 DEF Effected, ExactlyOnce, TypeOK
    <3>2. \A y \in Events : effects'[y] = IF y = e THEN 1 ELSE effects[y]
      BY <1>2, <2>2, <3>1 DEF Effected, TypeOK
    <3>. QED BY <1>2, <2>2, <3>1, <3>2 DEF Effected, ExactlyOnce
  <2>3. ASSUME NEW e \in Events, GivenUp(e) PROVE ExactlyOnce'
    BY <1>2, <2>3 DEF GivenUp, ExactlyOnce
  <2>4. ASSUME NEW e \in Events, Stored(e) PROVE ExactlyOnce'
    BY <1>2, <2>4 DEF Stored, ExactlyOnce
  <2>. QED BY <1>2, <2>1, <2>2, <2>3, <2>4, Steps
<1>. QED BY <1>1, <1>2, TypeCorrect, PTL DEF Spec

(* A stored classification and its completion event come together.         *)
THEOREM CompletionsAreStored == Spec => []CompletionStored
<1>1. Init => CompletionStored
  BY DEF Init, CompletionStored, Events
<1>2. ASSUME TypeOK, CompletionStored, [Next]_vars PROVE CompletionStored'
  <2>1. CASE UNCHANGED <<stored, processed, dead, effects>>
    BY <1>2, <2>1 DEF CompletionStored
  <2>2. ASSUME NEW e \in Events, Effected(e) PROVE CompletionStored'
    <3>1. \A y \in Events : effects'[y] = IF y = e THEN effects[y] + 1 ELSE effects[y]
      BY <1>2, <2>2 DEF Effected, TypeOK
    <3>2. \A y \in PostEvents : effects'[y] > 0 <=> effects[y] > 0 \/ y = e
      BY <1>2, <3>1 DEF TypeOK, Events
    <3>3. \A k \in CompletedEvents :
             k \in stored' <=> k \in stored \/ (e \in PostEvents /\ k = CompletionOf[e])
      BY <2>2 DEF Effected, StoredAfter
    <3>. QED BY <1>2, <3>2, <3>3 DEF CompletionStored
  <2>3. ASSUME NEW e \in Events, GivenUp(e) PROVE CompletionStored'
    BY <1>2, <2>3 DEF GivenUp, CompletionStored
  <2>4. ASSUME NEW e \in Events, Stored(e) PROVE CompletionStored'
    BY <1>2, <2>4, ConstantsAssumption DEF Stored, CompletionStored
  <2>. QED BY <1>2, <2>1, <2>2, <2>3, <2>4, Steps
<1>. QED BY <1>1, <1>2, TypeCorrect, PTL DEF Spec

-----------------------------------------------------------------------------
(* Claims and ends.                                                        *)

(* What a claim does to an event, and what any other step may do to its    *)
(* row and to the tasks on it.                                             *)
Claimed(w, e) ==
    /\ attempts'[e] = attempts[e] + 1
    /\ leaseOwner'[e] = OwnerOf[w]
    /\ task'[w][e].attempt = attempts'[e]
    /\ \A v \in Workers \ {w} : task'[v][e] = task[v][e]

OnlyEnds(e) ==
    /\ attempts'[e] = attempts[e]
    /\ leaseOwner'[e] \in {leaseOwner[e], NoOwner}
    /\ \A v \in Workers :
          Busy(v, e)' => Busy(v, e) /\ task'[v][e].attempt = task[v][e].attempt

LEMMA TaskMoves ==
    ASSUME TypeOK, NEW w \in Workers, NEW d \in Events,
           SetTask(w, d, Idle) \/ \E phase \in {"commit", "failing", "release", "deferring"} :
                                    Busy(w, d) /\ Enter(w, d, phase)
    PROVE  \A v \in Workers, e \in Events :
             Busy(v, e)' => Busy(v, e) /\ task'[v][e].attempt = task[v][e].attempt
<1>. SUFFICES ASSUME NEW v \in Workers, NEW e \in Events, Busy(v, e)'
              PROVE  Busy(v, e) /\ task'[v][e].attempt = task[v][e].attempt
  OBVIOUS
<1>1. CASE v = w /\ e = d
  <2>1. CASE SetTask(w, d, Idle)
    BY <1>1, <2>1 DEF SetTask, TypeOK, Busy, Idle
  <2>2. ASSUME NEW phase, Busy(w, d), Enter(w, d, phase)
        PROVE  Busy(v, e) /\ task'[v][e].attempt = task[v][e].attempt
    <3>1. task'[w][d] = [phase |-> phase, attempt |-> task[w][d].attempt]
      BY <2>2 DEF Enter, SetTask, TypeOK
    <3>. QED BY <1>1, <2>2, <3>1
  <2>. QED BY <2>1, <2>2
<1>2. CASE v # w \/ e # d
  <2>1. task'[v][e] = task[v][e]
    BY <1>2 DEF Enter, SetTask, TypeOK
  <2>. QED BY <2>1 DEF Busy
<1>. QED BY <1>1, <1>2

LEMMA EventMoves ==
    ASSUME TypeOK, [Next]_vars, NEW e \in Events
    PROVE  OnlyEnds(e) \/ \E w \in Workers : Claimed(w, e)
<1>1. ASSUME NEW w \in Workers, NEW d \in Events,
             TaskStep(w, d) \/ ReviewUnavailable(w, d) \/ TransactionFails(w, d)
      PROVE  OnlyEnds(e)
  <2>1. SetTask(w, d, Idle) \/ \E phase \in {"commit", "failing", "release", "deferring"} :
                                  Busy(w, d) /\ Enter(w, d, phase)
    BY <1>1 DEF TaskStep, BeginEffect, WorkFails, CommitEffect, BeginFailure, CommitFailure,
       Defer, ReviewUnavailable, TransactionFails, Busy
  <2>2. attempts' = attempts /\ (leaseOwner' = leaseOwner \/ ReleaseLease(d))
    BY <1>1 DEF TaskStep, BeginEffect, WorkFails, CommitEffect, BeginFailure, CommitFailure,
       Defer, ReviewUnavailable, TransactionFails, MarkProcessed, rowVars
  <2>3. leaseOwner'[e] \in {leaseOwner[e], NoOwner}
    BY <2>2 DEF ReleaseLease, TypeOK
  <2>. QED BY <2>1, <2>2, <2>3, TaskMoves DEF OnlyEnds
<1>2. ASSUME NEW w \in Workers, Crash(w) PROVE OnlyEnds(e)
  <2>1. \A v \in Workers : task'[v][e] = IF v = w THEN Idle ELSE task[v][e]
    BY <1>2 DEF Crash, TypeOK
  <2>. QED BY <1>2, <2>1 DEF Crash, OnlyEnds, rowVars, Busy, Idle
<1>3. ASSUME NEW w \in Workers, ClaimEvents(w) PROVE OnlyEnds(e) \/ Claimed(w, e)
  <2>1. PICK B :
          /\ attempts' = [y \in Events |-> IF y \in B THEN attempts[y] + 1 ELSE attempts[y]]
          /\ leaseOwner' = [y \in Events |-> IF y \in B THEN OwnerOf[w] ELSE leaseOwner[y]]
          /\ task' = [task EXCEPT ![w] = [y \in Events |->
                         IF y \in B THEN [phase |-> "work", attempt |-> attempts'[y]] ELSE Idle]]
    BY <1>3 DEF ClaimEvents
  <2>2. /\ \A v \in Workers \ {w} : task'[v][e] = task[v][e]
        /\ task'[w][e] = IF e \in B THEN [phase |-> "work", attempt |-> attempts'[e]] ELSE Idle
    BY <2>1 DEF TypeOK
  <2>3. CASE e \in B
    BY <2>1, <2>2, <2>3 DEF Claimed
  <2>4. CASE e \notin B
    <3>1. attempts'[e] = attempts[e] /\ leaseOwner'[e] = leaseOwner[e]
      BY <2>1, <2>4
    <3>. QED BY <2>2, <2>4, <3>1 DEF OnlyEnds, Busy, Idle
  <2>. QED BY <2>3, <2>4
<1>4. CASE UNCHANGED <<attempts, leaseOwner, task>>
  BY <1>4 DEF OnlyEnds, Busy
<1>5. ASSUME NEW d \in Events, BecomesDue(d) \/ LeaseExpires(d)
      PROVE  UNCHANGED <<attempts, leaseOwner, task>>
  BY <1>5 DEF BecomesDue, LeaseExpires
<1>6. ASSUME NEW d \in PostEvents, PersistPost(d) PROVE UNCHANGED <<attempts, leaseOwner, task>>
  BY <1>6 DEF PersistPost, rowVars
<1>. QED BY <1>1, <1>2, <1>3, <1>4, <1>5, <1>6 DEF Next, vars, rowVars

(* Who ends an event: a task that owns its row, with its last attempt if   *)
(* it leaves a dead letter.                                                *)
Ends(w, e) ==
    /\ Busy(w, e) /\ ~Busy(w, e)'
    /\ leaseOwner[e] = OwnerOf[w]
    /\ attempts' = attempts
    /\ processed' = processed \cup {e}
    /\ \/ dead' = dead
       \/ dead' = dead \cup {e} /\ Exhausted(w, e)

LEMMA EndMoves ==
    ASSUME TypeOK, [Next]_vars
    PROVE  \/ UNCHANGED <<processed, dead>>
           \/ \E w \in Workers, e \in Events : Ends(w, e)
<1>. DEFINE Quiet == UNCHANGED <<processed, dead>>
<1>0. ASSUME NEW w \in Workers, NEW e \in Events, SetTask(w, e, Idle) PROVE ~Busy(w, e)'
  BY <1>0 DEF SetTask, Busy, Idle, TypeOK
<1>1. ASSUME NEW w \in Workers, NEW e \in Events, CommitEffect(w, e) PROVE Quiet \/ Ends(w, e)
  BY <1>0, <1>1 DEF CommitEffect, OwnsOpenRow, MarkProcessed, Busy, Ends
<1>2. ASSUME NEW w \in Workers, NEW e \in Events, CommitFailure(w, e) PROVE Quiet \/ Ends(w, e)
  BY <1>0, <1>2 DEF CommitFailure, OwnsOpenRow, MarkProcessed, Busy, Ends
<1>3. ASSUME NEW w \in Workers, NEW e \in Events,
             BeginEffect(w, e) \/ WorkFails(w, e) \/ BeginFailure(w, e) \/ Defer(w, e)
               \/ ReviewUnavailable(w, e) \/ TransactionFails(w, e)
      PROVE  Quiet
  BY <1>3 DEF BeginEffect, WorkFails, BeginFailure, Defer, ReviewUnavailable, TransactionFails
<1>4. ASSUME NEW w \in Workers, ClaimEvents(w) \/ Crash(w) PROVE Quiet
  BY <1>4 DEF ClaimEvents, Crash
<1>5. ASSUME NEW e \in Events, BecomesDue(e) \/ LeaseExpires(e) PROVE Quiet
  BY <1>5 DEF BecomesDue, LeaseExpires
<1>6. ASSUME NEW e \in PostEvents, PersistPost(e) PROVE Quiet
  BY <1>6 DEF PersistPost
<1>7. CASE UNCHANGED vars
  BY <1>7 DEF vars
<1>. HIDE DEF Quiet
<1>8. Quiet \/ \E w \in Workers, e \in Events : Ends(w, e)
  <2>1. ASSUME NEW w \in Workers, NEW e \in Events,
               TaskStep(w, e) \/ ReviewUnavailable(w, e) \/ TransactionFails(w, e)
        PROVE  Quiet \/ Ends(w, e)
    BY <1>1, <1>2, <1>3, <2>1 DEF TaskStep
  <2>. QED BY <1>4, <1>5, <1>6, <1>7, <2>1 DEF Next, Quiet
<1>. QED BY <1>8 DEF Quiet

(* A task is never ahead of its row: overlapping claims only add attempts. *)
AttemptsInv == \A w \in Workers, e \in Events : Busy(w, e) => task[w][e].attempt <= attempts[e]

(* A dead letter has had all its attempts, also if the owner strings of    *)
(* two workers are equal and one reports the failure of the other's claim. *)
THEOREM DeadLettersAreExhausted == Spec => []GivenUpLate
<1>1. Init => AttemptsInv /\ GivenUpLate
  BY DEF Init, AttemptsInv, GivenUpLate, Busy, Idle
<1>2. ASSUME TypeOK, TypeOK', AttemptsInv, GivenUpLate, [Next]_vars
      PROVE  AttemptsInv' /\ GivenUpLate'
  <2>1. \A e \in Events : attempts'[e] >= attempts[e]
    <3>. SUFFICES ASSUME NEW e \in Events PROVE attempts'[e] >= attempts[e]
      OBVIOUS
    <3>1. attempts[e] \in Nat /\ attempts'[e] \in {attempts[e], attempts[e] + 1}
      BY <1>2, EventMoves DEF OnlyEnds, Claimed, TypeOK
    <3>. QED BY <3>1
  <2>2. ASSUME NEW v \in Workers, NEW e \in Events, Busy(v, e)'
        PROVE  task'[v][e].attempt <= attempts'[e]
    <3>1. attempts'[e] \in Nat /\ attempts[e] \in Nat /\ task[v][e].attempt \in Nat
      BY <1>2 DEF TypeOK, Task
    <3>2. CASE OnlyEnds(e)
      BY <1>2, <2>2, <3>1, <3>2 DEF OnlyEnds, AttemptsInv
    <3>3. ASSUME NEW w \in Workers, Claimed(w, e) PROVE task'[v][e].attempt <= attempts'[e]
      <4>1. CASE v = w
        BY <3>1, <3>3, <4>1 DEF Claimed
      <4>2. CASE v # w
        BY <1>2, <2>2, <3>1, <3>3, <4>2 DEF Claimed, AttemptsInv, Busy
      <4>. QED BY <4>1, <4>2
    <3>. QED BY <1>2, <3>2, <3>3, EventMoves
  <2>3. GivenUpLate'
    <3>1. CASE UNCHANGED <<processed, dead>>
      BY <1>2, <2>1, <3>1, ConstantsAssumption DEF GivenUpLate, TypeOK
    <3>2. ASSUME NEW w \in Workers, NEW e \in Events, Ends(w, e) PROVE GivenUpLate'
      <4>1. Exhausted(w, e) => attempts[e] >= MaxAttempts
        BY <1>2, <3>2, ConstantsAssumption DEF Ends, Exhausted, AttemptsInv, TypeOK, Task
      <4>. QED BY <1>2, <3>2, <4>1 DEF Ends, GivenUpLate
    <3>. QED BY <1>2, <3>1, <3>2, EndMoves
  <2>. QED BY <2>2, <2>3 DEF AttemptsInv
<1>. QED BY <1>1, <1>2, TypeCorrect, PTL DEF Spec

(* What the process ids give: no two live workers write the same owner.    *)
DistinctOwners == \A v, w \in Workers : OwnerOf[v] = OwnerOf[w] => v = w

(* A task whose owner string is on the row works for the row's last claim. *)
Fenced == \A w \in Workers, e \in Events :
             Busy(w, e) /\ leaseOwner[e] = OwnerOf[w] => task[w][e].attempt = attempts[e]

(* With distinct owner strings an event ends only by its latest claim.     *)
THEOREM EndsAreFenced == ASSUME DistinctOwners PROVE Spec => FencedEnds
<1>1. Init => Fenced
  BY DEF Init, Fenced, Busy, Idle
<1>2. ASSUME TypeOK, Fenced, [Next]_vars PROVE Fenced'
  <2>. SUFFICES ASSUME NEW v \in Workers, NEW e \in Events, Busy(v, e)',
                       leaseOwner'[e] = OwnerOf[v]
                PROVE  task'[v][e].attempt = attempts'[e]
    BY DEF Fenced
  <2>1. CASE OnlyEnds(e)
    BY <1>2, <2>1, ConstantsAssumption DEF OnlyEnds, Fenced
  <2>2. ASSUME NEW w \in Workers, Claimed(w, e) PROVE task'[v][e].attempt = attempts'[e]
    BY <2>2, DistinctOwners DEF Claimed, DistinctOwners
  <2>. QED BY <1>2, <2>1, <2>2, EventMoves
<1>3. ASSUME TypeOK, Fenced, [Next]_vars
      PROVE  [\A e \in processed' \ processed :
                \E w \in Workers : /\ Busy(w, e) /\ ~Busy(w, e)'
                                   /\ task[w][e].attempt = attempts[e]]_vars
  BY <1>3, EndMoves DEF Ends, Fenced
<1>4. (TypeOK /\ Fenced /\ [Next]_vars) => Fenced'
  BY <1>2
<1>. QED BY <1>1, <1>3, <1>4, TypeCorrect, PTL DEF Spec, FencedEnds

-----------------------------------------------------------------------------
(* Each step of the outbox is a step of EffectOnce or changes nothing that *)
(* EffectOnce sees.                                                        *)
THEOREM OutboxKeepsPromise == Spec => ImplementsPromise
<1>. DEFINE at(e) == CASE e \in dead               -> "dead"
                       [] e \in processed \ dead   -> "done"
                       [] e \in stored \ processed -> "open"
                       [] OTHER                    -> "absent"
            states == [e \in Events |-> at(e)]
<1>0. Promise!Jobs = Events
  BY DEF Promise!Jobs, Events
<1>1. Init => Promise!Init
  BY <1>0 DEF Init, Promise!Init
<1>2. ASSUME TypeOK, [Next]_vars PROVE [Promise!Next]_<<states, effects>>
  <2>1. CASE UNCHANGED <<stored, processed, dead, effects>>
    BY <2>1
  <2>2. ASSUME NEW e \in Events, Stored(e) PROVE Promise!Create(e)
    <3>1. e \notin processed /\ e \notin dead
      BY <1>2, <2>2 DEF Stored, TypeOK
    <3>2. at(e) = "absent" /\ at(e)' = "open" /\ \A y \in Events \ {e} : at(y)' = at(y)
      BY <1>2, <2>2, <3>1 DEF Stored
    <3>3. states' = [states EXCEPT ![e] = "open"]
      <4>. HIDE DEF at
      <4>. QED BY <3>2
    <3>4. states[e] = "absent"
      BY <3>2
    <3>5. e \in PostEvents /\ UNCHANGED effects
      BY <2>2 DEF Stored
    <3>. QED BY <3>3, <3>4, <3>5 DEF Promise!Create
  <2>3. ASSUME NEW e \in Events, GivenUp(e) PROVE Promise!GiveUp(e)
    <3>1. at(e) = "open" /\ at(e)' = "dead" /\ \A y \in Events \ {e} : at(y)' = at(y)
      BY <1>2, <2>3 DEF GivenUp, TypeOK
    <3>2. states' = [states EXCEPT ![e] = "dead"]
      <4>. HIDE DEF at
      <4>. QED BY <3>1
    <3>3. states[e] = "open"
      BY <3>1
    <3>4. UNCHANGED effects
      BY <2>3 DEF GivenUp
    <3>. QED BY <3>2, <3>3, <3>4 DEF Promise!GiveUp
  <2>4. ASSUME NEW e \in Events, Effected(e) PROVE Promise!Perform(e)
    <3>1. at(e) = "open" /\ at(e)' = "done"
      BY <1>2, <2>4 DEF Effected, TypeOK
    <3>2. \A k \in Events : Promise!Follows(e, k) <=>
             e \in PostEvents /\ k = CompletionOf[e] /\ k \notin stored
      BY <1>2 DEF Promise!Follows, TypeOK
    <3>3. \A k \in Events \ {e} :
             at(k)' = IF e \in PostEvents /\ k = CompletionOf[e] /\ k \notin stored
                      THEN "open" ELSE at(k)
      BY <1>2, <2>4 DEF Effected, StoredAfter, TypeOK
    <3>4. states' = [k \in Events |-> IF k = e THEN "done"
                                      ELSE IF Promise!Follows(e, k) THEN "open" ELSE states[k]]
      <4>. HIDE DEF at
      <4>. QED BY <3>1, <3>2, <3>3
    <3>5. states[e] = "open"
      BY <3>1
    <3>6. effects' = [effects EXCEPT ![e] = @ + 1]
      BY <2>4 DEF Effected
    <3>. QED BY <1>0, <3>4, <3>5, <3>6 DEF Promise!Perform
  <2>. HIDE DEF states
  <2>. QED BY <1>0, <1>2, <2>1, <2>2, <2>3, <2>4, Steps DEF Promise!Next
<1>. QED BY <1>1, <1>2, TypeCorrect, PTL DEF Spec, ImplementsPromise, Promise!Spec
=============================================================================
