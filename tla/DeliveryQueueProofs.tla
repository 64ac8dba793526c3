------------------------- MODULE DeliveryQueueProofs -------------------------
(***************************************************************************)
(* Proofs about DeliveryQueue, for every set of rows, subscribers,         *)
(* campaigns and workers and every bound.                                  *)
(***************************************************************************)
EXTENDS DeliveryQueue, FiniteSetTheorems, NaturalsInduction, WellFoundedInduction, TLAPS

(* What the UPDATE at the end of a delivery's transaction leaves typed.    *)
RowTypeOK ==
    /\ status \in [Deliveries -> {"pending", "sending", "retry", "sent", "failed"}]
    /\ attempts \in [Deliveries -> Nat]
    /\ lease \in [Deliveries -> {"none", "live", "expired"}]
    /\ leaseOwner \in [Deliveries -> Owners \cup {NoOwner}]
    /\ \A d \in Deliveries : /\ lease[d] = "none" <=> leaseOwner[d] = NoOwner
                             /\ lease[d] = "none" <=> status[d] # "sending"
    /\ due \in SUBSET Deliveries
    /\ older \in [Deliveries -> SUBSET Deliveries]

LEMMA UpdateRowType ==
    ASSUME TypeOK, NEW w \in Workers, NEW d \in Deliveries,
           NEW newStatus \in {"retry", "sent", "failed"},
           UpdateRow(w, d, newStatus)
    PROVE  RowTypeOK'
<1>1. CASE OwnsRow(w, d)
  <2>1. /\ status' = [status EXCEPT ![d] = newStatus]
        /\ lease' = [lease EXCEPT ![d] = "none"]
        /\ leaseOwner' = [leaseOwner EXCEPT ![d] = NoOwner]
        /\ due' = due \ {d}
        /\ older' = [e \in Deliveries |-> IF e = d THEN {} ELSE older[e] \ {d}]
        /\ attempts' = attempts
    BY <1>1 DEF UpdateRow, ReleaseLease, Leave, TypeOK
  <2>2. older' \in [Deliveries -> SUBSET Deliveries]
    BY <2>1 DEF TypeOK
  <2>. QED BY <2>1, <2>2 DEF TypeOK, RowTypeOK
<1>2. CASE ~OwnsRow(w, d)
  BY <1>2 DEF UpdateRow, TypeOK, RowTypeOK, rowVars
<1>. QED BY <1>1, <1>2

(* Writing a task leaves the tasks typed.                                  *)
LEMMA SetTaskType ==
    ASSUME TypeOK, NEW w \in Workers, NEW d \in Deliveries, NEW t \in Task,
           SetTask(w, d, t)
    PROVE  task' \in [Workers -> [Deliveries -> Task]]
  BY DEF SetTask, TypeOK

LEMMA AdvancedType ==
    ASSUME NEW t \in Task, NEW phase \in {"send", "persist", "update"},
           NEW result \in Results \cup {"none"}
    PROVE  Advanced(t, phase, result) \in Task
  BY DEF Advanced, Task

LEMMA IdleType == Idle \in Task
  BY DEF Idle, Task, Results

(* Each outcome's transaction records the attempt and updates the row.     *)
LEMMA UpdateShape ==
    ASSUME NEW w \in Workers, NEW d \in Deliveries, Update(w, d)
    PROVE  \E outcome \in LedgerOutcomes, newStatus \in {"retry", "sent", "failed"},
              results \in SUBSET Results :
                /\ Updating(w, d, results)
                /\ RecordAttempt(w, d, outcome)
                /\ UpdateRow(w, d, newStatus)
<1>. USE DEF LedgerOutcomes, Results, DeliveredResults
<1>1. CASE CompleteDelivery(w, d)
  <2>. WITNESS "sent" \in LedgerOutcomes, "sent" \in {"retry", "sent", "failed"},
               DeliveredResults \in SUBSET Results
  <2>. QED BY <1>1 DEF CompleteDelivery
<1>2. CASE RetryDelivery(w, d)
  <2>. WITNESS "retry" \in LedgerOutcomes, "retry" \in {"retry", "sent", "failed"},
               {"throttled", "transient", "unauthorized"} \in SUBSET Results
  <2>. QED BY <1>2 DEF RetryDelivery
<1>3. CASE FailDelivery(w, d)
  <2>. WITNESS "failed" \in LedgerOutcomes, "failed" \in {"retry", "sent", "failed"},
               {"throttled", "transient", "rejected", "unreachable"} \in SUBSET Results
  <2>. QED BY <1>3 DEF FailDelivery
<1>4. CASE MigrateDeliveryChat(w, d)
  <2>. WITNESS "chat_migrated" \in LedgerOutcomes, "retry" \in {"retry", "sent", "failed"},
               {"migrated"} \in SUBSET Results
  <2>. QED BY <1>4 DEF MigrateDeliveryChat
<1>. QED BY <1>1, <1>2, <1>3, <1>4 DEF Update

(* The next state is always well typed.                                    *)
LEMMA NextTypeOK == ASSUME TypeOK, [Next]_vars PROVE TypeOK'
<1>. USE ConstantsAssumption
<1>0. Idle \in Task
  BY DEF Idle, Task, Results
<1>1. ASSUME NEW w \in Workers, ClaimDeliveries(w) PROVE TypeOK'
  <2>1. PICK B \in Batches :
          /\ status' = [d \in Deliveries |-> IF d \in B THEN "sending" ELSE status[d]]
          /\ attempts' = [d \in Deliveries |-> IF d \in B THEN NextAttempt(d) ELSE attempts[d]]
          /\ lease' = [d \in Deliveries |-> IF d \in B THEN "live" ELSE lease[d]]
          /\ leaseOwner' = [d \in Deliveries |-> IF d \in B THEN OwnerOf[w] ELSE leaseOwner[d]]
          /\ task' = [task EXCEPT ![w] = [d \in Deliveries |->
                       IF d \in B
                       THEN [phase |-> "send", attempt |-> attempts'[d],
                             upload |-> media[CampaignOf[d]] = "file", result |-> "none"]
                       ELSE Idle]]
    BY <1>1 DEF ClaimDeliveries
  <2>2. attempts' \in [Deliveries -> Nat]
    BY <2>1 DEF TypeOK, NextAttempt
  <2>3. \A d \in Deliveries : (media[CampaignOf[d]] = "file") \in BOOLEAN
    OBVIOUS
  <2>4. [d \in Deliveries |->
           IF d \in B
           THEN [phase |-> "send", attempt |-> attempts'[d],
                 upload |-> media[CampaignOf[d]] = "file", result |-> "none"]
           ELSE Idle] \in [Deliveries -> Task]
    BY <2>2, <1>0 DEF Task
  <2>5. task' \in [Workers -> [Deliveries -> Task]]
    BY <2>1, <2>4 DEF TypeOK
  <2>. QED
    BY <1>1, <2>1, <2>2, <2>5 DEF TypeOK, ClaimDeliveries
<1>2. ASSUME NEW w \in Workers, Crash(w) PROVE TypeOK'
  BY <1>0, <1>2 DEF Crash, Fault, TypeOK, rowVars
<1>3. ASSUME NEW w \in Workers, NEW d \in Deliveries, Answer(w, d) PROVE TypeOK'
  <2>0. \A r \in Results : Answered(w, d, r) => task' \in [Workers -> [Deliveries -> Task]]
    <3>. SUFFICES ASSUME NEW r \in Results, Answered(w, d, r)
                  PROVE  task' \in [Workers -> [Deliveries -> Task]]
      OBVIOUS
    <3>1. Advanced(task[w][d], "persist", r) \in Task
      BY AdvancedType DEF TypeOK
    <3>. QED BY <3>1, SetTaskType DEF Answered
  <2>1. CASE DownloadFails(w, d)
    BY <2>0, <2>1 DEF MayLackFile, DownloadFails, Fault, TypeOK, rowVars, Results
  <2>2. CASE DropAttachment(w, d)
    <3>1. media' \in [Campaigns -> {"text", "file", "uploaded"}]
      BY <2>2 DEF MayLackFile, DropAttachment, TypeOK, WithoutFile
    <3>2. task' \in [Workers -> [Deliveries -> Task]]
      <4>1. [phase |-> "send", attempt |-> task[w][d].attempt,
             upload |-> FALSE, result |-> "none"] \in Task
        BY DEF TypeOK, Task
      <4>. QED BY <2>2, <4>1, SetTaskType DEF MayLackFile, DropAttachment
    <3>. QED BY <2>2, <3>1, <3>2 DEF MayLackFile, DropAttachment, TypeOK, rowVars
  <2>3. CASE TelegramAccepts(w, d)
    <3>1. task' \in [Workers -> [Deliveries -> Task]]
      BY <2>0, <2>3 DEF TelegramAccepts, Results
    <3>2. accepted' \in [Deliveries -> SUBSET Nat]
      BY <2>3 DEF TelegramAccepts, TypeOK, Task
    <3>. QED BY <2>3, <3>1, <3>2 DEF TelegramAccepts, TypeOK, rowVars
  <2>4. CASE TelegramRefuses(w, d)
    <3>1. task' \in [Workers -> [Deliveries -> Task]]
      BY <2>0, <2>4 DEF TelegramRefuses, Results
    <3>2. faults' \in Nat
      BY <2>4 DEF TelegramRefuses, Fault, TypeOK
    <3>. QED BY <2>4, <3>1, <3>2 DEF TelegramRefuses, TypeOK, rowVars
  <2>. QED BY <1>3, <2>1, <2>2, <2>3, <2>4 DEF Answer
<1>4. ASSUME NEW w \in Workers, NEW d \in Deliveries, EnsureDeliveryLease(w, d) PROVE TypeOK'
  <2>1. Advanced(task[w][d], "update", task[w][d].result) \in Task
    BY AdvancedType DEF TypeOK, Task
  <2>2. task' \in [Workers -> [Deliveries -> Task]]
    BY <1>0, <1>4, <2>1, SetTaskType DEF EnsureDeliveryLease
  <2>. QED BY <1>4, <2>2 DEF EnsureDeliveryLease, TypeOK, rowVars
<1>5. ASSUME NEW w \in Workers, NEW d \in Deliveries, Update(w, d) PROVE TypeOK'
  <2>1. PICK outcome \in LedgerOutcomes, newStatus \in {"retry", "sent", "failed"},
             results \in SUBSET Results :
          /\ Updating(w, d, results)
          /\ RecordAttempt(w, d, outcome)
          /\ UpdateRow(w, d, newStatus)
    BY <1>5, UpdateShape
  <2>2. RowTypeOK'
    BY <2>1, UpdateRowType
  <2>3. task' \in [Workers -> [Deliveries -> Task]]
    BY <1>0, <2>1, SetTaskType DEF Updating
  <2>4. ledger' \in SUBSET (Deliveries \X Nat \X LedgerOutcomes)
    <3>1. task[w][d].attempt \in Nat
      BY DEF TypeOK, Task
    <3>. QED BY <2>1, <3>1 DEF RecordAttempt, TypeOK
  <2>5. accepted' = accepted /\ faults' = faults
    BY <2>1 DEF Updating
  <2>6. /\ reach' \in [Subscribers -> {"active", "user_stop", "deactivated"}]
        /\ throttled' \in SUBSET Subscribers
        /\ media' \in [Campaigns -> {"text", "file", "uploaded"}]
    <3>1. SubscriberOf[d] \in Subscribers /\ CampaignOf[d] \in Campaigns
      OBVIOUS
    <3>2. CASE CompleteDelivery(w, d)
      BY <3>1, <3>2 DEF CompleteDelivery, TypeOK, Throttle
    <3>3. CASE RetryDelivery(w, d)
      BY <3>1, <3>3 DEF RetryDelivery, TypeOK, Throttle
    <3>4. CASE FailDelivery(w, d)
      BY <3>1, <3>4 DEF FailDelivery, TypeOK, Throttle
    <3>5. CASE MigrateDeliveryChat(w, d)
      BY <3>5 DEF MigrateDeliveryChat, TypeOK
    <3>. QED BY <1>5, <3>2, <3>3, <3>4, <3>5 DEF Update
  <2>. QED BY <2>2, <2>3, <2>4, <2>5, <2>6 DEF TypeOK, RowTypeOK
<1>6. ASSUME NEW w \in Workers, NEW d \in Deliveries, PersistenceFails(w, d) PROVE TypeOK'
  <2>1. task' \in [Workers -> [Deliveries -> Task]]
    BY <1>0, <1>6, SetTaskType DEF PersistenceFails
  <2>. QED BY <1>6, <2>1 DEF PersistenceFails, Fault, TypeOK, rowVars
<1>7. ASSUME NEW d \in Deliveries, BecomesDue(d) \/ LeaseExpires(d) PROVE TypeOK'
  <2>1. CASE BecomesDue(d)
    BY <2>1 DEF BecomesDue, TypeOK, Arrive
  <2>2. CASE LeaseExpires(d)
    <3>1. faults' \in Nat
      BY <2>2 DEF LeaseExpires, Fault, TypeOK
    <3>. QED BY <2>2, <3>1 DEF LeaseExpires, TypeOK
  <2>. QED BY <1>7, <2>1, <2>2
<1>8. ASSUME NEW s \in Subscribers, ThrottleEnds(s) \/ UserStops(s) \/ UserStarts(s)
      PROVE  TypeOK'
  BY <1>8 DEF ThrottleEnds, UserStops, UserStarts, TypeOK, rowVars
<1>9. CASE UNCHANGED vars
  BY <1>9 DEF vars, rowVars, TypeOK
<1>. QED
  BY <1>1, <1>2, <1>3, <1>4, <1>5, <1>6, <1>7, <1>8, <1>9 DEF Next, TaskStep

(* Every reachable state is well typed; in particular the two lease        *)
(* columns are set exactly while a row is "sending".                       *)
THEOREM TypeCorrect == Spec => []TypeOK
<1>1. Init => TypeOK
  BY ConstantsAssumption, IdleType DEF Init, TypeOK
<1>. QED BY <1>1, NextTypeOK, PTL DEF Spec

-----------------------------------------------------------------------------
(* Tasks, the ledger and what Telegram took.                               *)

(* Every task works for a claim of its own, has not written its outcome    *)
(* yet, and reports "sent" only of a message Telegram took.                *)
TaskInv ==
    /\ \A w \in Workers, d \in Deliveries :
          /\ Busy(w, d) => task[w][d].attempt <= attempts[d]
          /\ Busy(w, d) => \A o \in LedgerOutcomes : <<d, task[w][d].attempt, o>> \notin ledger
          /\ task[w][d].result = "sent" => task[w][d].attempt \in accepted[d]
          /\ ~Busy(w, d) => task[w][d] = Idle
    /\ \A w, v \in Workers, d \in Deliveries :
          Busy(w, d) /\ Busy(v, d) /\ w # v => task[w][d].attempt # task[v][d].attempt

LedgerInv ==
    /\ \A r \in ledger : r[2] <= attempts[r[1]]
    /\ \A r, t \in ledger : r[1] = t[1] /\ r[2] = t[2] => r = t

(* What a step of one task does to the tasks, the ledger and the attempts. *)
TaskMove(w, d) ==
    /\ Busy(w, d)
    /\ attempts' = attempts
    /\ \A e \in Deliveries : accepted[e] \subseteq accepted'[e]
    /\ \E t \in Task :
        /\ SetTask(w, d, t)
        /\ \/ /\ t.phase # "idle" /\ t.attempt = task[w][d].attempt
              /\ t.upload => task[w][d].upload
              /\ t.result = "sent" => t.attempt \in accepted'[d]
              /\ ledger' = ledger
           \/ /\ t = Idle
              /\ \/ ledger' = ledger
                 \/ \E o \in LedgerOutcomes :
                      ledger' = ledger \cup {<<d, task[w][d].attempt, o>>}

LEMMA TaskMoves ==
    ASSUME TypeOK, TaskInv, NEW w \in Workers, NEW d \in Deliveries,
           TaskStep(w, d) \/ PersistenceFails(w, d)
    PROVE  TaskMove(w, d)
<1>. DEFINE old == task[w][d]
<1>0. old \in Task /\ Idle \in Task
  BY IdleType DEF TypeOK
<1>1. CASE Answer(w, d)
  <2>1. ASSUME NEW r \in Results, Answered(w, d, r), old.phase = "send",
               attempts' = attempts, ledger' = ledger,
               \A e \in Deliveries : accepted[e] \subseteq accepted'[e],
               r = "sent" => old.attempt \in accepted'[d]
        PROVE  TaskMove(w, d)
    <3>. DEFINE t == Advanced(old, "persist", r)
    <3>1. t \in Task /\ t.phase = "persist" /\ t.attempt = old.attempt
          /\ t.upload = old.upload /\ t.result = r
      BY <1>0, AdvancedType DEF Advanced
    <3>2. SetTask(w, d, t)
      BY <2>1 DEF Answered
    <3>. QED BY <2>1, <3>1, <3>2 DEF TaskMove, Busy
  <2>2. CASE DownloadFails(w, d)
    BY <2>1, <2>2 DEF MayLackFile, DownloadFails, rowVars, Results
  <2>3. CASE DropAttachment(w, d)
    <3>. DEFINE t == [phase |-> "send", attempt |-> old.attempt,
                      upload |-> FALSE, result |-> "none"]
    <3>1. t \in Task
      BY <1>0 DEF Task
    <3>. QED BY <2>3, <3>1 DEF MayLackFile, DropAttachment, TaskMove, Busy, rowVars
  <2>4. CASE TelegramAccepts(w, d)
    <3>1. /\ \A e \in Deliveries : accepted[e] \subseteq accepted'[e]
          /\ old.attempt \in accepted'[d]
      BY <2>4 DEF TelegramAccepts, TypeOK
    <3>. QED BY <2>1, <2>4, <3>1 DEF TelegramAccepts, rowVars, Results
  <2>5. CASE TelegramRefuses(w, d)
    BY <2>1, <2>5 DEF TelegramRefuses, rowVars, Results
  <2>. QED BY <1>1, <2>2, <2>3, <2>4, <2>5 DEF Answer
<1>2. CASE EnsureDeliveryLease(w, d)
  <2>. DEFINE t == Advanced(old, "update", old.result)
  <2>1. old.result = "sent" => old.attempt \in accepted[d]
    BY DEF TaskInv
  <2>2. t \in Task /\ t.phase = "update" /\ t.attempt = old.attempt
        /\ t.upload = old.upload /\ t.result = old.result
    BY <1>0, AdvancedType DEF Advanced, Task
  <2>3. attempts' = attempts /\ ledger' = ledger /\ accepted' = accepted /\ Busy(w, d)
    BY <1>2 DEF EnsureDeliveryLease, rowVars, Busy
  <2>4. SetTask(w, d, t) \/ SetTask(w, d, Idle)
    BY <1>2 DEF EnsureDeliveryLease
  <2>. QED BY <1>0, <2>1, <2>2, <2>3, <2>4 DEF TaskMove
<1>3. CASE Update(w, d)
  <2>1. PICK outcome \in LedgerOutcomes, newStatus \in {"retry", "sent", "failed"},
             results \in SUBSET Results :
          /\ Updating(w, d, results)
          /\ RecordAttempt(w, d, outcome)
          /\ UpdateRow(w, d, newStatus)
    BY <1>3, UpdateShape
  <2>2. attempts' = attempts
    BY <2>1 DEF UpdateRow, rowVars
  <2>. QED BY <1>0, <2>1, <2>2 DEF Updating, RecordAttempt, TaskMove, Busy
<1>4. CASE PersistenceFails(w, d)
  BY <1>0, <1>4 DEF PersistenceFails, TaskMove, Busy, rowVars
<1>. QED BY <1>1, <1>2, <1>3, <1>4 DEF TaskStep

LEMMA TaskMovePreserves ==
    ASSUME TypeOK, TypeOK', TaskInv, LedgerInv,
           NEW w \in Workers, NEW d \in Deliveries, TaskMove(w, d)
    PROVE  TaskInv' /\ LedgerInv'
<1>1. PICK t \in Task :
        /\ SetTask(w, d, t)
        /\ \/ /\ t.phase # "idle" /\ t.attempt = task[w][d].attempt
              /\ t.result = "sent" => t.attempt \in accepted'[d]
              /\ ledger' = ledger
           \/ /\ t = Idle
              /\ \/ ledger' = ledger
                 \/ \E o \in LedgerOutcomes :
                      ledger' = ledger \cup {<<d, task[w][d].attempt, o>>}
  BY DEF TaskMove
<1>2. /\ Busy(w, d) /\ attempts' = attempts
      /\ \A e \in Deliveries : accepted[e] \subseteq accepted'[e]
  BY DEF TaskMove
<1>3. /\ task'[w][d] = t
      /\ \A v \in Workers, e \in Deliveries : v # w \/ e # d => task'[v][e] = task[v][e]
  BY <1>1 DEF SetTask, TypeOK
<1>4. \A v \in Workers, e \in Deliveries :
        Busy(v, e)' => Busy(v, e) /\ task'[v][e].attempt = task[v][e].attempt
  <2>. SUFFICES ASSUME NEW v \in Workers, NEW e \in Deliveries, Busy(v, e)'
                PROVE  Busy(v, e) /\ task'[v][e].attempt = task[v][e].attempt
    OBVIOUS
  <2>1. CASE v # w \/ e # d
    BY <1>3, <2>1 DEF Busy
  <2>2. CASE v = w /\ e = d
    <3>1. t.phase # "idle"
      BY <1>3, <2>2 DEF Busy
    <3>2. t # Idle
      BY <3>1 DEF Idle
    <3>. QED BY <1>1, <1>2, <1>3, <2>2, <3>2
  <2>. QED BY <2>1, <2>2
<1>5. \A r \in ledger' : r \in ledger \/ (t = Idle /\ r[1] = d /\ r[2] = task[w][d].attempt)
  BY <1>1
<1>6. \A v \in Workers, e \in Deliveries, o \in LedgerOutcomes :
        Busy(v, e)' => <<e, task'[v][e].attempt, o>> \notin ledger'
  <2>. SUFFICES ASSUME NEW v \in Workers, NEW e \in Deliveries, NEW o \in LedgerOutcomes,
                       Busy(v, e)', <<e, task'[v][e].attempt, o>> \in ledger'
                PROVE  FALSE
    OBVIOUS
  <2>1. <<e, task[v][e].attempt, o>> \notin ledger
    BY <1>4 DEF TaskInv
  <2>2. t = Idle /\ e = d /\ task[v][e].attempt = task[w][d].attempt
    BY <1>4, <1>5, <2>1
  <2>3. v # w
    BY <1>3, <2>2 DEF Busy, Idle
  <2>. QED BY <1>2, <1>4, <2>2, <2>3 DEF TaskInv
<1>7. TaskInv'
  <2>1. \A v \in Workers, e \in Deliveries :
          /\ task'[v][e].result = "sent" => task'[v][e].attempt \in accepted'[e]
          /\ ~Busy(v, e)' => task'[v][e] = Idle
    <3>. SUFFICES ASSUME NEW v \in Workers, NEW e \in Deliveries
                  PROVE  /\ task'[v][e].result = "sent" => task'[v][e].attempt \in accepted'[e]
                         /\ ~Busy(v, e)' => task'[v][e] = Idle
      OBVIOUS
    <3>1. CASE v # w \/ e # d
      BY <1>2, <1>3, <3>1 DEF TaskInv, Busy
    <3>2. CASE v = w /\ e = d /\ t = Idle
      BY <1>3, <3>2 DEF Idle
    <3>3. CASE v = w /\ e = d /\ t # Idle
      BY <1>1, <1>3, <3>3 DEF Busy
    <3>. QED BY <3>1, <3>2, <3>3
  <2>. QED BY <1>2, <1>4, <1>6, <2>1 DEF TaskInv
<1>8. LedgerInv'
  <2>1. CASE ledger' = ledger
    BY <1>2, <2>1 DEF LedgerInv
  <2>2. ASSUME NEW o \in LedgerOutcomes, ledger' = ledger \cup {<<d, task[w][d].attempt, o>>}
        PROVE  LedgerInv'
    <3>1. task[w][d].attempt <= attempts[d]
      BY <1>2 DEF TaskInv
    <3>2. \A r \in ledger : ~(r[1] = d /\ r[2] = task[w][d].attempt)
      <4>. SUFFICES ASSUME NEW r \in ledger, r[1] = d, r[2] = task[w][d].attempt
                    PROVE  FALSE
        OBVIOUS
      <4>1. r = <<d, task[w][d].attempt, r[3]>> /\ r[3] \in LedgerOutcomes
        BY DEF TypeOK
      <4>. QED BY <1>2, <4>1 DEF TaskInv
    <3>. QED BY <1>2, <2>2, <3>1, <3>2 DEF LedgerInv
  <2>. QED BY <1>1, <2>1, <2>2
<1>. QED BY <1>7, <1>8

LEMMA ClaimPreserves ==
    ASSUME TypeOK, TypeOK', TaskInv, LedgerInv, NEW w \in Workers, ClaimDeliveries(w)
    PROVE  TaskInv' /\ LedgerInv'
<1>1. PICK B \in Batches :
        /\ attempts' = [d \in Deliveries |-> IF d \in B THEN NextAttempt(d) ELSE attempts[d]]
        /\ task' = [task EXCEPT ![w] = [d \in Deliveries |->
                     IF d \in B
                     THEN [phase |-> "send", attempt |-> attempts'[d],
                           upload |-> media[CampaignOf[d]] = "file", result |-> "none"]
                     ELSE Idle]]
  BY DEF ClaimDeliveries
<1>2. /\ \A d \in Deliveries : ~Busy(w, d)
      /\ UNCHANGED <<ledger, accepted>>
  BY DEF ClaimDeliveries
<1>3. \A d \in Deliveries : attempts[d] <= attempts'[d]
  BY <1>1 DEF NextAttempt, TypeOK
<1>4. \A d \in Deliveries :
        /\ d \in B => /\ task'[w][d].phase = "send" /\ task'[w][d].result = "none"
                      /\ task'[w][d].attempt = attempts[d] + 1 /\ attempts'[d] = attempts[d] + 1
        /\ d \notin B => task'[w][d] = Idle
  BY <1>1 DEF TypeOK, NextAttempt
<1>5. \A v \in Workers, d \in Deliveries : v # w => task'[v][d] = task[v][d]
  BY <1>1 DEF TypeOK
<1>6. LedgerInv'
  <2>1. \A r \in ledger : /\ r[1] \in Deliveries /\ r[2] \in Nat
                          /\ attempts[r[1]] \in Nat /\ attempts'[r[1]] \in Nat
    BY DEF TypeOK
  <2>. QED BY <1>2, <1>3, <2>1 DEF LedgerInv
<1>7. TaskInv'
  <2>0. \A v \in Workers, d \in Deliveries : task[v][d].attempt \in Nat /\ attempts[d] \in Nat /\ attempts'[d] \in Nat
    BY DEF TypeOK, Task
  <2>1. \A v \in Workers, d \in Deliveries :
          /\ Busy(v, d)' => task'[v][d].attempt <= attempts'[d]
          /\ task'[v][d].result = "sent" => task'[v][d].attempt \in accepted'[d]
          /\ ~Busy(v, d)' => task'[v][d] = Idle
    BY <1>2, <1>3, <1>4, <1>5, <2>0 DEF TaskInv, Busy, Idle
  <2>2. \A v \in Workers, d \in Deliveries, o \in LedgerOutcomes :
          Busy(v, d)' => <<d, task'[v][d].attempt, o>> \notin ledger'
    <3>. SUFFICES ASSUME NEW v \in Workers, NEW d \in Deliveries, NEW o \in LedgerOutcomes,
                         Busy(v, d)', <<d, task'[v][d].attempt, o>> \in ledger
                  PROVE  FALSE
      BY <1>2
    <3>1. CASE v # w
      BY <1>5, <3>1 DEF TaskInv, Busy
    <3>2. CASE v = w
      <4>1. task'[v][d].attempt = attempts[d] + 1
        BY <1>4, <3>2 DEF Busy, Idle
      <4>2. task'[v][d].attempt <= attempts[d]
        BY DEF LedgerInv
      <4>. QED BY <2>0, <4>1, <4>2
    <3>. QED BY <3>1, <3>2
  <2>3. \A v, u \in Workers, d \in Deliveries :
          Busy(v, d)' /\ Busy(u, d)' /\ v # u => task'[v][d].attempt # task'[u][d].attempt
    <3>. SUFFICES ASSUME NEW v \in Workers, NEW u \in Workers, NEW d \in Deliveries,
                         Busy(v, d)', Busy(u, d)', v # u
                  PROVE  task'[v][d].attempt # task'[u][d].attempt
      OBVIOUS
    <3>1. \A x \in Workers : x # w /\ Busy(x, d)' =>
             task'[x][d].attempt = task[x][d].attempt /\ task[x][d].attempt <= attempts[d] /\ Busy(x, d)
      BY <1>5 DEF TaskInv, Busy
    <3>2. Busy(w, d)' => task'[w][d].attempt = attempts[d] + 1
      BY <1>4 DEF Busy, Idle
    <3>3. CASE v # w /\ u # w
      BY <3>1, <3>3 DEF TaskInv
    <3>4. CASE v = w \/ u = w
      BY <2>0, <3>1, <3>2, <3>4
    <3>. QED BY <3>3, <3>4
  <2>. QED BY <2>1, <2>2, <2>3 DEF TaskInv
<1>. QED BY <1>6, <1>7

LEMMA NextTaskInv ==
    ASSUME TypeOK, TypeOK', TaskInv, LedgerInv, [Next]_vars
    PROVE  TaskInv' /\ LedgerInv'
<1>1. ASSUME NEW w \in Workers, ClaimDeliveries(w) PROVE TaskInv' /\ LedgerInv'
  BY <1>1, ClaimPreserves
<1>2. ASSUME NEW w \in Workers, NEW d \in Deliveries, TaskStep(w, d) \/ PersistenceFails(w, d)
      PROVE  TaskInv' /\ LedgerInv'
  BY <1>2, TaskMoves, TaskMovePreserves
<1>3. ASSUME NEW w \in Workers, Crash(w) PROVE TaskInv' /\ LedgerInv'
  <2>1. UNCHANGED <<attempts, ledger, accepted>>
    BY <1>3 DEF Crash, rowVars
  <2>2. \A v \in Workers, d \in Deliveries :
          task'[v][d] = IF v = w THEN Idle ELSE task[v][d]
    BY <1>3 DEF Crash, TypeOK
  <2>3. \A v \in Workers, d \in Deliveries : Busy(v, d)' => v # w /\ Busy(v, d)
    BY <2>2 DEF Busy, Idle
  <2>4. LedgerInv'
    BY <2>1 DEF LedgerInv
  <2>5. \A v \in Workers, d \in Deliveries :
          /\ task'[v][d].result = "sent" => task'[v][d].attempt \in accepted'[d]
          /\ ~Busy(v, d)' => task'[v][d] = Idle
    <3>. SUFFICES ASSUME NEW v \in Workers, NEW d \in Deliveries
                  PROVE  /\ task'[v][d].result = "sent" => task'[v][d].attempt \in accepted'[d]
                         /\ ~Busy(v, d)' => task'[v][d] = Idle
      OBVIOUS
    <3>1. CASE v = w
      BY <2>2, <3>1 DEF Idle
    <3>2. CASE v # w
      BY <2>1, <2>2, <3>2 DEF TaskInv, Busy
    <3>. QED BY <3>1, <3>2
  <2>6. \A v \in Workers, d \in Deliveries :
          Busy(v, d)' => /\ task'[v][d].attempt <= attempts'[d]
                         /\ \A o \in LedgerOutcomes : <<d, task'[v][d].attempt, o>> \notin ledger'
    BY <2>1, <2>2, <2>3 DEF TaskInv
  <2>7. \A u, v \in Workers, d \in Deliveries :
          Busy(u, d)' /\ Busy(v, d)' /\ u # v => task'[u][d].attempt # task'[v][d].attempt
    BY <2>2, <2>3 DEF TaskInv
  <2>. QED BY <2>4, <2>5, <2>6, <2>7 DEF TaskInv
<1>4. ASSUME UNCHANGED <<attempts, task, ledger, accepted>> PROVE TaskInv' /\ LedgerInv'
  BY <1>4 DEF TaskInv, LedgerInv, Busy
<1>5. ASSUME NEW d \in Deliveries, BecomesDue(d) \/ LeaseExpires(d) PROVE TaskInv' /\ LedgerInv'
  BY <1>4, <1>5 DEF BecomesDue, LeaseExpires
<1>6. ASSUME NEW s \in Subscribers, ThrottleEnds(s) \/ UserStops(s) \/ UserStarts(s)
      PROVE  TaskInv' /\ LedgerInv'
  BY <1>4, <1>6 DEF ThrottleEnds, UserStops, UserStarts, rowVars
<1>7. CASE UNCHANGED vars
  BY <1>4, <1>7 DEF vars, rowVars
<1>. QED BY <1>1, <1>2, <1>3, <1>5, <1>6, <1>7 DEF Next

LEMMA InitTaskInv == Init => TaskInv /\ LedgerInv
  BY DEF Init, TaskInv, LedgerInv, Busy, Idle

(* The UNIQUE constraint on delivery_attempts never rejects an outcome.    *)
THEOREM OutcomesUnique == Spec => []OneOutcomePerClaim
<1>1. TaskInv /\ LedgerInv => OneOutcomePerClaim
  BY DEF TaskInv, LedgerInv, OneOutcomePerClaim
<1>2. TypeOK /\ TypeOK' /\ TaskInv /\ LedgerInv /\ [Next]_vars => TaskInv' /\ LedgerInv'
  BY NextTaskInv
<1>. QED BY <1>1, <1>2, InitTaskInv, TypeCorrect, PTL DEF Spec

-----------------------------------------------------------------------------
(* The rows.                                                               *)

(* What a step of the system does to one row: nothing, a claim, or the     *)
(* UPDATE of a task that owns the row.                                     *)
Untouched(d) == /\ status'[d] = status[d]
                /\ attempts'[d] = attempts[d]
                /\ leaseOwner'[d] = leaseOwner[d]

Claimed(d, w) == /\ d \in Eligible
                 /\ status'[d] = "sending"
                 /\ attempts'[d] = attempts[d] + 1
                 /\ leaseOwner'[d] = OwnerOf[w]
                 /\ task'[w][d].attempt = attempts'[d]

Updated(d, w) == /\ Update(w, d) /\ OwnsRow(w, d)
                 /\ attempts'[d] = attempts[d]
                 /\ leaseOwner'[d] = NoOwner
                 /\ status'[d] = CASE CompleteDelivery(w, d) -> "sent"
                                   [] FailDelivery(w, d)     -> "failed"
                                   [] OTHER                  -> "retry"

(* An UPDATE concerns the row of the task alone, and that one only if the  *)
(* task's owner string is still on it.                                     *)
LEMMA UpdateMoves ==
    ASSUME TypeOK, NEW w \in Workers, NEW e \in Deliveries, Update(w, e), NEW d \in Deliveries
    PROVE  Untouched(d) \/ (d = e /\ Updated(d, w))
<1>1. ASSUME NEW newStatus, UpdateRow(w, e, newStatus)
      PROVE  \/ Untouched(d)
             \/ /\ d = e /\ OwnsRow(w, d) /\ status'[d] = newStatus
                /\ attempts'[d] = attempts[d] /\ leaseOwner'[d] = NoOwner
  <2>1. CASE ~OwnsRow(w, e)
    BY <1>1, <2>1 DEF UpdateRow, rowVars, Untouched
  <2>2. CASE OwnsRow(w, e)
    BY <1>1, <2>2 DEF UpdateRow, ReleaseLease, Untouched, TypeOK
  <2>. QED BY <2>1, <2>2
<1>2. CASE CompleteDelivery(w, e)
  <2>1. ~FailDelivery(w, e)
    BY <1>2 DEF CompleteDelivery, FailDelivery, Updating, DeliveredResults
  <2>. QED BY <1>1, <1>2, <2>1 DEF CompleteDelivery, Update, Updated
<1>3. CASE FailDelivery(w, e)
  <2>1. ~CompleteDelivery(w, e)
    BY <1>3 DEF CompleteDelivery, FailDelivery, Updating, DeliveredResults
  <2>. QED BY <1>1, <1>3, <2>1 DEF FailDelivery, Update, Updated
<1>4. CASE RetryDelivery(w, e) \/ MigrateDeliveryChat(w, e)
  <2>1. ~CompleteDelivery(w, e)
    BY <1>4 DEF CompleteDelivery, RetryDelivery, MigrateDeliveryChat, Updating, DeliveredResults
  <2>2. ~FailDelivery(w, e)
    BY <1>4 DEF FailDelivery, RetryDelivery, MigrateDeliveryChat, Updating
  <2>. QED BY <1>1, <1>4, <2>1, <2>2 DEF RetryDelivery, MigrateDeliveryChat, Update, Updated
<1>. QED BY <1>2, <1>3, <1>4 DEF Update

LEMMA RowMoves ==
    ASSUME TypeOK, [Next]_vars, NEW d \in Deliveries
    PROVE  Untouched(d) \/ \E w \in Workers : Claimed(d, w) \/ Updated(d, w)
<1>1. ASSUME NEW w \in Workers, ClaimDeliveries(w)
      PROVE  Untouched(d) \/ Claimed(d, w)
  <2>1. PICK B \in Batches :
          /\ status' = [e \in Deliveries |-> IF e \in B THEN "sending" ELSE status[e]]
          /\ attempts' = [e \in Deliveries |-> IF e \in B THEN NextAttempt(e) ELSE attempts[e]]
          /\ leaseOwner' = [e \in Deliveries |-> IF e \in B THEN OwnerOf[w] ELSE leaseOwner[e]]
          /\ task' = [task EXCEPT ![w] = [e \in Deliveries |->
                       IF e \in B
                       THEN [phase |-> "send", attempt |-> attempts'[e],
                             upload |-> media[CampaignOf[e]] = "file", result |-> "none"]
                       ELSE Idle]]
    BY <1>1 DEF ClaimDeliveries
  <2>2. CASE d \notin B
    BY <2>1, <2>2 DEF Untouched
  <2>3. CASE d \in B
    <3>1. d \in Eligible
      BY <2>3 DEF Batches, Oldest, Claimable
    <3>2. task'[w][d].attempt = attempts'[d]
      BY <2>1, <2>3 DEF TypeOK
    <3>. QED BY <2>1, <2>3, <3>1, <3>2 DEF Claimed, NextAttempt
  <2>. QED BY <2>2, <2>3
<1>2. ASSUME NEW w \in Workers, NEW e \in Deliveries, Update(w, e)
      PROVE  Untouched(d) \/ Updated(d, w)
  BY <1>2, UpdateMoves
<1>3. ASSUME UNCHANGED <<status, attempts, leaseOwner>> PROVE Untouched(d)
  BY <1>3 DEF Untouched
<1>4. ASSUME NEW w \in Workers, NEW e \in Deliveries,
             Answer(w, e) \/ EnsureDeliveryLease(w, e) \/ PersistenceFails(w, e) \/ Crash(w)
      PROVE  Untouched(d)
  BY <1>3, <1>4 DEF Answer, MayLackFile, DownloadFails, DropAttachment, TelegramAccepts, TelegramRefuses,
                    EnsureDeliveryLease, PersistenceFails, Crash, rowVars
<1>5. ASSUME NEW e \in Deliveries, BecomesDue(e) \/ LeaseExpires(e) PROVE Untouched(d)
  BY <1>3, <1>5 DEF BecomesDue, LeaseExpires
<1>6. ASSUME NEW s \in Subscribers, ThrottleEnds(s) \/ UserStops(s) \/ UserStarts(s)
      PROVE  Untouched(d)
  BY <1>3, <1>6 DEF ThrottleEnds, UserStops, UserStarts, rowVars
<1>7. CASE UNCHANGED vars
  BY <1>3, <1>7 DEF vars, rowVars
<1>. QED BY <1>1, <1>2, <1>4, <1>5, <1>6, <1>7 DEF Next, TaskStep

(* A row that is sent or failed has no owner, so no claim selects it and   *)
(* no late UPDATE reaches it.                                              *)
LEMMA ClosedUntouched ==
    ASSUME TypeOK, [Next]_vars, NEW d \in Deliveries, Closed(d)
    PROVE  Untouched(d)
<1>1. leaseOwner[d] = NoOwner
  BY DEF TypeOK, Closed
<1>2. \A w \in Workers : ~Updated(d, w)
  BY <1>1, ConstantsAssumption DEF Updated, OwnsRow
<1>3. \A w \in Workers : ~Claimed(d, w)
  BY DEF Claimed, Eligible
<1>. QED BY <1>2, <1>3, RowMoves

(* A delivery that was sent or failed stays as it is.                      *)
THEOREM ClosedIsForever == Spec => ClosedForever
<1>1. TypeOK /\ [Next]_vars =>
        [\A d \in Deliveries :
            Closed(d) => status'[d] = status[d] /\ attempts'[d] = attempts[d]]_vars
  BY ClosedUntouched DEF Untouched
<1>. QED BY <1>1, TypeCorrect, PTL DEF Spec, ClosedForever

(* Nothing is taken back: what Telegram took and what the ledger holds.    *)
LEMMA HistoryGrows ==
    ASSUME TypeOK, TaskInv, [Next]_vars
    PROVE  /\ \A d \in Deliveries : accepted[d] \subseteq accepted'[d]
           /\ ledger \subseteq ledger'
<1>1. ASSUME NEW w \in Workers, NEW d \in Deliveries, TaskStep(w, d) \/ PersistenceFails(w, d)
      PROVE  /\ \A e \in Deliveries : accepted[e] \subseteq accepted'[e]
             /\ ledger \subseteq ledger'
  <2>1. TaskMove(w, d)
    BY <1>1, TaskMoves
  <2>. QED BY <2>1 DEF TaskMove
<1>2. ASSUME NEW w \in Workers, ClaimDeliveries(w) \/ Crash(w) PROVE UNCHANGED <<accepted, ledger>>
  BY <1>2 DEF ClaimDeliveries, Crash
<1>3. ASSUME NEW d \in Deliveries, BecomesDue(d) \/ LeaseExpires(d)
      PROVE  UNCHANGED <<accepted, ledger>>
  BY <1>3 DEF BecomesDue, LeaseExpires
<1>4. ASSUME NEW s \in Subscribers, ThrottleEnds(s) \/ UserStops(s) \/ UserStarts(s)
      PROVE  UNCHANGED <<accepted, ledger>>
  BY <1>4 DEF ThrottleEnds, UserStops, UserStarts
<1>5. CASE UNCHANGED vars
  BY <1>5 DEF vars
<1>. QED BY <1>1, <1>2, <1>3, <1>4, <1>5 DEF Next

(* The task that completes a row had the message taken by Telegram, and    *)
(* its ledger row is written in the same transaction.                      *)
LEMMA CompletionIsBacked ==
    ASSUME TaskInv, NEW w \in Workers, NEW d \in Deliveries, CompleteDelivery(w, d)
    PROVE  \E a \in accepted'[d] : <<d, a, "sent">> \in ledger'
<1>1. task[w][d].attempt \in accepted[d] /\ accepted' = accepted
  BY DEF TaskInv, CompleteDelivery, Updating, DeliveredResults
<1>2. <<d, task[w][d].attempt, "sent">> \in ledger'
  BY DEF CompleteDelivery, RecordAttempt
<1>. QED BY <1>1, <1>2

(* A row is marked sent only of a message that Telegram took.              *)
THEOREM SentIsBacked == Spec => []SentWasAccepted
<1>1. Init => SentWasAccepted
  BY DEF Init, SentWasAccepted
<1>2. ASSUME TypeOK, TaskInv, SentWasAccepted, [Next]_vars PROVE SentWasAccepted'
  <2>. SUFFICES ASSUME NEW d \in Deliveries, status'[d] = "sent"
                PROVE  \E a \in accepted'[d] : <<d, a, "sent">> \in ledger'
    BY DEF SentWasAccepted
  <2>1. CASE Untouched(d)
    BY <1>2, <2>1, HistoryGrows DEF Untouched, SentWasAccepted
  <2>2. ASSUME NEW w \in Workers, Claimed(d, w) PROVE FALSE
    BY <2>2 DEF Claimed
  <2>3. ASSUME NEW w \in Workers, Updated(d, w)
        PROVE  \E a \in accepted'[d] : <<d, a, "sent">> \in ledger'
    <3>1. CompleteDelivery(w, d)
      BY <2>3 DEF Updated
    <3>. QED BY <1>2, <3>1, CompletionIsBacked
  <2>. QED BY <1>2, <2>1, <2>2, <2>3, RowMoves
<1>3. TypeOK /\ TypeOK' /\ TaskInv /\ LedgerInv /\ [Next]_vars => TaskInv' /\ LedgerInv'
  BY NextTaskInv
<1>. QED BY <1>1, <1>2, <1>3, InitTaskInv, TypeCorrect, PTL DEF Spec

-----------------------------------------------------------------------------
(* Fencing.                                                                *)

DistinctOwners == \A v, w \in Workers : OwnerOf[v] = OwnerOf[w] => v = w

(* A task whose owner string is on its row works for the row's last claim. *)
Fenced == \A w \in Workers, d \in Deliveries :
             Busy(w, d) /\ leaseOwner[d] = OwnerOf[w] => task[w][d].attempt = attempts[d]

LEMMA NextFenced ==
    ASSUME DistinctOwners, TypeOK, TaskInv, Fenced, [Next]_vars
    PROVE  Fenced'
<1>. SUFFICES ASSUME NEW v \in Workers, NEW e \in Deliveries,
                     Busy(v, e)', leaseOwner'[e] = OwnerOf[v]
              PROVE  task'[v][e].attempt = attempts'[e]
  BY DEF Fenced
<1>0. OwnerOf[v] \in Owners /\ NoOwner \notin Owners
  BY ConstantsAssumption
<1>1. ASSUME NEW w \in Workers, Claimed(e, w) PROVE task'[v][e].attempt = attempts'[e]
  BY <1>1 DEF Claimed, DistinctOwners
<1>2. ASSUME NEW w \in Workers, Updated(e, w) PROVE FALSE
  BY <1>0, <1>2 DEF Updated
<1>3. CASE Untouched(e)
  <2>1. ASSUME Busy(v, e), task'[v][e].attempt = task[v][e].attempt
        PROVE  task'[v][e].attempt = attempts'[e]
    BY <1>3, <2>1 DEF Untouched, Fenced
  <2>2. ASSUME NEW w \in Workers, NEW d \in Deliveries,
               TaskStep(w, d) \/ PersistenceFails(w, d)
        PROVE  Busy(v, e) /\ task'[v][e].attempt = task[v][e].attempt
    <3>1. TaskMove(w, d)
      BY <2>2, TaskMoves
    <3>2. PICK t \in Task : /\ SetTask(w, d, t)
                            /\ t = Idle \/ t.attempt = task[w][d].attempt
      BY <3>1 DEF TaskMove
    <3>3. CASE v # w \/ e # d
      BY <3>2, <3>3 DEF SetTask, TypeOK, Busy
    <3>4. CASE v = w /\ e = d
      <4>1. task'[v][e] = t
        BY <3>2, <3>4 DEF SetTask, TypeOK
      <4>2. t # Idle
        BY <4>1 DEF Busy, Idle
      <4>. QED BY <3>1, <3>2, <3>4, <4>1, <4>2 DEF TaskMove
    <3>. QED BY <3>3, <3>4
  <2>3. ASSUME NEW w \in Workers, Crash(w)
        PROVE  Busy(v, e) /\ task'[v][e].attempt = task[v][e].attempt
    <3>1. task'[v][e] = IF v = w THEN Idle ELSE task[v][e]
      BY <2>3 DEF Crash, TypeOK
    <3>. QED BY <3>1 DEF Busy, Idle
  <2>4. ASSUME NEW w \in Workers, ClaimDeliveries(w)
        PROVE  Busy(v, e) /\ task'[v][e].attempt = task[v][e].attempt
    <3>1. PICK B \in Batches :
            /\ attempts' = [d \in Deliveries |-> IF d \in B THEN NextAttempt(d) ELSE attempts[d]]
            /\ task' = [task EXCEPT ![w] = [d \in Deliveries |->
                       IF d \in B
                       THEN [phase |-> "send", attempt |-> attempts'[d],
                             upload |-> media[CampaignOf[d]] = "file", result |-> "none"]
                       ELSE Idle]]
      BY <2>4 DEF ClaimDeliveries
    <3>2. e \notin B
      BY <1>3, <3>1 DEF Untouched, NextAttempt, TypeOK
    <3>3. CASE v = w
      <4>1. task'[v][e] = Idle
        BY <3>1, <3>2, <3>3 DEF TypeOK
      <4>. QED BY <4>1 DEF Busy, Idle
    <3>4. CASE v # w
      BY <3>1, <3>4 DEF TypeOK, Busy
    <3>. QED BY <3>3, <3>4
  <2>5. ASSUME task' = task PROVE Busy(v, e) /\ task'[v][e].attempt = task[v][e].attempt
    BY <2>5 DEF Busy
  <2>6. ASSUME NEW d \in Deliveries, BecomesDue(d) \/ LeaseExpires(d) PROVE task' = task
    BY <2>6 DEF BecomesDue, LeaseExpires
  <2>7. ASSUME NEW s \in Subscribers, ThrottleEnds(s) \/ UserStops(s) \/ UserStarts(s)
        PROVE  task' = task
    BY <2>7 DEF ThrottleEnds, UserStops, UserStarts
  <2>8. CASE UNCHANGED vars
    BY <2>1, <2>5, <2>8 DEF vars
  <2>. QED BY <2>1, <2>2, <2>3, <2>4, <2>5, <2>6, <2>7, <2>8 DEF Next
<1>. QED BY <1>1, <1>2, <1>3, RowMoves

(* If the live workers write different owner strings, only the task of the *)
(* latest claim takes a row out of "sending".                              *)
THEOREM WritesAreFenced == ASSUME DistinctOwners PROVE Spec => FencedWrites
<1>1. Init => Fenced
  BY DEF Init, Fenced, Busy, Idle
<1>2. TypeOK /\ TaskInv /\ Fenced /\ [Next]_vars => Fenced'
  BY NextFenced, DistinctOwners
<1>3. TypeOK /\ TypeOK' /\ TaskInv /\ LedgerInv /\ [Next]_vars => TaskInv' /\ LedgerInv'
  BY NextTaskInv
<1>4. ASSUME TypeOK, Fenced, [Next]_vars
      PROVE  [\A d \in Deliveries :
                status[d] = "sending" /\ status'[d] # "sending" =>
                  \E w \in Workers : /\ task[w][d].phase = "update" /\ task'[w][d] = Idle
                                     /\ task[w][d].attempt = attempts[d]]_vars
  <2>. SUFFICES ASSUME NEW d \in Deliveries, status[d] = "sending", status'[d] # "sending"
                PROVE  \E w \in Workers : /\ task[w][d].phase = "update" /\ task'[w][d] = Idle
                                          /\ task[w][d].attempt = attempts[d]
    OBVIOUS
  <2>1. PICK w \in Workers : Updated(d, w)
    BY <1>4, RowMoves DEF Untouched, Claimed
  <2>2. task[w][d].phase = "update" /\ task'[w][d] = Idle
    BY <1>4, <2>1 DEF Updated, Update, CompleteDelivery, RetryDelivery, FailDelivery,
                      MigrateDeliveryChat, Updating, SetTask, TypeOK
  <2>. QED BY <1>4, <2>1, <2>2 DEF Fenced, Updated, OwnsRow, Busy
<1>. QED BY <1>1, <1>2, <1>3, <1>4, InitTaskInv, TypeCorrect, PTL DEF Spec, FencedWrites

-----------------------------------------------------------------------------
(* Refinement.                                                             *)

(* Each step of the queue is a step of AtLeastOnce or changes nothing that *)
(* AtLeastOnce sees.                                                       *)
THEOREM QueueKeepsPromise == Spec => ImplementsPromise
<1>. DEFINE outcome(d) == IF Closed(d) THEN status[d] ELSE "open"
            taken(d) == accepted[d] # {}
            outcomes == [d \in Deliveries |-> outcome(d)]
            takens == [d \in Deliveries |-> taken(d)]
<1>1. Init => Promise!Init
  BY DEF Init, Promise!Init, Closed
<1>2. ASSUME TypeOK, TaskInv, [Next]_vars
      PROVE  [Promise!Next]_<<outcomes, takens>>
  <2>1. ASSUME NEW w \in Workers, NEW d \in Deliveries, TelegramAccepts(w, d)
        PROVE  Promise!Take(d)
    <3>1. /\ taken(d)' = TRUE
          /\ \A e \in Deliveries \ {d} : taken(e)' = taken(e)
      BY <1>2, <2>1 DEF TelegramAccepts, TypeOK
    <3>2. takens' = [takens EXCEPT ![d] = TRUE]
      <4>. HIDE DEF taken
      <4>. QED BY <3>1
    <3>3. outcomes' = outcomes
      BY <2>1 DEF TelegramAccepts, rowVars, Closed
    <3>. QED BY <3>2, <3>3 DEF Promise!Take
  <2>2. ASSUME NEW w \in Workers, NEW d \in Deliveries, Update(w, d), ~Untouched(d)
        PROVE  \/ UNCHANGED <<outcomes, takens>>
               \/ Promise!EndSent(d) \/ Promise!EndFailed(d)
    <3>1. accepted' = accepted
      BY <2>2 DEF Update, CompleteDelivery, RetryDelivery, FailDelivery, MigrateDeliveryChat,
                  Updating
    <3>2. takens' = takens
      BY <3>1
    <3>3. Updated(d, w) /\ ~Closed(d)
      BY <1>2, <2>2, UpdateMoves, ClosedUntouched
    <3>4. \A e \in Deliveries \ {d} : status'[e] = status[e]
      BY <1>2, <2>2, UpdateMoves DEF Untouched
    <3>5. \A e \in Deliveries \ {d} : outcome(e)' = outcome(e)
      BY <3>4 DEF Closed
    <3>6. outcome(d) = "open"
      BY <3>3
    <3>7. CASE CompleteDelivery(w, d)
      <4>0. ~FailDelivery(w, d)
        BY <3>7 DEF CompleteDelivery, FailDelivery, Updating, DeliveredResults
      <4>1. outcome(d)' = "sent"
        BY <3>3, <3>7, <4>0 DEF Updated, Closed
      <4>2. outcomes' = [outcomes EXCEPT ![d] = "sent"]
        <5>. HIDE DEF outcome
        <5>. QED BY <3>5, <4>1
      <4>3. taken(d)
        BY <1>2, <3>7 DEF TaskInv, CompleteDelivery, Updating, DeliveredResults
      <4>. QED BY <3>2, <3>6, <4>2, <4>3 DEF Promise!EndSent
    <3>8. CASE FailDelivery(w, d) /\ ~CompleteDelivery(w, d)
      <4>1. outcome(d)' = "failed"
        BY <3>3, <3>8 DEF Updated, Closed
      <4>2. outcomes' = [outcomes EXCEPT ![d] = "failed"]
        <5>. HIDE DEF outcome
        <5>. QED BY <3>5, <4>1
      <4>. QED BY <3>2, <3>6, <4>2 DEF Promise!EndFailed
    <3>9. CASE ~FailDelivery(w, d) /\ ~CompleteDelivery(w, d)
      <4>1. outcome(d)' = "open"
        BY <3>3, <3>9 DEF Updated, Closed
      <4>. QED BY <3>2, <3>5, <3>6, <4>1
    <3>. QED BY <3>7, <3>8, <3>9
  <2>3. ASSUME NEW w \in Workers, NEW d \in Deliveries, Update(w, d), Untouched(d)
        PROVE  UNCHANGED <<outcomes, takens>>
    <3>1. accepted' = accepted
      BY <2>3 DEF Update, CompleteDelivery, RetryDelivery, FailDelivery, MigrateDeliveryChat,
                  Updating
    <3>2. \A e \in Deliveries : status'[e] = status[e]
      BY <1>2, <2>3, UpdateMoves DEF Untouched
    <3>. QED BY <3>1, <3>2 DEF Closed
  <2>4. ASSUME NEW w \in Workers, ClaimDeliveries(w) PROVE UNCHANGED <<outcomes, takens>>
    <3>1. accepted' = accepted
      BY <2>4 DEF ClaimDeliveries
    <3>2. \A e \in Deliveries : status'[e] = status[e] \/ (~Closed(e) /\ status'[e] = "sending")
      BY <2>4 DEF ClaimDeliveries, Batches, Oldest, Claimable, Eligible
    <3>. QED BY <3>1, <3>2 DEF Closed
  <2>5. ASSUME UNCHANGED <<status, accepted>> PROVE UNCHANGED <<outcomes, takens>>
    BY <2>5 DEF Closed
  <2>6. ASSUME NEW w \in Workers, NEW d \in Deliveries,
               DownloadFails(w, d) \/ DropAttachment(w, d) \/ TelegramRefuses(w, d)
                 \/ EnsureDeliveryLease(w, d) \/ PersistenceFails(w, d)
        PROVE  UNCHANGED <<outcomes, takens>>
    BY <2>5, <2>6 DEF MayLackFile, DownloadFails, DropAttachment, TelegramRefuses, EnsureDeliveryLease,
                      PersistenceFails, rowVars
  <2>7. ASSUME NEW d \in Deliveries, BecomesDue(d) \/ LeaseExpires(d)
        PROVE  UNCHANGED <<outcomes, takens>>
    BY <2>5, <2>7 DEF BecomesDue, LeaseExpires
  <2>8. ASSUME NEW s \in Subscribers, ThrottleEnds(s) \/ UserStops(s) \/ UserStarts(s)
        PROVE  UNCHANGED <<outcomes, takens>>
    BY <2>5, <2>8 DEF ThrottleEnds, UserStops, UserStarts, rowVars
  <2>9. ASSUME NEW w \in Workers, Crash(w)
        PROVE  UNCHANGED <<outcomes, takens>>
    BY <2>5, <2>9 DEF Crash, rowVars
  <2>10. CASE UNCHANGED vars
    BY <2>5, <2>10 DEF vars, rowVars
  <2>. HIDE DEF outcomes, takens
  <2>11. \A w \in Workers, d \in Deliveries :
           TaskStep(w, d) => [Promise!Next]_<<outcomes, takens>>
    BY <2>1, <2>2, <2>3, <2>6 DEF TaskStep, Answer, Promise!Next
  <2>. QED BY <1>2, <2>4, <2>6, <2>7, <2>8, <2>9, <2>11, <2>10 DEF Next
<1>3. TypeOK /\ TypeOK' /\ TaskInv /\ LedgerInv /\ [Next]_vars => TaskInv' /\ LedgerInv'
  BY NextTaskInv
<1>. QED BY <1>1, <1>2, <1>3, InitTaskInv, TypeCorrect, PTL
         DEF Spec, ImplementsPromise, Promise!Spec

-----------------------------------------------------------------------------
(* The selection of claim_deliveries: its two subqueries keep the messages *)
(* and uploads of a worker apart and yet never block the queue.  Both rest *)
(* on available_at, id being a strict total order of the due rows.         *)
OrderInv ==
    /\ \A d \in due : older[d] \subseteq due /\ d \notin older[d]
    /\ \A d, e \in due : d = e \/ d \in older[e] \/ e \in older[d]
    /\ \A d, e \in due : d \in older[e] => older[d] \subseteq older[e]

LEMMA ArriveKeepsOrder ==
    ASSUME TypeOK, OrderInv, NEW d \in Deliveries, BecomesDue(d)
    PROVE  OrderInv'
<1>1. /\ d \notin due /\ due' = due \cup {d}
      /\ older' = [older EXCEPT ![d] = due]
  BY DEF BecomesDue, Arrive
<1>2. \A e \in due' : older'[e] = IF e = d THEN due ELSE older[e]
  BY <1>1 DEF TypeOK
<1>3. \A e \in due' : older'[e] \subseteq due' /\ e \notin older'[e]
  BY <1>1, <1>2 DEF OrderInv
<1>4. \A x, e \in due' : x = e \/ x \in older'[e] \/ e \in older'[x]
  BY <1>1, <1>2 DEF OrderInv
<1>5. \A x, e \in due' : x \in older'[e] => older'[x] \subseteq older'[e]
  BY <1>1, <1>2 DEF OrderInv
<1>. QED BY <1>3, <1>4, <1>5 DEF OrderInv

LEMMA LeaveKeepsOrder ==
    ASSUME TypeOK, OrderInv, NEW d \in Deliveries,
           due' = due \ {d}, older' = Leave(older, d)
    PROVE  OrderInv'
<1>1. \A e \in due' : e \in due /\ older'[e] = older[e] \ {d}
  BY DEF Leave, TypeOK
<1>2. \A e \in due' : older'[e] \subseteq due' /\ e \notin older'[e]
  BY <1>1 DEF OrderInv
<1>3. \A x, e \in due' : x = e \/ x \in older'[e] \/ e \in older'[x]
  BY <1>1 DEF OrderInv
<1>4. \A x, e \in due' : x \in older'[e] => older'[x] \subseteq older'[e]
  BY <1>1 DEF OrderInv
<1>. QED BY <1>2, <1>3, <1>4 DEF OrderInv

LEMMA NextOrder == ASSUME TypeOK, OrderInv, [Next]_vars PROVE OrderInv'
<1>1. ASSUME UNCHANGED <<due, older>> PROVE OrderInv'
  BY <1>1 DEF OrderInv
<1>2. ASSUME NEW w \in Workers, NEW d \in Deliveries, Update(w, d) PROVE OrderInv'
  <2>1. PICK newStatus \in {"retry", "sent", "failed"} : UpdateRow(w, d, newStatus)
    BY <1>2, UpdateShape
  <2>2. \/ due' = due \ {d} /\ older' = Leave(older, d)
        \/ UNCHANGED <<due, older>>
    BY <2>1 DEF UpdateRow, rowVars
  <2>. QED BY <1>1, <2>2, LeaveKeepsOrder
<1>3. ASSUME NEW w \in Workers, NEW d \in Deliveries,
             Answer(w, d) \/ EnsureDeliveryLease(w, d) \/ PersistenceFails(w, d)
      PROVE  UNCHANGED <<due, older>>
  BY <1>3 DEF Answer, MayLackFile, DownloadFails, DropAttachment, TelegramAccepts, TelegramRefuses,
              EnsureDeliveryLease, PersistenceFails, rowVars
<1>4. ASSUME NEW w \in Workers, ClaimDeliveries(w) \/ Crash(w) PROVE UNCHANGED <<due, older>>
  BY <1>4 DEF ClaimDeliveries, Crash, rowVars
<1>5. ASSUME NEW d \in Deliveries, LeaseExpires(d) PROVE UNCHANGED <<due, older>>
  BY <1>5 DEF LeaseExpires
<1>6. ASSUME NEW s \in Subscribers, ThrottleEnds(s) \/ UserStops(s) \/ UserStarts(s)
      PROVE  UNCHANGED <<due, older>>
  BY <1>6 DEF ThrottleEnds, UserStops, UserStarts, rowVars
<1>7. CASE UNCHANGED vars
  BY <1>1, <1>7 DEF vars, rowVars
<1>. QED BY <1>1, <1>2, <1>3, <1>4, <1>5, <1>6, <1>7, ArriveKeepsOrder DEF Next, TaskStep

LEMMA Ordered == Spec => []OrderInv
<1>1. Init => OrderInv
  BY DEF Init, OrderInv
<1>. QED BY <1>1, NextOrder, TypeCorrect, PTL DEF Spec

-----------------------------------------------------------------------------
(* Two rows of one batch.                                                  *)
LEMMA BatchesAreApart ==
    ASSUME OrderInv, NEW B \in Batches, NEW d \in B, NEW e \in B
    PROVE  /\ SubscriberOf[d] = SubscriberOf[e] => d = e
           /\ /\ CampaignOf[d] = CampaignOf[e]
              /\ media[CampaignOf[d]] = "file"
              => d = e
<1>1. d \in Claimable /\ e \in Claimable
  BY DEF Batches, Oldest
<1>2. /\ d \in Eligible /\ e \in Eligible
      /\ IsCandidate(d) /\ IsCandidate(e) /\ MayCarryMedia(d) /\ MayCarryMedia(e)
      /\ SubscriberOf[d] \notin throttled /\ SubscriberOf[e] \notin throttled
  BY <1>1 DEF Claimable
<1>3. d = e \/ d \in older[e] \/ e \in older[d]
  BY <1>2 DEF Eligible, OrderInv
<1>4. CASE SubscriberOf[d] = SubscriberOf[e]
  BY <1>2, <1>3, <1>4 DEF IsCandidate, FirstOf
<1>5. CASE CampaignOf[d] = CampaignOf[e] /\ media[CampaignOf[d]] = "file"
  <2>1. d \in Seeds(CampaignOf[d]) /\ e \in Seeds(CampaignOf[d])
    BY <1>2, <1>5 DEF Seeds
  <2>2. older[d] \cap Seeds(CampaignOf[d]) = {} /\ older[e] \cap Seeds(CampaignOf[d]) = {}
    BY <1>2, <1>5 DEF MayCarryMedia, FirstOf
  <2>. QED BY <1>3, <2>1, <2>2
<1>. QED BY <1>4, <1>5

(* The tasks of a worker after a step: those of a new batch, or some of    *)
(* those before it.                                                        *)
TasksShrink ==
    \A w \in Workers, d \in Deliveries :
        /\ Busy(w, d)' => Busy(w, d)
        /\ task'[w][d].upload => task[w][d].upload

TasksOfBatch(w) ==
    /\ \E B \in Batches : \A d \in Deliveries :
        /\ Busy(w, d)' => d \in B
        /\ task'[w][d].upload => d \in B /\ media[CampaignOf[d]] = "file"
    /\ \A v \in Workers \ {w} : task'[v] = task[v]

LEMMA TasksMove ==
    ASSUME TypeOK, TaskInv, [Next]_vars
    PROVE  TasksShrink \/ \E w \in Workers : TasksOfBatch(w)
<1>0. task \in [Workers -> [Deliveries -> Task]]
  BY DEF TypeOK
<1>1. ASSUME NEW w \in Workers, ClaimDeliveries(w) PROVE TasksOfBatch(w)
  <2>1. PICK B \in Batches :
           task' = [task EXCEPT ![w] = [d \in Deliveries |->
                       IF d \in B
                       THEN [phase |-> "send", attempt |-> attempts'[d],
                             upload |-> media[CampaignOf[d]] = "file", result |-> "none"]
                       ELSE Idle]]
    BY <1>1 DEF ClaimDeliveries
  <2>2. \A d \in Deliveries :
           /\ d \in B => task'[w][d].upload = (media[CampaignOf[d]] = "file")
           /\ d \notin B => task'[w][d] = Idle
    BY <1>0, <2>1
  <2>3. \A v \in Workers \ {w} : task'[v] = task[v]
    BY <1>0, <2>1
  <2>4. Idle.phase = "idle" /\ Idle.upload = FALSE
    BY DEF Idle
  <2>5. \A d \in Deliveries :
           /\ Busy(w, d)' => d \in B
           /\ task'[w][d].upload => d \in B /\ media[CampaignOf[d]] = "file"
    <3>. SUFFICES ASSUME NEW d \in Deliveries
                  PROVE  /\ Busy(w, d)' => d \in B
                         /\ task'[w][d].upload => d \in B /\ media[CampaignOf[d]] = "file"
      OBVIOUS
    <3>1. CASE d \in B
      BY <2>2, <3>1
    <3>2. CASE d \notin B
      BY <2>2, <2>4, <3>2 DEF Busy
    <3>. QED BY <3>1, <3>2
  <2>. QED BY <2>3, <2>5 DEF TasksOfBatch
<1>2. ASSUME NEW w \in Workers, NEW d \in Deliveries, TaskStep(w, d) \/ PersistenceFails(w, d)
      PROVE  TasksShrink
  <2>1. TaskMove(w, d)
    BY <1>2, TaskMoves
  <2>2. PICK t \in Task : SetTask(w, d, t) /\ (t.upload => task[w][d].upload)
    BY <2>1 DEF TaskMove, Idle
  <2>3. \A v \in Workers, e \in Deliveries :
           task'[v][e] = IF v = w /\ e = d THEN t ELSE task[v][e]
    BY <1>0, <2>2 DEF SetTask
  <2>. QED BY <2>1, <2>2, <2>3 DEF TasksShrink, TaskMove, Busy
<1>3. ASSUME NEW w \in Workers, Crash(w) PROVE TasksShrink
  <2>1. \A v \in Workers, e \in Deliveries :
           task'[v][e] = IF v = w THEN Idle ELSE task[v][e]
    BY <1>0, <1>3 DEF Crash
  <2>. QED BY <2>1 DEF TasksShrink, Busy, Idle
<1>4. ASSUME task' = task PROVE TasksShrink
  BY <1>4 DEF TasksShrink, Busy
<1>5. ASSUME NEW d \in Deliveries, BecomesDue(d) \/ LeaseExpires(d) PROVE task' = task
  BY <1>5 DEF BecomesDue, LeaseExpires
<1>6. ASSUME NEW s \in Subscribers, ThrottleEnds(s) \/ UserStops(s) \/ UserStarts(s)
      PROVE  task' = task
  BY <1>6 DEF ThrottleEnds, UserStops, UserStarts
<1>7. CASE UNCHANGED vars
  BY <1>4, <1>7 DEF vars
<1>. QED BY <1>1, <1>2, <1>3, <1>4, <1>5, <1>6, <1>7 DEF Next

LEMMA TasksInvariant == Spec => [](TypeOK /\ TaskInv /\ OrderInv)
<1>1. TypeOK /\ TypeOK' /\ TaskInv /\ LedgerInv /\ [Next]_vars => TaskInv' /\ LedgerInv'
  BY NextTaskInv
<1>. QED BY <1>1, InitTaskInv, TypeCorrect, Ordered, PTL DEF Spec

(* The messages that a worker has in flight go to different subscribers:   *)
(* the subquery "candidate" of claim_deliveries.                           *)
THEOREM ChatsAreApart == Spec => []OneMessagePerChat
<1>1. Init => OneMessagePerChat
  BY DEF Init, OneMessagePerChat, Busy, Idle
<1>2. ASSUME TypeOK, TaskInv, OrderInv, OneMessagePerChat, [Next]_vars PROVE OneMessagePerChat'
  <2>1. CASE TasksShrink
    BY <1>2, <2>1 DEF TasksShrink, OneMessagePerChat
  <2>2. ASSUME NEW w \in Workers, TasksOfBatch(w) PROVE OneMessagePerChat'
    <3>. SUFFICES ASSUME NEW v \in Workers, NEW d \in Deliveries, NEW e \in Deliveries,
                         Busy(v, d)', Busy(v, e)', SubscriberOf[d] = SubscriberOf[e]
                  PROVE  d = e
      BY DEF OneMessagePerChat
    <3>1. CASE v = w
      BY <1>2, <2>2, <3>1, BatchesAreApart DEF TasksOfBatch
    <3>2. CASE v # w
      BY <1>2, <2>2, <3>2 DEF TasksOfBatch, OneMessagePerChat, Busy
    <3>. QED BY <3>1, <3>2
  <2>. QED BY <1>2, <2>1, <2>2, TasksMove
<1>. QED BY <1>1, <1>2, TasksInvariant, PTL DEF Spec

(* A worker uploads the file of a campaign for one subscriber at a time:   *)
(* the subquery "seed" of claim_deliveries.                                *)
THEOREM UploadsAreApart == Spec => []OneUploadPerCampaign
<1>1. Init => OneUploadPerCampaign
  BY DEF Init, OneUploadPerCampaign, Idle
<1>2. ASSUME TypeOK, TaskInv, OrderInv, OneUploadPerCampaign, [Next]_vars
      PROVE  OneUploadPerCampaign'
  <2>1. CASE TasksShrink
    BY <1>2, <2>1 DEF TasksShrink, OneUploadPerCampaign
  <2>2. ASSUME NEW w \in Workers, TasksOfBatch(w) PROVE OneUploadPerCampaign'
    <3>. SUFFICES ASSUME NEW v \in Workers, NEW d \in Deliveries, NEW e \in Deliveries,
                         task'[v][d].upload, task'[v][e].upload, CampaignOf[d] = CampaignOf[e]
                  PROVE  d = e
      BY DEF OneUploadPerCampaign
    <3>1. CASE v = w
      BY <1>2, <2>2, <3>1, BatchesAreApart DEF TasksOfBatch
    <3>2. CASE v # w
      BY <1>2, <2>2, <3>2 DEF TasksOfBatch, OneUploadPerCampaign
    <3>. QED BY <3>1, <3>2
  <2>. QED BY <1>2, <2>1, <2>2, TasksMove
<1>. QED BY <1>1, <1>2, TasksInvariant, PTL DEF Spec

-----------------------------------------------------------------------------
(* A nonempty set of numbers has a least one.                              *)
LEMMA LeastNumber ==
    ASSUME NEW T \in SUBSET Nat, T # {}
    PROVE  \E m \in T : \A k \in T : ~(k < m)
<1>. DEFINE R == {ss \in Nat \X Nat : ss[1] < ss[2]}
<1>1. IsWellFoundedOn(R, Nat)
  BY NatLessThanWellFounded DEF OpToRel
<1>. HIDE DEF R
<1>2. \E m \in T : \A k \in T : ~(<<k, m>> \in R)
  BY <1>1, WFMin
<1>3. \A k, m \in Nat : k < m => <<k, m>> \in R
  BY DEF R
<1>. QED BY <1>2, <1>3

(* Some row of a set of due rows comes before all the others.              *)
LEMMA FirstExists ==
    ASSUME TypeOK, OrderInv, NEW S \in SUBSET due, S # {}
    PROVE  \E d \in S : older[d] \cap S = {}
<1>1. IsFiniteSet(S)
  BY ConstantsAssumption, FS_Subset DEF TypeOK
<1>. DEFINE before(d) == older[d] \cap S
            sizes == {Cardinality(before(d)) : d \in S}
<1>2. \A d \in S : IsFiniteSet(before(d)) /\ Cardinality(before(d)) \in Nat
  BY <1>1, FS_Subset, FS_CardinalityType
<1>3. sizes \in SUBSET Nat /\ sizes # {}
  BY <1>2
<1>4. PICK m \in sizes : \A k \in sizes : ~(k < m)
  BY <1>3, LeastNumber
<1>5. PICK d \in S : m = Cardinality(before(d))
  BY <1>4
<1>6. before(d) = {}
  <2>. SUFFICES ASSUME NEW e \in before(d) PROVE FALSE
    OBVIOUS
  <2>1. e \in S /\ e \in due /\ d \in due /\ e \in older[d]
    OBVIOUS
  <2>2. before(e) \subseteq before(d) /\ e \notin before(e)
    BY <2>1 DEF OrderInv
  <2>3. before(e) # before(d)
    BY <2>2
  <2>4. Cardinality(before(e)) < Cardinality(before(d))
    <3>. DEFINE X == before(e)  Y == before(d)
    <3>1. X \subseteq Y /\ X # Y /\ IsFiniteSet(Y)
      BY <1>2, <2>2, <2>3
    <3>. HIDE DEF X, Y
    <3>2. Cardinality(X) <= Cardinality(Y) /\ (Cardinality(X) = Cardinality(Y) => X = Y)
      BY <3>1, FS_Subset
    <3>3. Cardinality(X) \in Nat /\ Cardinality(Y) \in Nat
      BY <3>1, FS_Subset, FS_CardinalityType
    <3>4. Cardinality(X) < Cardinality(Y)
      BY <3>1, <3>2, <3>3
    <3>. QED BY <3>4 DEF X, Y
  <2>5. Cardinality(before(e)) \in sizes
    BY <2>1
  <2>. QED BY <1>4, <1>5, <2>4, <2>5
<1>. QED BY <1>6

(* The two subqueries never block the queue: if a row may be sent now, the *)
(* first one of them all passes both.                                      *)
THEOREM ClaimsProgress == Spec => []ClaimProgress
<1>1. ASSUME TypeOK, OrderInv PROVE ClaimProgress
  <2>. SUFFICES ASSUME \E d \in Eligible : SubscriberOf[d] \notin throttled
                PROVE  Claimable # {}
    BY DEF ClaimProgress
  <2>. DEFINE Sendable == {d \in Eligible : SubscriberOf[d] \notin throttled}
  <2>1. Sendable \in SUBSET due /\ Sendable # {}
    BY DEF Eligible
  <2>. HIDE DEF Sendable
  <2>2. PICK d \in Sendable : older[d] \cap Sendable = {}
    BY <1>1, <2>1, FirstExists
  <2>3. d \in Eligible /\ SubscriberOf[d] \notin throttled
    BY DEF Sendable
  <2>4. IsCandidate(d)
    BY <2>2, <2>3 DEF Sendable, IsCandidate, FirstOf
  <2>5. MayCarryMedia(d)
    BY <2>2 DEF Sendable, MayCarryMedia, Seeds, FirstOf
  <2>. QED BY <2>3, <2>4, <2>5 DEF Claimable
<1>. QED BY <1>1, TasksInvariant, PTL

-----------------------------------------------------------------------------
(* A campaign keeps its telegram_file_id: the conditions of the UPDATEs in *)
(* complete_delivery and drop_portal_campaign_attachment.                  *)
THEOREM FilesAreKept == Spec => UploadedFileKept
<1>. DEFINE Kept == \A c \in Campaigns : media[c] = "uploaded" => media'[c] = "uploaded"
<1>1. ASSUME TypeOK, [Next]_vars PROVE Kept
  <2>0. media \in [Campaigns -> {"text", "file", "uploaded"}]
    BY <1>1 DEF TypeOK
  <2>1. ASSUME NEW w \in Workers, NEW d \in Deliveries, DropAttachment(w, d) PROVE Kept
    BY <2>0, <2>1 DEF MayLackFile, DropAttachment, WithoutFile
  <2>2. ASSUME NEW w \in Workers, NEW d \in Deliveries, CompleteDelivery(w, d) PROVE Kept
    BY <2>0, <2>2 DEF CompleteDelivery
  <2>3. CASE media' = media
    BY <2>3
  <2>4. ASSUME NEW w \in Workers, NEW d \in Deliveries,
               \/ DownloadFails(w, d) \/ TelegramAccepts(w, d) \/ TelegramRefuses(w, d)
               \/ EnsureDeliveryLease(w, d) \/ PersistenceFails(w, d)
               \/ RetryDelivery(w, d) \/ FailDelivery(w, d) \/ MigrateDeliveryChat(w, d)
        PROVE  media' = media
    BY <2>4 DEF MayLackFile, DownloadFails, TelegramAccepts, TelegramRefuses, EnsureDeliveryLease,
                PersistenceFails, RetryDelivery, FailDelivery, MigrateDeliveryChat
  <2>5. ASSUME NEW w \in Workers, ClaimDeliveries(w) \/ Crash(w) PROVE media' = media
    BY <2>5 DEF ClaimDeliveries, Crash
  <2>6. ASSUME \/ \E d \in Deliveries : BecomesDue(d) \/ LeaseExpires(d)
               \/ \E s \in Subscribers : ThrottleEnds(s) \/ UserStops(s) \/ UserStarts(s)
               \/ UNCHANGED vars
        PROVE  media' = media
    BY <2>6 DEF BecomesDue, LeaseExpires, ThrottleEnds, UserStops, UserStarts, vars
  <2>. QED BY <1>1, <2>1, <2>2, <2>3, <2>4, <2>5, <2>6 DEF Next, TaskStep, Answer, Update
<1>2. ASSUME TypeOK, [Next]_vars PROVE [Kept]_vars
  BY <1>1, <1>2
<1>. HIDE DEF Kept
<1>3. Spec => [][Kept]_vars
  BY <1>2, TypeCorrect, PTL DEF Spec
<1>. QED BY <1>3 DEF UploadedFileKept, Kept
=============================================================================
