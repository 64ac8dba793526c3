----------------------------- MODULE EdgeInbox -----------------------------
(***************************************************************************)
(* The table edge_inbox_events and its readers, the notification workers   *)
(* (notification_worker: run, run_payos_payment_cycle,                     *)
(* run_edge_interaction_cycle; storage: pending_*_edge_events, complete_,  *)
(* reject_, fail_edge_event), and the donations they record                *)
(* (create_donation_intent ... record_donation_payment).                   *)
(*                                                                         *)
(* A worker reads its events under worker_leases, which is taken for a     *)
(* cycle and not renewed within it: a cycle that takes too long overlaps   *)
(* with the next worker's.  The rows themselves are not leased.  How       *)
(* events get into the table is the matter of EdgeQueue; here an import    *)
(* is one step, with any events, in any order, a second time too once the  *)
(* row was deleted.                                                        *)
(***************************************************************************)
EXTENDS EdgeEvents, DueOrder

CONSTANTS
    Aggregates,      \* aggregate_key
    AggregateOf,
    Malformed,       \* events whose payload does not parse
    Mismatched,      \* payments of another amount than the intent's
    Workers, NoWorker,
    PaymentLimit,    \* 10 in run_payos_payment_cycle
    ParseLimit,      \* 3: attempts at an event that cannot be handled
    SendLimit,       \* 5: attempts at a message that Telegram does not take
    MaxDeletions     \* bound: how many rows retention deletes

ASSUME InboxAssumption ==
    /\ AggregateOf \in [Events -> Aggregates]
    /\ Malformed \in SUBSET Events
    /\ Mismatched \in SUBSET Payments
    /\ NoWorker \notin Workers
    /\ PaymentLimit \in Nat \ {0}
    /\ ParseLimit \in Nat \ {0}
    /\ SendLimit \in Nat \ {0}
    /\ MaxDeletions \in Nat

Orders == {AggregateOf[p] : p \in Payments}

VARIABLES
    inboxState,    \* "absent", "open", "processed" or "dead" (dead_lettered_at)
    attempts,      \* edge_inbox_events.attempts
    due,           \* open events whose available_at has passed
    older,         \* the order (imported_at, sequence) of the open events
    deletions,     \* history: rows deleted so far, bounded by MaxDeletions
    holder,        \* worker_leases.owner; NoWorker: no lease, or an expired one
    work,          \* the workers
    begun,         \* history: updates that a worker has read
    begunFirst,    \* history: updates begunFirst[u] were read before u was imported
    answered,      \* history: updates whose reply Telegram took or refused
    intent,        \* donation_intents.status
    transactions,  \* donation_transactions
    counted        \* product_events donation_paid, per payment

workerVars == <<holder, work, begun, begunFirst, answered>>
donationVars == <<intent, transactions, counted>>
rowVars == <<inboxState, attempts, due, older, deletions>>
inboxVars == <<rowVars, workerVars, donationVars, faults>>

-----------------------------------------------------------------------------
Work == [phase : {"idle", "payments", "confirm", "reply", "replied"},
         list : SUBSET Payments, event : SUBSET Events]

OpenEvents == {e \in Events : inboxState[e] = "open"}
Closed(e) == inboxState[e] \in {"processed", "dead"}

At(phase, list, event) == [phase |-> phase, list |-> list, event |-> event]
NoWork == At("idle", {}, {})

InboxTypeOK ==
    /\ inboxState \in [Events -> {"absent", "open", "processed", "dead"}]
    /\ attempts \in [Events -> Nat]
    /\ due \in SUBSET OpenEvents
    /\ older \in [Events -> SUBSET Events]
    /\ deletions \in 0 .. MaxDeletions
    /\ holder \in Workers \cup {NoWorker}
    /\ work \in [Workers -> Work]
    /\ begun \in SUBSET Updates
    /\ begunFirst \in [Updates -> SUBSET Updates]
    /\ answered \in SUBSET Updates
    /\ intent \in [Orders -> {"none", "creating", "pending", "paid", "failed"}]
    /\ transactions \in SUBSET Payments
    /\ counted \in [Payments -> Nat]
    /\ faults \in 0 .. MaxFaults

InboxInit ==
    /\ inboxState = [e \in Events |-> "absent"]
    /\ attempts = [e \in Events |-> 0]
    /\ deletions = 0
    /\ older = [e \in Events |-> {}]
    /\ due = {} /\ faults = 0
    /\ holder = NoWorker
    /\ work = [w \in Workers |-> NoWork]
    /\ begun = {} /\ answered = {} /\ transactions = {}
    /\ begunFirst = [u \in Updates |-> {}]
    /\ intent = [o \in Orders |-> "none"]
    /\ counted = [p \in Payments |-> 0]

SetWork(w, s) == work' = [work EXCEPT ![w] = s]

-----------------------------------------------------------------------------
(* /donate: create_donation_intent, then payOS is asked for a link, then   *)
(* mark_donation_intent_pending or _failed.  The process may die between:  *)
(* the intent stays "creating".                                            *)
MoveIntent(o, from, to) ==
    /\ intent[o] = from
    /\ intent' = [intent EXCEPT ![o] = to]
    /\ UNCHANGED <<rowVars, workerVars, transactions, counted, faults>>

CreateDonationIntent(o) == MoveIntent(o, "none", "creating")
MarkIntentPending(o) == MoveIntent(o, "creating", "pending")
MarkIntentFailed(o) == MoveIntent(o, "creating", "failed")

(* The reconciler imports the events B (EdgeQueue).  A payment needs the   *)
(* link, which the user sees once it is stored.                            *)
EventsArrive(B) ==
    /\ \A e \in B : inboxState[e] = "absent"
    /\ \A p \in B \cap Payments : intent[AggregateOf[p]] \in {"pending", "paid"}
    /\ inboxState' = [e \in Events |-> IF e \in B THEN "open" ELSE inboxState[e]]
    /\ attempts' = [e \in Events |-> IF e \in B THEN 0 ELSE attempts[e]]
    /\ due' = due \cup B
    /\ older' = [e \in Events |->
                    IF e \in B
                    THEN OpenEvents \cup {x \in B : SequenceOf[x] < SequenceOf[e]}
                    ELSE older[e]]
    /\ begunFirst' = [u \in Updates |-> IF u \in B THEN begun ELSE begunFirst[u]]
    /\ UNCHANGED <<deletions, holder, work, begun, answered, donationVars, faults>>

(* apply_edge_inbox_retention; no cycle of a worker lasts a month.         *)
DeleteOld(e) ==
    /\ Closed(e)
    /\ \A w \in Workers : work[w].phase = "idle"
    /\ deletions < MaxDeletions
    /\ deletions' = deletions + 1
    /\ inboxState' = [inboxState EXCEPT ![e] = "absent"]
    /\ UNCHANGED <<attempts, due, older, workerVars, donationVars, faults>>

-----------------------------------------------------------------------------
Earlier(x, e) == AggregateOf[x] = AggregateOf[e] /\ SequenceOf[x] < SequenceOf[e]

(* Variant: an earlier event in its backoff does not hold up the later.    *)
NextOfDue(T, e) == ~\E x \in T : x \in due /\ Earlier(x, e)

(* NOT EXISTS: no earlier event of the aggregate is open, due or not.      *)
IsNext(T, e) == ~\E x \in T : inboxState[x] = "open" /\ Earlier(x, e)

(* pending_telegram_edge_events, pending_payos_edge_events.                *)
Pending(T) == {e \in T : e \in due /\ IsNext(T, e)}

Batches(T, limit) == IF Pending(T) = {} THEN {{}} ELSE Oldest(older, Pending(T), limit)

(* acquire_worker_lease, then run_payos_payment_cycle reads its events.    *)
StartCycle(w) ==
    /\ work[w].phase = "idle"
    /\ holder \in {NoWorker, w}
    /\ holder' = w
    /\ \E B \in Batches(Payments, PaymentLimit) :
           SetWork(w, At("payments", B, {}))
    /\ UNCHANGED <<rowVars, faults, begun, begunFirst, answered, donationVars>>

CountsAgain(p) == 1   \* variant: the event is written whether or not the row is new

(* INSERT ... ON CONFLICT (reference) DO NOTHING; the donation_paid event  *)
(* goes with the row.                                                      *)
CountsAs(p) == IF p \in transactions THEN 0 ELSE 1

(* The intent has the amount and the link that the payment names.          *)
Matches(p) == p \notin Mismatched /\ intent[AggregateOf[p]] \in {"pending", "paid"}

(* WHERE status IN ('creating', 'pending').                                *)
MayBePaid(o) == intent[o] \in {"creating", "pending"}

(* record_donation_payment, one transaction.                               *)
RecordPayment(w, p) ==
    LET o == AggregateOf[p] IN
    /\ work[w].phase = "payments"
    /\ p \in work[w].list \ Malformed
    /\ Matches(p)
    /\ SetWork(w, At("confirm", work[w].list \ {p}, {p}))
    /\ transactions' = transactions \cup {p}
    /\ counted' = [counted EXCEPT ![p] = @ + CountsAs(p)]
    /\ intent' = IF MayBePaid(o) THEN [intent EXCEPT ![o] = "paid"] ELSE intent
    /\ UNCHANGED <<rowVars, faults, holder, begun, begunFirst, answered>>

-----------------------------------------------------------------------------
(* run_edge_interaction_cycle, after the payments: one update at a time.   *)
ReadUpdate(w) ==
    /\ work[w].phase = "payments"
    /\ work[w].list = {}
    /\ \E B \in Batches(Updates, 1) :
        /\ SetWork(w, IF B = {} THEN NoWork ELSE At("reply", {}, B))
        /\ begun' = begun \cup B
    /\ UNCHANGED <<rowVars, faults, holder, begunFirst, answered, donationVars>>

(* process_interaction_updates: the command is carried out, and its reply  *)
(* sent: Telegram takes it or refuses it for good.                         *)
ReplySent(w) ==
    /\ work[w].phase = "reply"
    /\ work[w].event \cap Malformed = {}
    /\ answered' = answered \cup work[w].event
    /\ SetWork(w, At("replied", {}, work[w].event))
    /\ UNCHANGED <<rowVars, faults, holder, begun, begunFirst, donationVars>>

-----------------------------------------------------------------------------
(* WHERE event_id = $1 AND processed_at IS NULL: exactly one row must be   *)
(* changed.                                                                *)
StillPending(e) == inboxState[e] = "open"

(* Variant: the row stays among those the query finds.                     *)
SettleVisibly(e, state) ==
    /\ inboxState' = [inboxState EXCEPT ![e] = state]
    /\ older' = Leave(older, e)
    /\ UNCHANGED due

(* processed_at (and dead_lettered_at) are set.                            *)
Settle(e, state) ==
    /\ inboxState' = [inboxState EXCEPT ![e] = state]
    /\ due' = due \ {e}
    /\ older' = Leave(older, e)

(* An update is the last event of its cycle.                               *)
Continue(w, e) ==
    SetWork(w, IF e \in Updates THEN NoWork ELSE At("payments", work[w].list \ {e}, {}))

(* How the handling of the event e may end, and the call that says so.     *)
Listed(w, e) == work[w].phase = "payments" /\ e \in work[w].list
AtWork(w, e, phases) == work[w].phase \in phases /\ e \in work[w].event

(* The payload does not parse, or the reply is out and then the database   *)
(* fails.                                                                  *)
Unhandled(w, e) == \/ e \in Malformed /\ (Listed(w, e) \/ AtWork(w, e, {"reply"}))
                   \/ AtWork(w, e, {"replied"})

(* Telegram asks to wait or does not answer.                               *)
Unsent(w, e) == AtWork(w, e, {"confirm"}) \/ (e \notin Malformed /\ AtWork(w, e, {"reply"}))

(* The message is out, or refused for good.                                *)
Sent(w, e) == AtWork(w, e, {"confirm", "replied"})

(* record_donation_payment returns an error.                               *)
Refused(w, e) == Listed(w, e) /\ e \notin Malformed /\ ~Matches(e)
DatabaseFails(w, e) == Listed(w, e) /\ e \notin Malformed /\ Fault

(* complete_edge_event.                                                    *)
CompleteEvent(w, e) ==
    /\ Sent(w, e) /\ StillPending(e)
    /\ Settle(e, "processed")
    /\ UNCHANGED <<attempts, faults>>

(* reject_edge_event: processed, with the reason in last_error.            *)
RejectEvent(w, e) ==
    /\ (Refused(w, e) /\ UNCHANGED faults) \/ DatabaseFails(w, e)
    /\ StillPending(e)
    /\ Settle(e, "processed")
    /\ UNCHANGED attempts

Uncounted(e) == attempts   \* variant: the failure is not counted

(* attempts = attempts + 1.                                                *)
Counted(e) == [attempts EXCEPT ![e] = @ + 1]

(* fail_edge_event: a later attempt, or dead_lettered_at.                  *)
FailEvent(e, limit) ==
    /\ StillPending(e)
    /\ attempts' = Counted(e)
    /\ IF attempts[e] + 1 >= limit
       THEN Settle(e, "dead")
       ELSE /\ due' = due \ {e}
            /\ inboxState' = [inboxState EXCEPT ![e] = "open"]
            /\ UNCHANGED older
    /\ UNCHANGED faults

SettleEvent(w, e) ==
    /\ \/ CompleteEvent(w, e)
       \/ RejectEvent(w, e)
       \/ Unhandled(w, e) /\ FailEvent(e, ParseLimit)
       \/ Unsent(w, e) /\ FailEvent(e, SendLimit)
    /\ Continue(w, e)
    /\ UNCHANGED <<deletions, holder, begun, begunFirst, answered, donationVars>>

(* "edge event was not pending": the error ends the cycle and the process, *)
(* which gives its lease back (release_worker_lease).                      *)
NotPending(w, e) ==
    /\ Sent(w, e) \/ Unhandled(w, e) \/ Unsent(w, e) \/ Refused(w, e)
    /\ ~StillPending(e)
    /\ SetWork(w, NoWork)
    /\ holder' = IF holder = w THEN NoWorker ELSE holder
    /\ UNCHANGED <<rowVars, faults, begun, begunFirst, answered, donationVars>>

(* The process dies, or the cycle ends with an error (an invalid token     *)
(* while a payment is confirmed, the database).                            *)
WorkerDies(w) ==
    /\ work[w].phase # "idle"
    /\ Fault
    /\ SetWork(w, NoWork)
    /\ holder' \in {holder, IF holder = w THEN NoWorker ELSE holder}
    /\ UNCHANGED <<rowVars, begun, begunFirst, answered, donationVars>>

WorkerLeaseEnds ==
    /\ holder # NoWorker
    /\ IF work[holder].phase = "idle" THEN UNCHANGED faults ELSE Fault
    /\ holder' = NoWorker
    /\ UNCHANGED <<rowVars, work, begun, begunFirst, answered, donationVars>>

(* available_at <= CURRENT_TIMESTAMP.                                      *)
EventBecomesDue(e) ==
    /\ e \in OpenEvents \ due
    /\ due' = due \cup {e}
    /\ UNCHANGED <<inboxState, attempts, older, deletions, workerVars, donationVars, faults>>

WorkerStep(w) ==
    \/ \E p \in Payments : RecordPayment(w, p)
    \/ ReadUpdate(w)
    \/ ReplySent(w)
    \/ \E e \in Events : SettleEvent(w, e) \/ NotPending(w, e)

InboxNext ==
    \/ \E B \in (SUBSET Events) \ {{}} : EventsArrive(B)
    \/ \E e \in Events : DeleteOld(e) \/ EventBecomesDue(e)
    \/ \E o \in Orders : \/ CreateDonationIntent(o)
                         \/ MarkIntentPending(o)
                         \/ MarkIntentFailed(o)
    \/ \E w \in Workers : StartCycle(w) \/ WorkerStep(w) \/ WorkerDies(w)
    \/ WorkerLeaseEnds

InboxSpec == InboxInit /\ [][InboxNext]_inboxVars

(***************************************************************************)
(* Fairness: a worker that ends is started again and loops for ever; every *)
(* call in it has a timeout; delays pass.  Strong fairness for a cycle's   *)
(* start, which is not possible while another worker has the lease.        *)
(* Nothing is assumed of users, payOS, or Telegram's answers.              *)
(***************************************************************************)
InboxFairness ==
    /\ \A e \in Events : WF_inboxVars(EventBecomesDue(e))
    /\ \A w \in Workers : WF_inboxVars(WorkerStep(w))
    /\ SF_inboxVars(\E w \in Workers : StartCycle(w))

InboxFairSpec == InboxSpec /\ InboxFairness

-----------------------------------------------------------------------------
(* Updates of one chat are handled in the order of their update_id: while  *)
(* an update is open, be it in its backoff, no later one of the chat has   *)
(* been read, unless that was before the earlier one arrived (D1 does not  *)
(* order its events by chat).  About pending_telegram_edge_events.         *)
ChatOrder ==
    \A x, e \in Updates :
        (Earlier(x, e) /\ inboxState[x] = "open" /\ e \in begun) => e \in begunFirst[x]

(* A payment is counted once, however often its event is handled, and an   *)
(* intent is paid exactly if one of its payments is recorded.  About       *)
(* record_donation_payment.                                                *)
LedgerAgrees ==
    /\ \A p \in Payments : counted[p] = IF p \in transactions THEN 1 ELSE 0
    /\ \A o \in Orders :
        intent[o] = "paid" <=> \E p \in transactions : AggregateOf[p] = o

(* A processed update was answered; a payment that ends as a dead letter   *)
(* is recorded, only its confirmation is missing (or it never parsed).     *)
OutcomesAreEarned ==
    /\ \A u \in Updates : inboxState[u] = "processed" => u \in answered
    /\ \A p \in Payments \ Malformed : inboxState[p] = "dead" => p \in transactions

(* What one worker has settled, a slower one does not settle again: a      *)
(* closed event stays as it is until it is deleted.  About the row counts  *)
(* that complete_edge_event, reject_edge_event and fail_edge_event check.  *)
ClosedForGood ==
    [][\A e \in Events : Closed(e) => inboxState'[e] \in {inboxState[e], "absent"}]_inboxVars

(* What the workers do to edge_inbox_events is what EdgeQueue takes for    *)
(* granted: an open event is closed, once, and nothing else happens to it. *)
RowTable == INSTANCE InboxTable WITH
    table <- [e \in Events |-> IF Closed(e) THEN "closed" ELSE inboxState[e]]

WorkersKeepTable == RowTable!Spec

(* Every event in the inbox is closed in the end: one that fails again and *)
(* again holds up the later ones of its chat, and the others not at all.   *)
EveryEventSettles == \A e \in Events : inboxState[e] = "open" ~> Closed(e)

(* Claim of README.md ("so that no event is lost while the main server is  *)
(* interrupted"): a payment of an intent's amount is recorded once its     *)
(* event is closed.  It does not hold: run_payos_payment_cycle rejects the *)
(* event after any error of record_donation_payment, the database's own    *)
(* included.                                                               *)
PaymentsAreKept ==
    \A p \in Payments \ (Malformed \cup Mismatched) : Closed(p) => p \in transactions

(* What holds instead: every payment lost in this way costs a failure of   *)
(* the database of its own.  Neither a worker that overtakes another, nor  *)
(* a refused confirmation, nor an order paid twice loses one.              *)
LostPayments ==
    {p \in Payments \ (Malformed \cup Mismatched) : Closed(p) /\ p \notin transactions}

LossesAreFaults == Cardinality(LostPayments) <= faults
=============================================================================
