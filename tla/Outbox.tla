-------------------------------- MODULE Outbox --------------------------------
(***************************************************************************)
(* The transactional outbox and the workers that drain it (crates/storage: *)
(* persist_post's event, claim_classification_events,                      *)
(* claim_notification_events, complete_classification, plan_notification,  *)
(* fail_classification_event, defer_notification_event_for_ai;             *)
(* apps/core-agent: process_event and plan_event).                         *)
(*                                                                         *)
(* The event of a post is classified; the transaction that stores the      *)
(* classification also inserts the classification.completed event, which   *)
(* is then planned.  An event is claimed under a lease; its effect and its *)
(* processed_at commit together or not at all.                             *)
(***************************************************************************)
EXTENDS Integers, FiniteSets, DueOrder

CONSTANTS
    PostEvents,         \* facebook_post.discovered and facebook_post.updated
    CompletedEvents,    \* classification.completed
    CompletionOf,       \* the completed event of a post event's classification
    Classifiers, Planners, Owners,
    NoOwner,            \* lease_owner IS NULL
    OwnerOf,            \* uth-classifier-{pid}, uth-notify-{pid}
    MaxAttempts,        \* --max-attempts
    ClaimLimit,         \* --concurrency, --plan-batch-size
    MaxFaults           \* bound on the faults of a behaviour

Events == PostEvents \cup CompletedEvents
Workers == Classifiers \cup Planners

ASSUME ConstantsAssumption ==
    /\ IsFiniteSet(Events)
    /\ PostEvents \cap CompletedEvents = {}
    /\ CompletionOf \in [PostEvents -> CompletedEvents]
    /\ Classifiers \cap Planners = {}
    /\ OwnerOf \in [Workers -> Owners]
    /\ NoOwner \notin Owners
    /\ MaxAttempts \in Nat \ {0}
    /\ ClaimLimit \in Nat \ {0}
    /\ MaxFaults \in Nat

VARIABLES
    stored,       \* events that have a row in outbox_events
    processed,    \* processed_at IS NOT NULL
    dead,         \* events that have a row in dead_letters
    attempts,     \* outbox_events.attempts
    lease,        \* lease_expires_at: NULL, in the future, or in the past
    leaseOwner,   \* outbox_events.lease_owner
    due,          \* unprocessed events whose available_at has passed
    older,        \* the order of due, see DueOrder
    task,         \* task[w][e]: worker w's work on event e
    effects,      \* history: how often the effect of an event was committed
    faults        \* history: faults so far, bounded by MaxFaults

rowVars == <<attempts, lease, leaseOwner, due, older>>
vars == <<stored, processed, dead, rowVars, task, effects, faults>>

-----------------------------------------------------------------------------
Task == [phase : {"idle", "work", "commit", "failing", "release", "deferring"},
         attempt : Nat]

Idle == [phase |-> "idle", attempt |-> 0]

Busy(w, e) == task[w][e].phase # "idle"

TypeOK ==
    /\ stored \in SUBSET Events
    /\ processed \in SUBSET stored
    /\ dead \in SUBSET processed
    /\ attempts \in [Events -> Nat]
    /\ lease \in [Events -> {"none", "live", "expired"}]
    /\ leaseOwner \in [Events -> Owners \cup {NoOwner}]
    /\ \A e \in Events : /\ lease[e] = "none" <=> leaseOwner[e] = NoOwner
                         /\ lease[e] # "none" => e \in stored \ processed
    /\ due \in SUBSET (stored \ processed)
    /\ older \in [Events -> SUBSET Events]
    /\ task \in [Workers -> [Events -> Task]]
    /\ effects \in [Events -> Nat]
    /\ faults \in Nat

Init ==
    /\ stored = {} /\ processed = {} /\ dead = {}
    /\ attempts = [e \in Events |-> 0]
    /\ lease = [e \in Events |-> "none"]
    /\ leaseOwner = [e \in Events |-> NoOwner]
    /\ due = {}
    /\ older = [e \in Events |-> {}]
    /\ task = [w \in Workers |-> [e \in Events |-> Idle]]
    /\ effects = [e \in Events |-> 0]
    /\ faults = 0

Fault == /\ faults < MaxFaults
         /\ faults' = faults + 1

SetTask(w, e, t) == task' = [task EXCEPT ![w][e] = t]

Enter(w, e, phase) == SetTask(w, e, [phase |-> phase, attempt |-> task[w][e].attempt])

-----------------------------------------------------------------------------
(* persist_post stores an event together with the post.                    *)
PersistPost(e) ==
    /\ e \notin stored
    /\ stored' = stored \cup {e}
    /\ UNCHANGED <<processed, dead, rowVars, task, effects, faults>>

(* A worker looks for its own types of event.                              *)
EventsOf(w) == IF w \in Classifiers THEN PostEvents ELSE CompletedEvents

UnleasedOf(w) == {e \in due : e \in EventsOf(w) /\ lease[e] = "none"}   \* variant

ClaimableOf(w) == {e \in due : e \in EventsOf(w) /\ lease[e] # "live"}

(* claim_classification_events, claim_notification_events.                 *)
ClaimEvents(w) ==
    /\ \A e \in Events : ~Busy(w, e)
    /\ \E B \in Oldest(older, ClaimableOf(w), ClaimLimit) :
        /\ attempts' = [e \in Events |-> IF e \in B THEN attempts[e] + 1 ELSE attempts[e]]
        /\ lease' = [e \in Events |-> IF e \in B THEN "live" ELSE lease[e]]
        /\ leaseOwner' = [e \in Events |-> IF e \in B THEN OwnerOf[w] ELSE leaseOwner[e]]
        /\ task' = [task EXCEPT ![w] = [e \in Events |->
                       IF e \in B THEN [phase |-> "work", attempt |-> attempts'[e]] ELSE Idle]]
    /\ UNCHANGED <<stored, processed, dead, due, older, effects, faults>>

-----------------------------------------------------------------------------
(* ensure_outbox_lease: a plain SELECT that locks nothing.                 *)
HasLease(w, e) == /\ lease[e] = "live" /\ leaseOwner[e] = OwnerOf[w]
                  /\ e \notin processed

AnyRow(w, e) == TRUE   \* variant: the UPDATE's row count is not checked

(* WHERE lease_owner = $2 AND processed_at IS NULL: exactly one row must   *)
(* be changed, or the transaction rolls back.                              *)
OwnsOpenRow(w, e) == leaseOwner[e] = OwnerOf[w] /\ e \notin processed

(* Variant: lease_owner stays.                                             *)
ExpireLease(e) == lease' = [lease EXCEPT ![e] = "none"] /\ UNCHANGED leaseOwner

ReleaseLease(e) == /\ lease' = [lease EXCEPT ![e] = "none"]
                   /\ leaseOwner' = [leaseOwner EXCEPT ![e] = NoOwner]

(* The event leaves the due rows, processed or with a later available_at.  *)
LeaveQueue(e) == /\ due' = due \ {e}
                 /\ older' = Leave(older, e)

(* mark_outbox_processed.                                                  *)
MarkProcessed(e) == /\ processed' = processed \cup {e}
                    /\ ReleaseLease(e)
                    /\ LeaveQueue(e)
                    /\ UNCHANGED attempts

(* INSERT ... ON CONFLICT (event_key) DO NOTHING.                          *)
StoredAfter(e) == IF e \in PostEvents THEN stored \cup {CompletionOf[e]} ELSE stored

(* complete_classification or plan_notification begins; a lease that is    *)
(* gone is an error like any other.                                        *)
BeginEffect(w, e) ==
    /\ task[w][e].phase = "work"
    /\ Enter(w, e, IF HasLease(w, e) THEN "commit" ELSE "failing")
    /\ UNCHANGED <<stored, processed, dead, rowVars, effects, faults>>

(* The payload cannot be classified or planned.                            *)
WorkFails(w, e) ==
    /\ task[w][e].phase = "work"
    /\ Enter(w, e, "failing")
    /\ UNCHANGED <<stored, processed, dead, rowVars, effects, faults>>

(* Gemini cannot be asked about a manual review.  Deferred without limit,  *)
(* hence counted.                                                          *)
ReviewUnavailable(w, e) ==
    /\ e \in CompletedEvents
    /\ task[w][e].phase = "work"
    /\ Fault
    /\ Enter(w, e, "deferring")
    /\ UNCHANGED <<stored, processed, dead, rowVars, effects>>

(* The effect, its follow-up event and processed_at commit, or all roll    *)
(* back and the worker reports the failure.                                *)
CommitEffect(w, e) ==
    /\ task[w][e].phase = "commit"
    /\ IF OwnsOpenRow(w, e)
       THEN /\ effects' = [effects EXCEPT ![e] = @ + 1]
            /\ stored' = StoredAfter(e)
            /\ MarkProcessed(e)
            /\ SetTask(w, e, Idle)
       ELSE /\ Enter(w, e, "failing")
            /\ UNCHANGED <<effects, stored, processed, rowVars>>
    /\ UNCHANGED <<dead, faults>>

(* fail_classification_event begins.                                       *)
BeginFailure(w, e) ==
    /\ task[w][e].phase = "failing"
    /\ IF HasLease(w, e) THEN Enter(w, e, "release") ELSE SetTask(w, e, Idle)
    /\ UNCHANGED <<stored, processed, dead, rowVars, effects, faults>>

Exhausted(w, e) == task[w][e].attempt >= MaxAttempts

(* The last attempt leaves a dead letter, an earlier one a later           *)
(* available_at.                                                           *)
CommitFailure(w, e) ==
    /\ task[w][e].phase = "release"
    /\ IF OwnsOpenRow(w, e)
       THEN IF Exhausted(w, e)
            THEN MarkProcessed(e) /\ dead' = dead \cup {e}
            ELSE ReleaseLease(e) /\ LeaveQueue(e) /\ UNCHANGED <<attempts, processed, dead>>
       ELSE UNCHANGED <<processed, dead, rowVars>>
    /\ SetTask(w, e, Idle)
    /\ UNCHANGED <<stored, effects, faults>>

(* defer_notification_event_for_ai does not look at the lease's age.       *)
Defer(w, e) ==
    /\ task[w][e].phase = "deferring"
    /\ IF OwnsOpenRow(w, e)
       THEN ReleaseLease(e) /\ LeaveQueue(e) /\ UNCHANGED attempts
       ELSE UNCHANGED rowVars
    /\ SetTask(w, e, Idle)
    /\ UNCHANGED <<stored, processed, dead, effects, faults>>

(* The database refuses the transaction.  A failed effect is reported, a   *)
(* failed report is not.                                                   *)
TransactionFails(w, e) ==
    /\ \/ task[w][e].phase = "commit" /\ Enter(w, e, "failing")
       \/ task[w][e].phase \in {"release", "deferring"} /\ SetTask(w, e, Idle)
    /\ Fault
    /\ UNCHANGED <<stored, processed, dead, rowVars, effects>>

(* The process dies with all its tasks and is restarted.                   *)
Crash(w) ==
    /\ \E e \in Events : Busy(w, e)
    /\ Fault
    /\ task' = [task EXCEPT ![w] = [e \in Events |-> Idle]]
    /\ UNCHANGED <<stored, processed, dead, rowVars, effects>>

-----------------------------------------------------------------------------
BecomesDue(e) ==
    /\ e \in stored \ (processed \cup due)
    /\ due' = due \cup {e}
    /\ older' = Arrive(older, due, e)
    /\ UNCHANGED <<stored, processed, dead, attempts, lease, leaseOwner, task, effects, faults>>

Holds(w, e) == /\ Busy(w, e)
               /\ task[w][e].attempt = attempts[e]
               /\ leaseOwner[e] = OwnerOf[w]

(* A lease that expires under a task still at work counts as a fault.      *)
LeaseExpires(e) ==
    /\ lease[e] = "live"
    /\ lease' = [lease EXCEPT ![e] = "expired"]
    /\ IF \E w \in Workers : Holds(w, e) THEN Fault ELSE UNCHANGED faults
    /\ UNCHANGED <<stored, processed, dead, attempts, leaseOwner, due, older, task, effects>>

TaskStep(w, e) == \/ BeginEffect(w, e)
                  \/ WorkFails(w, e)
                  \/ CommitEffect(w, e)
                  \/ BeginFailure(w, e)
                  \/ CommitFailure(w, e)
                  \/ Defer(w, e)

Next ==
    \/ \E w \in Workers : ClaimEvents(w) \/ Crash(w)
    \/ \E w \in Workers, e \in Events :
          TaskStep(w, e) \/ ReviewUnavailable(w, e) \/ TransactionFails(w, e)
    \/ \E e \in Events : BecomesDue(e) \/ LeaseExpires(e)
    \/ \E e \in PostEvents : PersistPost(e)

Spec == Init /\ [][Next]_vars

(* Workers poll, their tasks end, time passes.                             *)
Fairness ==
    /\ \A w \in Workers : WF_vars(ClaimEvents(w))
    /\ \A w \in Workers, e \in Events : WF_vars(TaskStep(w, e))
    /\ \A e \in Events : WF_vars(BecomesDue(e)) /\ WF_vars(LeaseExpires(e))

FairSpec == Spec /\ Fairness
-----------------------------------------------------------------------------
(* Properties.                                                             *)

(* An event that was processed had its effect exactly once or is a dead    *)
(* letter, and not both; an event that was not had no effect.  Holds also  *)
(* when workers overlap, and under equal owner strings.                    *)
ExactlyOnce ==
    \A e \in Events :
        /\ effects[e] = IF e \in processed \ dead THEN 1 ELSE 0
        /\ dead \subseteq processed

(* A classification is never stored without the event that has it planned, *)
(* nor the event without the classification.                               *)
CompletionStored ==
    \A k \in CompletedEvents :
        k \in stored <=> \E e \in PostEvents : CompletionOf[e] = k /\ effects[e] > 0

(* No event is given up early: a dead letter has had all its attempts,     *)
(* also when workers overlap and report for one another.                   *)
GivenUpLate == \A e \in dead : attempts[e] >= MaxAttempts

(* An event ends, with its effect or as a dead letter, only by the hand of *)
(* its latest claim: a worker whose claim was taken over ends nothing.     *)
(* Needs owner strings that differ between the live workers.               *)
FencedEnds ==
    [][\A e \in processed' \ processed :
          \E w \in Workers : /\ Busy(w, e) /\ ~Busy(w, e)'
                             /\ task[w][e].attempt = attempts[e]]_vars

(* The work of an event ends: whatever fails on the way, each event has    *)
(* its effect or is a dead letter in the end.                              *)
NoStrandedEvent == \A e \in Events : e \in stored ~> e \in processed

(* The promise of the outbox, stated without workers and leases.           *)
Promise == INSTANCE EffectOnce WITH
    First <- PostEvents,
    Later <- CompletedEvents,
    FollowUp <- CompletionOf,
    state <- [e \in Events |-> CASE e \in dead      -> "dead"
                                 [] e \in processed \ dead -> "done"
                                 [] e \in stored \ processed -> "open"
                                 [] OTHER           -> "absent"],
    performed <- effects

(* The outbox implements the promise.                                      *)
ImplementsPromise == Promise!Spec
=============================================================================
