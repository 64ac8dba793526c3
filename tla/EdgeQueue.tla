------------------------------ MODULE EdgeQueue ------------------------------
(***************************************************************************)
(* The way of a webhook from Cloudflare to PostgreSQL: the D1 table        *)
(* edge_events (apps/edge-worker: persist_event, pull_events,              *)
(* acknowledge_events), the reconciler that empties it                     *)
(* (apps/core-agent/src/edge_reconciler.rs) and the table                  *)
(* edge_inbox_events it fills (crates/storage: import_edge_events,         *)
(* apply_edge_inbox_retention).  What becomes of an imported event is the  *)
(* matter of EdgeInbox; here its handling is one step, InboxCloses.        *)
(*                                                                         *)
(* D1 has no transaction over several statements: a pull leases its        *)
(* candidates one by one, an acknowledgement marks its events one by one.  *)
(* The import is one PostgreSQL transaction.  The answer to either call    *)
(* may be lost.                                                            *)
(***************************************************************************)
EXTENDS EdgeEvents

CONSTANTS
    Reconcilers, Owners, NoOwner,
    OwnerOf,          \* uth-edge-{pid}
    PullLimit,        \* --batch-size
    MaxEditions       \* bound: how often D1 stores one event

ASSUME QueueAssumption ==
    /\ OwnerOf \in [Reconcilers -> Owners]
    /\ NoOwner \notin Owners
    /\ PullLimit \in Nat \ {0}
    /\ MaxEditions \in Nat \ {0}

VARIABLES
    edgeState,      \* edge_events.state; "none": no row
    edgeOwner,      \* edge_events.lease_owner
    edgeExpired,    \* events whose lease_expires_at has passed
    edgeOld,        \* events acknowledged more than 30 days ago
    edition,        \* occurred_at: the how-manieth row of the event D1 stored
    forgotten,      \* history: events whose row D1 has purged at some time
    inbox,          \* "absent", "open" or "closed" (processed_at IS NOT NULL)
    inboxEdition,   \* edge_inbox_events.occurred_at
    inboxOld,       \* events processed longer ago than the retention
    imported,       \* history: events that were in the inbox at some time
    sync            \* the reconcilers

edgeVars == <<edgeState, edgeOwner, edgeExpired, edgeOld, edition, forgotten>>
importVars == <<inbox, inboxEdition, inboxOld, imported>>
queueVars == <<edgeVars, importVars, sync, faults>>

-----------------------------------------------------------------------------
Sync == [phase : {"idle", "pull", "ack"},
         todo : SUBSET Events, got : SUBSET Events, missed : BOOLEAN]

SyncAt(phase, todo, got, missed) ==
    [phase |-> phase, todo |-> todo, got |-> got, missed |-> missed]

NoSync == SyncAt("idle", {}, {}, FALSE)

QueueTypeOK ==
    /\ edgeState \in [Events -> {"none", "pending", "publishing", "acknowledged"}]
    /\ edgeOwner \in [Events -> Owners \cup {NoOwner}]
    /\ \A e \in Events : edgeState[e] = "publishing" <=> edgeOwner[e] # NoOwner
    /\ edgeExpired \in SUBSET {e \in Events : edgeState[e] = "publishing"}
    /\ edgeOld \in SUBSET {e \in Events : edgeState[e] = "acknowledged"}
    /\ edition \in [Events -> 0 .. MaxEditions]
    /\ forgotten \in SUBSET Events
    /\ inbox \in [Events -> {"absent", "open", "closed"}]
    /\ inboxEdition \in [Events -> 0 .. MaxEditions]
    /\ inboxOld \in SUBSET {e \in Events : inbox[e] = "closed"}
    /\ imported \in SUBSET Events
    /\ sync \in [Reconcilers -> Sync]
    /\ faults \in 0 .. MaxFaults

QueueInit ==
    /\ edgeState = [e \in Events |-> "none"]
    /\ edgeOwner = [e \in Events |-> NoOwner]
    /\ edgeExpired = {} /\ edgeOld = {} /\ forgotten = {}
    /\ edition = [e \in Events |-> 0]
    /\ inbox = [e \in Events |-> "absent"]
    /\ inboxEdition = [e \in Events |-> 0]
    /\ inboxOld = {} /\ imported = {}
    /\ sync = [r \in Reconcilers |-> NoSync]
    /\ faults = 0

SetSync(r, s) == sync' = [sync EXCEPT ![r] = s]

-----------------------------------------------------------------------------
(* persist_event, INSERT OR IGNORE: the first row of an event stays as it  *)
(* is; a later delivery of the same webhook is answered with success.      *)
PersistEvent(e) ==
    /\ edition[e] < MaxEditions
    /\ edgeState[e] = "none"
    /\ edgeState' = [edgeState EXCEPT ![e] = "pending"]
    /\ edgeOwner' = [edgeOwner EXCEPT ![e] = NoOwner]
    /\ edgeExpired' = edgeExpired \ {e}
    /\ edgeOld' = edgeOld \ {e}
    /\ edition' = [edition EXCEPT ![e] = @ + 1]
    /\ UNCHANGED <<forgotten, importVars, sync, faults>>

(* The webhooks of the two senders.  One that is too large, not authentic, *)
(* not about an update or not about a payment that was made changes        *)
(* nothing, whatever it is answered.                                       *)
TelegramWebhook(e) == e \in Updates /\ PersistEvent(e)

PayOsWebhook(e) == e \in Payments /\ PersistEvent(e)

Webhook(e) == TelegramWebhook(e) \/ PayOsWebhook(e)

NeverLeased(e) == edgeState[e] = "pending"   \* variant: expired leases are not taken over

(* WHERE state = 'pending' OR the lease has expired.                       *)
Available(e) == edgeState[e] = "pending" \/ e \in edgeExpired

(* ORDER BY sequence, created_at LIMIT limit over the events S.            *)
FirstBySequence(S, limit) ==
    {B \in SUBSET S :
        /\ Cardinality(B) <= limit
        /\ Cardinality(B) = limit \/ B = S
        /\ \A x \in B, y \in S \ B : SequenceOf[x] <= SequenceOf[y]}

(* pull_events up to its SELECT: rows acknowledged long ago are deleted,   *)
(* the candidates are read.                                                *)
StartPull(r) ==
    /\ sync[r].phase = "idle"
    /\ \E B \in FirstBySequence({e \in Events : Available(e)}, PullLimit) :
           SetSync(r, SyncAt("pull", B, {}, FALSE))
    /\ edgeState' = [e \in Events |-> IF e \in edgeOld THEN "none" ELSE edgeState[e]]
    /\ edgeOld' = {}
    /\ forgotten' = forgotten \cup edgeOld
    /\ UNCHANGED <<edgeOwner, edgeExpired, edition, importVars, faults>>

(* The UPDATE looks at the row anew.                                       *)
StillAvailable(e) == Available(e)

(* The UPDATE of one candidate in pull_events: it is leased unless another *)
(* pull or an acknowledgement came first.                                  *)
LeaseEvent(r, e) ==
    /\ sync[r].phase = "pull"
    /\ e \in sync[r].todo
    /\ \A x \in sync[r].todo : SequenceOf[e] <= SequenceOf[x]
    /\ IF StillAvailable(e)
       THEN /\ edgeState' = [edgeState EXCEPT ![e] = "publishing"]
            /\ edgeOwner' = [edgeOwner EXCEPT ![e] = OwnerOf[r]]
            /\ edgeExpired' = edgeExpired \ {e}
            /\ SetSync(r, SyncAt("pull", sync[r].todo \ {e}, sync[r].got \cup {e}, FALSE))
       ELSE /\ SetSync(r, SyncAt("pull", sync[r].todo \ {e}, sync[r].got, FALSE))
            /\ UNCHANGED <<edgeState, edgeOwner, edgeExpired>>
    /\ UNCHANGED <<edgeOld, edition, forgotten, importVars, faults>>

-----------------------------------------------------------------------------
(* The inbox has the event with another occurred_at.                       *)
Conflicts(e) == inbox[e] # "absent" /\ inboxEdition[e] # edition[e]

(* apply_edge_inbox_retention, at the end of a cycle.                      *)
ApplyRetention ==
    /\ inbox' = [e \in Events |-> IF e \in inboxOld THEN "absent" ELSE inbox[e]]
    /\ inboxOld' = {}
    /\ UNCHANGED <<inboxEdition, imported>>

(* Variant: the inbox has one row per sequence, as before migration 0024.  *)
NewBySequence(got) ==
    {e \in got : /\ inbox[e] = "absent"
                 /\ \A x \in Events \ {e} :
                        SequenceOf[x] = SequenceOf[e] => inbox[x] = "absent"}

(* ON CONFLICT (event_id) DO NOTHING: the events that get a row.           *)
NewOf(got) == {e \in got : inbox[e] = "absent"}

(* The answer to the pull holds events: import_edge_events stores them in  *)
(* one transaction.                                                        *)
ImportEvents(r) ==
    LET got == sync[r].got
        new == NewOf(got)
    IN
    /\ sync[r].phase = "pull" /\ sync[r].todo = {} /\ got # {}
    /\ \A e \in got : ~Conflicts(e)
    /\ inbox' = [e \in Events |-> IF e \in new THEN "open" ELSE inbox[e]]
    /\ inboxEdition' = [e \in Events |-> IF e \in new THEN edition[e] ELSE inboxEdition[e]]
    /\ imported' = imported \cup new
    /\ SetSync(r, SyncAt("ack", got, got, FALSE))
    /\ UNCHANGED <<edgeVars, inboxOld, faults>>

(* The answer is empty: nothing to import or to acknowledge.               *)
NothingPulled(r) ==
    /\ sync[r].phase = "pull" /\ sync[r].todo = {} /\ sync[r].got = {}
    /\ ApplyRetention
    /\ SetSync(r, NoSync)
    /\ UNCHANGED <<edgeVars, faults>>

(* A conflict rolls the batch back and ends the process, which is started  *)
(* again.                                                                  *)
ImportConflicts(r) ==
    /\ sync[r].phase = "pull" /\ sync[r].todo = {}
    /\ \E e \in sync[r].got : Conflicts(e)
    /\ SetSync(r, NoSync)
    /\ UNCHANGED <<edgeVars, importVars, faults>>

KeepOwner(e) == edgeOwner   \* variant: lease_owner = NULL is missing

Released(e) == [edgeOwner EXCEPT ![e] = NoOwner]

(* The body of the loop in acknowledge_events (edge worker): an event that *)
(* the caller still holds is acknowledged, whether its lease has expired   *)
(* or not; one that is acknowledged already counts as well.                *)
AckEvent(r, e) ==
    LET held == edgeState[e] = "publishing" /\ edgeOwner[e] = OwnerOf[r]
    IN
    /\ sync[r].phase = "ack"
    /\ e \in sync[r].todo
    /\ edgeState' = IF held THEN [edgeState EXCEPT ![e] = "acknowledged"] ELSE edgeState
    /\ edgeOwner' = IF held THEN Released(e) ELSE edgeOwner
    /\ edgeExpired' = IF held THEN edgeExpired \ {e} ELSE edgeExpired
    /\ SetSync(r, SyncAt("ack", sync[r].todo \ {e}, sync[r].got,
                    sync[r].missed \/ ~(held \/ edgeState[e] = "acknowledged")))
    /\ UNCHANGED <<edgeOld, edition, forgotten, importVars, faults>>

(* The answer to the acknowledgement arrives; a count that is too small    *)
(* ends the process before its retention.                                  *)
AckAnswered(r) ==
    /\ sync[r].phase = "ack"
    /\ sync[r].todo = {}
    /\ IF sync[r].missed THEN UNCHANGED importVars ELSE ApplyRetention
    /\ SetSync(r, NoSync)
    /\ UNCHANGED <<edgeVars, faults>>

(* A request fails for good, its answer is lost, PostgreSQL is away or the *)
(* process dies: the work stops where it is and begins anew.               *)
Interrupted(r) ==
    /\ sync[r].phase # "idle"
    /\ Fault
    /\ SetSync(r, NoSync)
    /\ UNCHANGED <<edgeVars, importVars>>

-----------------------------------------------------------------------------
(* A notification worker closes the event (see EdgeInbox).                 *)
InboxCloses(e) ==
    /\ inbox[e] = "open"
    /\ inbox' = [inbox EXCEPT ![e] = "closed"]
    /\ UNCHANGED <<edgeVars, inboxEdition, inboxOld, imported, sync, faults>>

InUse(e) == \E r \in Reconcilers : e \in sync[r].got

(* lease_expires_at <= CURRENT_TIMESTAMP: a fault if the reconciler that   *)
(* holds the event is still at work on it.                                 *)
EdgeLeaseExpires(e) ==
    /\ edgeState[e] = "publishing"
    /\ e \notin edgeExpired
    /\ edgeExpired' = edgeExpired \cup {e}
    /\ IF InUse(e) THEN Fault ELSE UNCHANGED faults
    /\ UNCHANGED <<edgeState, edgeOwner, edgeOld, edition, forgotten, importVars, sync>>

(* A month passes between two cycles: what is acknowledged is old enough   *)
(* for D1, and what is closed for the inbox, unless                        *)
(* --processed-retention-days asks for more.                               *)
MonthPasses ==
    /\ \A r \in Reconcilers : sync[r].phase = "idle"
    /\ edgeOld' = {e \in Events : edgeState[e] = "acknowledged"}
    /\ inboxOld' \in {{}, {e \in Events : inbox[e] = "closed"}}
    /\ UNCHANGED <<edgeState, edgeOwner, edgeExpired, edition, forgotten, inbox,
                   inboxEdition, imported, sync, faults>>

SyncStep(r) == \/ \E e \in Events : LeaseEvent(r, e) \/ AckEvent(r, e)
               \/ ImportEvents(r)
               \/ NothingPulled(r)
               \/ ImportConflicts(r)
               \/ AckAnswered(r)

QueueNext ==
    \/ \E r \in Reconcilers : StartPull(r) \/ SyncStep(r) \/ Interrupted(r)
    \/ \E e \in Events : Webhook(e) \/ InboxCloses(e) \/ EdgeLeaseExpires(e)
    \/ MonthPasses

QueueSpec == QueueInit /\ [][QueueNext]_queueVars

(***************************************************************************)
(* Fairness: the reconciler is started again when it ends and pulls for    *)
(* ever; every request has a timeout; D1's leases expire; the inbox is     *)
(* read (EdgeInbox shows that an event is closed in the end).  Nothing is  *)
(* assumed of the senders.                                                 *)
(***************************************************************************)
QueueFairness ==
    /\ \A r \in Reconcilers : WF_queueVars(StartPull(r)) /\ WF_queueVars(SyncStep(r))
    /\ \A e \in Events : WF_queueVars(EdgeLeaseExpires(e)) /\ WF_queueVars(InboxCloses(e))

QueueFairSpec == QueueSpec /\ QueueFairness

-----------------------------------------------------------------------------
(* A webhook that was answered with success is in D1, not yet acknowledged,*)
(* or has been imported: whatever is lost between Cloudflare and           *)
(* PostgreSQL, pull_events and acknowledge_events forget nothing that      *)
(* import_edge_events has not committed.                                   *)
NoEventLost ==
    \A e \in Events :
        edition[e] > 0 =>
            \/ edgeState[e] \in {"pending", "publishing"}
            \/ e \in imported

(* An acknowledged event is never given out again, whatever late or        *)
(* repeated pulls and acknowledgements arrive; only a new webhook after D1 *)
(* has purged the row starts it anew.  About the conditions of the UPDATEs *)
(* in pull_events and acknowledge_events.                                  *)
AcknowledgedForGood ==
    [][\A e \in Events :
         edgeState[e] = "acknowledged" => edgeState'[e] \in {"acknowledged", "none"}]_queueVars

(* The reconciler treats edge_inbox_events as the table that EdgeInbox is  *)
(* about: it inserts new rows, deletes closed ones and changes no other.   *)
ImportTable == INSTANCE InboxTable WITH table <- inbox

ReconcilerKeepsTable == ImportTable!Spec

(* The sender repeated a webhook after D1 had purged the event and while   *)
(* the inbox still has it: the batch that holds it cannot be imported.     *)
RepeatedTooLate == \E x \in forgotten : Conflicts(x)

(* Every event that D1 accepted gets through to the inbox and is closed:   *)
(* lost answers, expired leases and restarts delay it; nothing but a       *)
(* webhook that is repeated too late stops the queue.                      *)
EveryEventArrives ==
    \A e \in Events : edgeState[e] = "pending" ~> (inbox[e] = "closed" \/ RepeatedTooLate)
=============================================================================
