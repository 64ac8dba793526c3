---------------------------- MODULE DeliveryQueue ----------------------------
(***************************************************************************)
(* The table of Telegram deliveries and the workers that drain it          *)
(* (crates/storage: claim_deliveries ... migrate_delivery_chat;            *)
(* apps/core-agent: run_cycle and send_delivery).                          *)
(*                                                                         *)
(* A row is claimed under a lease, sent to Telegram, and its outcome is    *)
(* written by a transaction that first checks the lease and then updates   *)
(* the row.  Time is abstract: a lease is live or has expired, a row's     *)
(* available_at has passed or not, and the rows whose available_at has     *)
(* passed are ordered by it.  Two workers may overlap, because the         *)
(* process-wide lease of the loop is not renewed within a cycle.           *)
(***************************************************************************)
EXTENDS Integers, FiniteSets, DueOrder

CONSTANTS
    Deliveries, Subscribers, Campaigns, Workers, Owners,
    NoOwner,            \* lease_owner IS NULL
    SubscriberOf,       \* deliveries.subscriber_id
    CampaignOf,         \* deliveries.campaign_id
    PortalCampaigns,    \* campaigns.portal_notice_id IS NOT NULL
    FileCampaigns,      \* campaigns planned with an attachment_url
    OwnerOf,            \* the owner string a worker writes: uth-notify-{pid}
    MaxAttempts,        \* --max-attempts
    ClaimLimit,         \* --concurrency
    MaxFaults           \* bound on the faults of a behaviour

ASSUME ConstantsAssumption ==
    /\ IsFiniteSet(Deliveries)
    /\ SubscriberOf \in [Deliveries -> Subscribers]
    /\ CampaignOf \in [Deliveries -> Campaigns]
    /\ FileCampaigns \subseteq PortalCampaigns
    /\ PortalCampaigns \subseteq Campaigns
    /\ OwnerOf \in [Workers -> Owners]
    /\ NoOwner \notin Owners
    /\ MaxAttempts \in Nat \ {0}
    /\ ClaimLimit \in Nat \ {0}
    /\ MaxFaults \in Nat

VARIABLES
    status,       \* deliveries.status
    attempts,     \* deliveries.attempts
    lease,        \* lease_expires_at: NULL, in the future, or in the past
    leaseOwner,   \* deliveries.lease_owner
    due,          \* open rows whose available_at has passed
    older,        \* older[d]: the rows of due before d in (available_at, id)
    reach,        \* subscribers.active and deactivated_reason
    throttled,    \* subscribers whose next_send_at lies in the future
    media,        \* what a campaign carries: text, a file, a telegram_file_id
    task,         \* task[w][d]: worker w's send_delivery task for row d
    ledger,       \* delivery_attempts
    accepted,     \* history: the attempts whose message Telegram took
    faults        \* history: faults so far, bounded by MaxFaults

rowVars == <<status, attempts, lease, leaseOwner, due, older>>
vars == <<rowVars, reach, throttled, media, task, ledger, accepted, faults>>

-----------------------------------------------------------------------------
Results == {"sent", "throttled", "transient", "migrated", "rejected",
            "unreachable", "unauthorized"}

Task == [phase : {"idle", "send", "persist", "update"}, attempt : Nat,
         upload : BOOLEAN, result : Results \cup {"none"}]

Idle == [phase |-> "idle", attempt |-> 0, upload |-> FALSE, result |-> "none"]

LedgerOutcomes == {"sent", "retry", "failed", "chat_migrated"}

Closed(d) == status[d] \in {"sent", "failed"}

Busy(w, d) == task[w][d].phase # "idle"

(* The lease columns are set together and cleared together.                *)
TypeOK ==
    /\ status \in [Deliveries -> {"pending", "sending", "retry", "sent", "failed"}]
    /\ attempts \in [Deliveries -> Nat]
    /\ lease \in [Deliveries -> {"none", "live", "expired"}]
    /\ leaseOwner \in [Deliveries -> Owners \cup {NoOwner}]
    /\ \A d \in Deliveries : /\ lease[d] = "none" <=> leaseOwner[d] = NoOwner
                             /\ lease[d] = "none" <=> status[d] # "sending"
    /\ due \in SUBSET Deliveries
    /\ older \in [Deliveries -> SUBSET Deliveries]
    /\ reach \in [Subscribers -> {"active", "user_stop", "deactivated"}]
    /\ throttled \in SUBSET Subscribers
    /\ media \in [Campaigns -> {"text", "file", "uploaded"}]
    /\ task \in [Workers -> [Deliveries -> Task]]
    /\ ledger \in SUBSET (Deliveries \X Nat \X LedgerOutcomes)
    /\ accepted \in [Deliveries -> SUBSET Nat]
    /\ faults \in Nat

Init ==
    /\ status = [d \in Deliveries |-> "pending"]
    /\ attempts = [d \in Deliveries |-> 0]
    /\ lease = [d \in Deliveries |-> "none"]
    /\ leaseOwner = [d \in Deliveries |-> NoOwner]
    /\ due = {}
    /\ older = [d \in Deliveries |-> {}]
    /\ reach = [s \in Subscribers |-> "active"]
    /\ throttled = {}
    /\ media = [c \in Campaigns |-> IF c \in FileCampaigns THEN "file" ELSE "text"]
    /\ task = [w \in Workers |-> [d \in Deliveries |-> Idle]]
    /\ ledger = {}
    /\ accepted = [d \in Deliveries |-> {}]
    /\ faults = 0

Fault == /\ faults < MaxFaults
         /\ faults' = faults + 1

-----------------------------------------------------------------------------
(* The selection of claim_deliveries.                                      *)

(* A stopped user still gets the Portal's notices, nothing else.           *)
Receives(d) ==
    \/ reach[SubscriberOf[d]] = "active"
    \/ reach[SubscriberOf[d]] = "user_stop" /\ CampaignOf[d] \in PortalCampaigns

EligibleUnsent ==   \* variant: the status "sending" is never claimed again
    {d \in due : status[d] \in {"pending", "retry"} /\ Receives(d)}

Eligible == {d \in due : ~Closed(d) /\ lease[d] # "live" /\ Receives(d)}

AnyCandidate(d) == TRUE   \* variant: no subquery "candidate"

(* The subquery "candidate": the subscriber's first eligible row.          *)
IsCandidate(d) ==
    FirstOf(older, d, {e \in Eligible : SubscriberOf[e] = SubscriberOf[d]})

(* Variant: the seed's subscriber may be in its pause.                     *)
SeedsInPause(c) == {e \in Eligible : CampaignOf[e] = c}

(* The subquery "seed": the campaign's first row that can be sent now.     *)
Seeds(c) == {e \in Eligible : CampaignOf[e] = c /\ SubscriberOf[e] \notin throttled}

AnyMayCarryMedia(d) == TRUE   \* variant: no subquery "seed"

MayCarryMedia(d) ==
    media[CampaignOf[d]] = "file" => FirstOf(older, d, Seeds(CampaignOf[d]))

Claimable == {d \in Eligible : /\ SubscriberOf[d] \notin throttled
                               /\ MayCarryMedia(d)
                               /\ IsCandidate(d)}

Batches == Oldest(older, Claimable, ClaimLimit)

SameAttempt(d) == attempts[d]   \* variant: attempts is not incremented

NextAttempt(d) == attempts[d] + 1

(* One statement takes the batch.  A worker joins all its tasks before it  *)
(* claims again.                                                           *)
ClaimDeliveries(w) ==
    /\ \A d \in Deliveries : ~Busy(w, d)
    /\ \E B \in Batches :
        /\ status' = [d \in Deliveries |-> IF d \in B THEN "sending" ELSE status[d]]
        /\ attempts' = [d \in Deliveries |-> IF d \in B THEN NextAttempt(d) ELSE attempts[d]]
        /\ lease' = [d \in Deliveries |-> IF d \in B THEN "live" ELSE lease[d]]
        /\ leaseOwner' = [d \in Deliveries |-> IF d \in B THEN OwnerOf[w] ELSE leaseOwner[d]]
        /\ task' = [task EXCEPT ![w] = [d \in Deliveries |->
                       IF d \in B
                       THEN [phase |-> "send", attempt |-> attempts'[d],
                             upload |-> media[CampaignOf[d]] = "file", result |-> "none"]
                       ELSE Idle]]
    /\ UNCHANGED <<due, older, reach, throttled, media, ledger, accepted, faults>>

-----------------------------------------------------------------------------
(* send_delivery, up to Telegram's answer.                                 *)

SetTask(w, d, t) == task' = [task EXCEPT ![w][d] = t]

Advanced(t, phase, result) ==
    [phase |-> phase, attempt |-> t.attempt, upload |-> t.upload, result |-> result]

Answered(w, d, result) == SetTask(w, d, Advanced(task[w][d], "persist", result))

Exhausted(w, d) == task[w][d].attempt >= MaxAttempts

(* download_attachment may give no file, for now or for good.              *)
MayLackFile(w, d) == task[w][d].phase = "send" /\ task[w][d].upload

(* The attachment cannot be downloaded: a transient failure, except on the *)
(* last attempt, where only the failure to drop the attachment is one.     *)
DownloadFails(w, d) ==
    /\ MayLackFile(w, d)
    /\ IF Exhausted(w, d) THEN Fault ELSE UNCHANGED faults
    /\ Answered(w, d, "transient")
    /\ UNCHANGED <<rowVars, reach, throttled, media, ledger, accepted>>

(* drop_portal_campaign_attachment: telegram_file_id IS NULL is required.  *)
WithoutFile(m) == IF m = "file" THEN "text" ELSE m

(* The Portal no longer has the attachment, or this is the last attempt:   *)
(* the campaign loses it and this task goes on to send the text.           *)
DropAttachment(w, d) ==
    /\ MayLackFile(w, d)
    /\ media' = [media EXCEPT ![CampaignOf[d]] = WithoutFile(@)]
    /\ SetTask(w, d, [phase |-> "send", attempt |-> task[w][d].attempt,
                      upload |-> FALSE, result |-> "none"])
    /\ UNCHANGED <<rowVars, reach, throttled, ledger, accepted, faults>>

(* Telegram takes the message; the answer may get lost on the way back and *)
(* is then a transient failure.                                            *)
TelegramAccepts(w, d) ==
    /\ task[w][d].phase = "send"
    /\ accepted' = [accepted EXCEPT ![d] = @ \cup {task[w][d].attempt}]
    /\ \E result \in {"sent", "transient"} : Answered(w, d, result)
    /\ UNCHANGED <<rowVars, reach, throttled, media, ledger, faults>>

(* Telegram does not take it.  A moved chat and an invalid token are       *)
(* retried without limit, hence counted.                                   *)
TelegramRefuses(w, d) ==
    /\ task[w][d].phase = "send"
    /\ \/ /\ \E result \in {"throttled", "transient", "rejected", "unreachable"} :
               Answered(w, d, result)
          /\ UNCHANGED faults
       \/ /\ \E result \in {"migrated", "unauthorized"} : Answered(w, d, result)
          /\ Fault
    /\ UNCHANGED <<rowVars, reach, throttled, media, ledger, accepted>>

-----------------------------------------------------------------------------
(* The transaction that writes the outcome.                                *)

(* ensure_delivery_lease: a plain SELECT that locks nothing.  A task that  *)
(* fails it ends with "persistence_failed".                                *)
EnsureDeliveryLease(w, d) ==
    /\ task[w][d].phase = "persist"
    /\ IF lease[d] = "live" /\ leaseOwner[d] = OwnerOf[w]
       THEN SetTask(w, d, Advanced(task[w][d], "update", task[w][d].result))
       ELSE SetTask(w, d, Idle)
    /\ UNCHANGED <<rowVars, reach, throttled, media, ledger, accepted, faults>>

OwnsAnyRow(w, d) == TRUE   \* variant: WHERE id = $1 alone

(* WHERE id = $1 AND lease_owner = $2, evaluated again by the UPDATE.  The *)
(* number of rows it changed is not looked at.                             *)
OwnsRow(w, d) == leaseOwner[d] = OwnerOf[w]

(* Variant: lease_owner stays.                                             *)
ExpireLease(d) == lease' = [lease EXCEPT ![d] = "none"] /\ UNCHANGED leaseOwner

ReleaseLease(d) == /\ lease' = [lease EXCEPT ![d] = "none"]
                   /\ leaseOwner' = [leaseOwner EXCEPT ![d] = NoOwner]

(* The row leaves the lease with the new status; available_at moves to the *)
(* future, or no longer matters.                                           *)
UpdateRow(w, d, newStatus) ==
    IF OwnsRow(w, d)
    THEN /\ status' = [status EXCEPT ![d] = newStatus]
         /\ ReleaseLease(d)
         /\ due' = due \ {d}
         /\ older' = Leave(older, d)
         /\ UNCHANGED attempts
    ELSE UNCHANGED rowVars

(* INSERT INTO delivery_attempts, with UNIQUE (delivery_id, attempt).      *)
RecordAttempt(w, d, outcome) ==
    ledger' = ledger \cup {<<d, task[w][d].attempt, outcome>>}

Updating(w, d, results) ==
    /\ task[w][d].phase = "update" /\ task[w][d].result \in results
    /\ SetTask(w, d, Idle)
    /\ UNCHANGED <<accepted, faults>>

Throttle(d) == throttled' = throttled \cup {SubscriberOf[d]}

UnclearIsDelivered == {"sent", "transient"}   \* variant: a timeout counts as sent

DeliveredResults == {"sent"}

(* The first upload of a campaign leaves its telegram_file_id, if Telegram *)
(* named one.                                                              *)
CompleteDelivery(w, d) ==
    /\ Updating(w, d, DeliveredResults)
    /\ RecordAttempt(w, d, "sent")
    /\ UpdateRow(w, d, "sent")
    /\ \/ /\ task[w][d].upload
          /\ media' = [media EXCEPT ![CampaignOf[d]] = IF @ = "file" THEN "uploaded" ELSE @]
       \/ UNCHANGED media
    /\ Throttle(d)
    /\ UNCHANGED reach

RetryDelivery(w, d) ==
    /\ Updating(w, d, {"throttled", "transient", "unauthorized"})
    /\ Exhausted(w, d) => task[w][d].result = "unauthorized"
    /\ RecordAttempt(w, d, "retry")
    /\ UpdateRow(w, d, "retry")
    /\ Throttle(d)
    /\ UNCHANGED <<reach, media>>

(* RetryExhausted, RequestRejected, RecipientUnavailable.                  *)
FailDelivery(w, d) ==
    /\ Updating(w, d, {"throttled", "transient", "rejected", "unreachable"})
    /\ task[w][d].result \in {"throttled", "transient"} => Exhausted(w, d)
    /\ RecordAttempt(w, d, "failed")
    /\ UpdateRow(w, d, "failed")
    /\ IF task[w][d].result = "unreachable"
       THEN /\ reach' = [reach EXCEPT ![SubscriberOf[d]] = "deactivated"]
            /\ UNCHANGED throttled
       ELSE Throttle(d) /\ UNCHANGED reach
    /\ UNCHANGED media

MigrateDeliveryChat(w, d) ==
    /\ Updating(w, d, {"migrated"})
    /\ RecordAttempt(w, d, "chat_migrated")
    /\ UpdateRow(w, d, "retry")
    /\ UNCHANGED <<reach, throttled, media>>

(* The transaction fails or the new chat belongs to another subscriber:    *)
(* everything rolls back and the task ends.                                *)
PersistenceFails(w, d) ==
    /\ task[w][d].phase \in {"persist", "update"}
    /\ Fault
    /\ SetTask(w, d, Idle)
    /\ UNCHANGED <<rowVars, reach, throttled, media, ledger, accepted>>

(* The process dies with all its tasks and is restarted.                   *)
Crash(w) ==
    /\ \E d \in Deliveries : Busy(w, d)
    /\ Fault
    /\ task' = [task EXCEPT ![w] = [d \in Deliveries |-> Idle]]
    /\ UNCHANGED <<rowVars, reach, throttled, media, ledger, accepted>>

-----------------------------------------------------------------------------
(* Time and users.                                                         *)

BecomesDue(d) ==
    /\ d \notin due /\ ~Closed(d)
    /\ due' = due \cup {d}
    /\ older' = Arrive(older, due, d)
    /\ UNCHANGED <<status, attempts, lease, leaseOwner, reach, throttled, media,
                   task, ledger, accepted, faults>>

Holds(w, d) == /\ Busy(w, d)
               /\ task[w][d].attempt = attempts[d]
               /\ leaseOwner[d] = OwnerOf[w]

(* A lease that expires under a task still at work counts as a fault.      *)
LeaseExpires(d) ==
    /\ lease[d] = "live"
    /\ lease' = [lease EXCEPT ![d] = "expired"]
    /\ IF \E w \in Workers : Holds(w, d) THEN Fault ELSE UNCHANGED faults
    /\ UNCHANGED <<status, attempts, leaseOwner, due, older, reach, throttled,
                   media, task, ledger, accepted>>

ThrottleEnds(s) ==
    /\ s \in throttled
    /\ throttled' = throttled \ {s}
    /\ UNCHANGED <<rowVars, reach, media, task, ledger, accepted, faults>>

(* deactivate_subscriber (/stop) and upsert_subscriber (/start).           *)
UserStops(s) ==
    /\ reach[s] = "active"
    /\ reach' = [reach EXCEPT ![s] = "user_stop"]
    /\ UNCHANGED <<rowVars, throttled, media, task, ledger, accepted, faults>>

UserStarts(s) ==
    /\ reach[s] # "active"
    /\ reach' = [reach EXCEPT ![s] = "active"]
    /\ UNCHANGED <<rowVars, throttled, media, task, ledger, accepted, faults>>

-----------------------------------------------------------------------------
Answer(w, d) == \/ DownloadFails(w, d)
                \/ DropAttachment(w, d)
                \/ TelegramAccepts(w, d)
                \/ TelegramRefuses(w, d)

Update(w, d) == \/ CompleteDelivery(w, d)
                \/ RetryDelivery(w, d)
                \/ FailDelivery(w, d)
                \/ MigrateDeliveryChat(w, d)

TaskStep(w, d) == \/ Answer(w, d)
                  \/ EnsureDeliveryLease(w, d)
                  \/ Update(w, d)

Next ==
    \/ \E w \in Workers : ClaimDeliveries(w) \/ Crash(w)
    \/ \E w \in Workers, d \in Deliveries : TaskStep(w, d) \/ PersistenceFails(w, d)
    \/ \E d \in Deliveries : BecomesDue(d) \/ LeaseExpires(d)
    \/ \E s \in Subscribers : ThrottleEnds(s) \/ UserStops(s) \/ UserStarts(s)

Spec == Init /\ [][Next]_vars

(* Workers poll, their tasks end (every request has a timeout), and time   *)
(* passes.  Nothing is assumed of users, of Telegram or of faults.         *)
Fairness ==
    /\ \A w \in Workers : WF_vars(ClaimDeliveries(w))
    /\ \A w \in Workers, d \in Deliveries : WF_vars(TaskStep(w, d))
    /\ \A d \in Deliveries : WF_vars(BecomesDue(d)) /\ WF_vars(LeaseExpires(d))
    /\ \A s \in Subscribers : WF_vars(ThrottleEnds(s))

FairSpec == Spec /\ Fairness
-----------------------------------------------------------------------------
(* Properties.                                                             *)

(* A row is marked sent only if Telegram took a message for one of its     *)
(* claims and delivery_attempts says so, whichever workers died, stalled   *)
(* or overlapped on the way.                                               *)
SentWasAccepted ==
    \A d \in Deliveries :
        status[d] = "sent" =>
            \E a \in accepted[d] : <<d, a, "sent">> \in ledger

(* UNIQUE (delivery_id, attempt) never rejects the row of a task: each     *)
(* claim writes at most one outcome, also when an overtaken worker writes  *)
(* late.                                                                   *)
OneOutcomePerClaim ==
    /\ \A r, t \in ledger : r[1] = t[1] /\ r[2] = t[2] => r = t
    /\ \A w \in Workers, d \in Deliveries :
          Busy(w, d) =>
              \A o \in LedgerOutcomes : <<d, task[w][d].attempt, o>> \notin ledger

(* Once sent or failed a row is never touched again: a late worker cannot  *)
(* reopen it, close it differently or resend it.                           *)
ClosedForever ==
    [][\A d \in Deliveries :
          Closed(d) => status'[d] = status[d] /\ attempts'[d] = attempts[d]]_vars

(* A row leaves "sending" only by the hand of its latest claim: the write  *)
(* of a worker whose claim was taken over does not reach the row.  Needs   *)
(* owner strings that differ between the live workers.                     *)
FencedWrites ==
    [][\A d \in Deliveries :
          status[d] = "sending" /\ status'[d] # "sending" =>
              \E w \in Workers : /\ task[w][d].phase = "update" /\ task'[w][d] = Idle
                                 /\ task[w][d].attempt = attempts[d]]_vars

(* The candidate and seed subqueries never block each other: if some row   *)
(* may be sent now, a claim takes one.                                     *)
ClaimProgress ==
    (\E d \in Eligible : SubscriberOf[d] \notin throttled) => Claimable # {}

(* The messages a worker has in flight go to different subscribers, so     *)
(* that the pause of one second per chat is kept.                          *)
OneMessagePerChat ==
    \A w \in Workers, d, e \in Deliveries :
        /\ Busy(w, d) /\ Busy(w, e)
        /\ SubscriberOf[d] = SubscriberOf[e]
        => d = e

(* A worker uploads the file of a campaign for one subscriber at a time:   *)
(* the others wait for the telegram_file_id.                               *)
OneUploadPerCampaign ==
    \A w \in Workers, d, e \in Deliveries :
        /\ task[w][d].upload /\ task[w][e].upload
        /\ CampaignOf[d] = CampaignOf[e]
        => d = e

(* Once a file was uploaded its campaign keeps the telegram_file_id, even  *)
(* if an overtaken worker then finds the attachment gone.                  *)
UploadedFileKept ==
    [][\A c \in Campaigns : media[c] = "uploaded" => media'[c] = "uploaded"]_vars

(* Every row is sent or failed in the end, unless its subscriber is away:  *)
(* no crash, stall, throttling or missing file strands it.                 *)
EventuallyClosed ==
    \A d \in Deliveries : []<>(Closed(d) \/ ~Receives(d))

(* The promise of the queue, stated without workers and leases.            *)
Promise == INSTANCE AtLeastOnce WITH
    Jobs <- Deliveries,
    outcome <- [d \in Deliveries |-> IF Closed(d) THEN status[d] ELSE "open"],
    taken <- [d \in Deliveries |-> accepted[d] # {}]

(* The queue implements the promise.                                       *)
ImplementsPromise == Promise!Spec
=============================================================================
