------------------------------- MODULE Digest --------------------------------
(***************************************************************************)
(* The daily digests (crates/storage: prepare_due_digests,                 *)
(* build_digest_batch, claim_digest_deliveries ... fail_digest_delivery;   *)
(* apps/core-agent: run_digest_cycle).                                     *)
(*                                                                         *)
(* A campaign leaves an item for each subscriber who reads once a day.     *)
(* When a subscriber's hour has come a worker puts the items that fit into *)
(* one message into a batch; batches are claimed, sent and closed like     *)
(* deliveries, but one after the other and with an owner check only.       *)
(* Workers may overlap, because the lease of the loop is not renewed       *)
(* within a cycle, and each works from lists it read before.               *)
(***************************************************************************)
EXTENDS Integers, FiniteSets, Sequences

CONSTANTS
    Subscribers, Workers,
    LastCampaign,       \* bound on campaigns.id
    Owners, OwnerOf,    \* lease_owner: uth-notify-{pid}
    NoOwner,            \* lease_owner IS NULL
    PostOf,             \* campaigns.post_id
    FetchLimit,         \* DIGEST_ITEM_FETCH_LIMIT
    PlanLimit,          \* --plan-batch-size
    ClaimLimit,         \* --concurrency
    MaxAttempts,        \* --max-attempts
    MaxFaults           \* bound on the faults of a behaviour

ASSUME DigestAssumption ==
    /\ LastCampaign \in Nat
    /\ OwnerOf \in [Workers -> Owners]
    /\ NoOwner \notin Owners
    /\ {FetchLimit, PlanLimit, ClaimLimit, MaxAttempts} \subseteq Nat \ {0}
    /\ MaxFaults \in Nat

VARIABLES
    active,      \* subscribers.active
    daily,       \* subscribers.delivery_mode = 'daily'
    due,         \* next_digest_at has passed and it is not a quiet hour
    planned,     \* the latest campaign's id
    items,       \* digest_items; created_at grows with the campaign
    batchOf,     \* digest_items.digest_batch_id; 0: NULL, or no such item
    batches,     \* digest_batches, in the order of id
    cycle,       \* cycle[w]: where worker w stands in run_digest_cycle
    told,        \* history: the entries Telegram took a message for
    retained,    \* history: how an entry stood when retention removed it
    faults       \* history: faults so far, bounded by MaxFaults

users == <<active, daily, due>>
vars == <<users, planned, items, batchOf, batches, cycle, told, retained, faults>>

Campaigns == 1 .. LastCampaign

Entries == Subscribers \X Campaigns
Answers == {"sent", "unclear", "rejected", "unreachable"}

Open == {"pending", "sending", "retry"}
Ended == {"sent", "failed", "deleted"}

Batch == [of : Subscribers, news : SUBSET Campaigns, status : Open \cup Ended,
          owner : Owners \cup {NoOwner}, live : BOOLEAN, attempts : Nat,
          available : BOOLEAN]

Stand(at, list, claims, sending, answer) ==
    [at |-> at, list |-> list, claims |-> claims, sending |-> sending, answer |-> answer]

Idle == Stand("idle", {}, {}, 0, "none")

Stands == [at : {"idle", "prepare", "send"}, list : SUBSET Subscribers,
           claims : SUBSET ((DOMAIN batches) \X (Nat \ {0})),
           sending : {0} \cup (DOMAIN batches), answer : {"none"} \cup Answers]

ItemsTypeOK ==
    /\ planned \in 0 .. LastCampaign
    /\ items \in SUBSET (Subscribers \X (1 .. planned))
    /\ batchOf \in [Entries -> {0} \cup (DOMAIN batches)]
    /\ \A e \in Entries : batchOf[e] # 0 => e \in items

BatchesTypeOK ==
    /\ batches \in Seq(Batch)
    /\ \A b \in DOMAIN batches :
        /\ batches[b].owner # NoOwner <=> batches[b].status = "sending"
        /\ batches[b].live => batches[b].status = "sending"
        /\ batches[b].news # {}

CycleTypeOK ==
    /\ cycle \in [Workers -> Stands]
    /\ \A w \in Workers : cycle[w].sending # 0 <=> cycle[w].answer # "none"

TypeOK ==
    /\ {active, daily, due} \subseteq [Subscribers -> BOOLEAN]
    /\ ItemsTypeOK
    /\ BatchesTypeOK
    /\ CycleTypeOK
    /\ told \in SUBSET Entries
    /\ retained \in [Entries -> {"kept", "sent", "failed"}]
    /\ faults \in 0 .. MaxFaults

Init ==
    /\ active = [s \in Subscribers |-> TRUE]
    /\ daily = [s \in Subscribers |-> TRUE]
    /\ due = [s \in Subscribers |-> FALSE]
    /\ planned = 0
    /\ items = {}
    /\ batchOf = [e \in Entries |-> 0]
    /\ batches = <<>>
    /\ cycle = [w \in Workers |-> Idle]
    /\ told = {}
    /\ retained = [e \in Entries |-> "kept"]
    /\ faults = 0

Fault == /\ faults < MaxFaults
         /\ faults' = faults + 1

Counted(fault) == IF fault THEN Fault ELSE UNCHANGED faults

SetCycle(w, stand) == cycle' = [cycle EXCEPT ![w] = stand]
SetBatch(b, row) == batches' = [batches EXCEPT ![b] = row]

-----------------------------------------------------------------------------
(* Campaigns and users.                                                    *)

(* The INSERT INTO digest_items of plan_notification.                      *)
PlanNotification ==
    /\ planned < LastCampaign
    /\ planned' = planned + 1
    /\ items' = items \cup {s \in Subscribers : active[s] /\ daily[s]} \X {planned'}
    /\ UNCHANGED <<users, batchOf, batches, cycle, told, retained, faults>>

(* Choosing the digest puts its hour to the next 07:30, choosing instant   *)
(* delivery leaves everything else, the items not yet batched included.    *)
UpdatePreferences(s) ==
    /\ daily' = [daily EXCEPT ![s] = ~@]
    /\ due' = [due EXCEPT ![s] = @ /\ daily[s]]
    /\ UNCHANGED <<active, planned, items, batchOf, batches, cycle, told, retained, faults>>

(* /stop; /start and the end of the onboarding.                            *)
StopOrStart(s) ==
    /\ active' = [active EXCEPT ![s] = ~@]
    /\ UNCHANGED <<daily, due, planned, items, batchOf, batches, cycle, told, retained, faults>>

(* next_digest_at passes.                                                  *)
HourComes(s) ==
    /\ ~due[s]
    /\ due' = [due EXCEPT ![s] = TRUE]
    /\ UNCHANGED <<active, daily, planned, items, batchOf, batches, cycle, told, retained, faults>>

-----------------------------------------------------------------------------
(* prepare_due_digests.                                                    *)

(* The campaigns of the items that are in no batch.                        *)
Unbatched(s) == {c \in Campaigns : <<s, c>> \in items /\ batchOf[<<s, c>>] = 0}

DueSubscribers ==
    {s \in Subscribers : active[s] /\ daily[s] /\ due[s] /\ Unbatched(s) # {}}

SomeOf(S, limit) ==
    {T \in SUBSET S : \/ Cardinality(T) = limit
                      \/ Cardinality(T) < limit /\ T = S}

(* The list of subscribers is read before the first transaction.           *)
ListDue(w) ==
    /\ cycle[w].at = "idle"
    /\ \E L \in SomeOf(DueSubscribers, PlanLimit) :
        SetCycle(w, Stand("prepare", L, {}, 0, "none"))
    /\ UNCHANGED <<users, planned, items, batchOf, batches, told, retained, faults>>

(* ORDER BY created_at LIMIT DIGEST_ITEM_FETCH_LIMIT.                      *)
Candidates(s) ==
    {c \in Unbatched(s) : Cardinality({d \in Unbatched(s) : d < c}) < FetchLimit}

PostsOf(C) == {PostOf[c] : c \in C}

(* The campaigns of the longest prefix of entries that fits: an entry per  *)
(* post, at the place of the post's first campaign, and at least one.      *)
FirstEntries(cands, fit) ==
    {c \in cands : \E k \in cands :
        LET prefix == {d \in cands : d <= k}
        IN  PostOf[c] \in PostsOf(prefix) /\ Cardinality(PostsOf(prefix)) <= fit}

NewBatch(s, news) ==
    [of |-> s, news |-> news, status |-> "pending", owner |-> NoOwner, live |-> FALSE,
     attempts |-> 0, available |-> TRUE]

Batched(s, news, b) ==
    [e \in Entries |-> IF e \in {s} \X news THEN b ELSE batchOf[e]]

(* The transaction for one subscriber of the list.  It looks at the items  *)
(* again, under their locks, and at nothing else; the length of the        *)
(* entries is arbitrary.                                                   *)
PrepareDigest(w, s) ==
    /\ cycle[w].at = "prepare" /\ s \in cycle[w].list
    /\ IF Unbatched(s) = {}
       THEN UNCHANGED <<batchOf, batches, due>>
       ELSE \E fit \in 1 .. Cardinality(PostsOf(Candidates(s))) :
              LET news == FirstEntries(Candidates(s), fit)
              IN  /\ batches' = Append(batches, NewBatch(s, news))
                  /\ batchOf' = Batched(s, news, Len(batches) + 1)
                  /\ due' = [due EXCEPT ![s] = FALSE]
    /\ SetCycle(w, Stand("prepare", cycle[w].list \ {s}, {}, 0, "none"))
    /\ UNCHANGED <<active, daily, planned, items, told, retained, faults>>

(* An error ends the preparation; the cycle goes on to the claim.          *)
PreparationFails(w) ==
    /\ cycle[w].at = "prepare" /\ cycle[w].list # {}
    /\ Fault
    /\ SetCycle(w, Stand("prepare", {}, {}, 0, "none"))
    /\ UNCHANGED <<users, planned, items, batchOf, batches, told, retained>>

-----------------------------------------------------------------------------
(* claim_digest_deliveries and the sends of the cycle.                     *)

ClaimableUnsent ==   \* variant: the status "sending" is never claimed again
    {b \in DOMAIN batches : /\ batches[b].status \in {"pending", "retry"}
                            /\ batches[b].available /\ active[batches[b].of]}

Claimable ==
    {b \in DOMAIN batches : /\ batches[b].status \in Open /\ batches[b].available
                            /\ active[batches[b].of] /\ ~batches[b].live}

(* The cycle sends what it claimed, and ends when there is nothing left.   *)
Sends(claims) ==
    IF claims = {} THEN Idle ELSE Stand("send", {}, claims, 0, "none")

Claimed(row, w) == [row EXCEPT !.status = "sending", !.owner = OwnerOf[w], !.live = TRUE,
                               !.attempts = @ + 1]

ClaimDigests(w) ==
    /\ cycle[w].at = "prepare" /\ cycle[w].list = {}
    /\ \E B \in SomeOf(Claimable, ClaimLimit) :
        /\ batches' = [b \in DOMAIN batches |->
              IF b \in B THEN Claimed(batches[b], w) ELSE batches[b]]
        /\ SetCycle(w, Sends({<<b, batches'[b].attempts>> : b \in B}))
    /\ UNCHANGED <<users, planned, items, batchOf, told, retained, faults>>

EntriesOf(b) == {batches[b].of} \X batches[b].news

(* Telegram takes the message, though the answer may get lost, or refuses. *)
SendDigest(w) ==
    /\ cycle[w].at = "send" /\ cycle[w].sending = 0
    /\ \E claim \in cycle[w].claims, answer \in Answers, took \in BOOLEAN :
        /\ answer = "sent" => took
        /\ answer \notin {"sent", "unclear"} => ~took
        /\ told' = IF took THEN told \cup EntriesOf(claim[1]) ELSE told
        /\ SetCycle(w, Stand("send", {}, cycle[w].claims, claim[1], answer))
    /\ UNCHANGED <<users, planned, items, batchOf, batches, retained, faults>>

AttemptOf(w) == (CHOOSE claim \in cycle[w].claims : claim[1] = cycle[w].sending)[2]

(* WHERE id = $1 AND lease_owner = $2; two processes may have one string. *)
Owns(w, b) == batches[b].owner = OwnerOf[w]

GoesOn(w) ==
    SetCycle(w, Sends({claim \in cycle[w].claims : claim[1] # cycle[w].sending}))

(* An error leaves run_digest_cycle and ends the process, which starts     *)
(* anew without any of its claims.                                         *)
Dies(w) == SetCycle(w, Idle)

(* Variant: lease_expires_at stays.                                        *)
ClosedUnderLease(row, status) ==
    [row EXCEPT !.status = status, !.available = FALSE, !.owner = NoOwner]

(* The row leaves the lease; available_at lies ahead or no longer matters. *)
Closed(row, status) ==
    [row EXCEPT !.status = status, !.available = FALSE, !.owner = NoOwner, !.live = FALSE]

Reporting(w, answers) ==
    /\ cycle[w].at = "send" /\ cycle[w].sending # 0 /\ cycle[w].answer \in answers
    /\ UNCHANGED <<planned, items, batchOf, told, retained, faults>>

(* complete_digest_delivery: the lease must be live, or the message counts *)
(* as not sent and the process ends.                                       *)
CompleteDigest(w) ==
    /\ Reporting(w, {"sent"})
    /\ LET b == cycle[w].sending
       IN  IF Owns(w, b) /\ batches[b].live
           THEN SetBatch(b, Closed(batches[b], "sent")) /\ GoesOn(w)
           ELSE Dies(w) /\ UNCHANGED batches
    /\ UNCHANGED users

(* retry_digest_delivery: the number of rows is not looked at.             *)
RetryDigest(w) ==
    /\ Reporting(w, {"unclear"}) /\ AttemptOf(w) < MaxAttempts
    /\ LET b == cycle[w].sending
       IN  IF Owns(w, b)
           THEN SetBatch(b, Closed(batches[b], "retry"))
           ELSE UNCHANGED batches
    /\ GoesOn(w)
    /\ UNCHANGED users

(* fail_digest_delivery.                                                   *)
FailDigest(w) ==
    /\ Reporting(w, {"unclear", "rejected", "unreachable"})
    /\ cycle[w].answer = "unclear" => AttemptOf(w) >= MaxAttempts
    /\ LET b == cycle[w].sending
       IN  IF Owns(w, b)
           THEN /\ SetBatch(b, Closed(batches[b], "failed")) /\ GoesOn(w)
                /\ active' = [active EXCEPT ![batches[b].of] =
                                 @ /\ cycle[w].answer # "unreachable"]
           ELSE Dies(w) /\ UNCHANGED <<batches, active>>
    /\ UNCHANGED <<daily, due>>

(* The token is invalid: the process ends and leaves its claims to expire. *)
Unauthorized(w) ==
    /\ cycle[w].at = "send" /\ cycle[w].sending = 0
    /\ Fault
    /\ Dies(w)
    /\ UNCHANGED <<users, planned, items, batchOf, batches, told, retained>>

Crash(w) ==
    /\ cycle[w].at # "idle"
    /\ Fault
    /\ Dies(w)
    /\ UNCHANGED <<users, planned, items, batchOf, batches, told, retained>>

-----------------------------------------------------------------------------
(* Time and retention.                                                     *)

Held(b) == \E w \in Workers : /\ <<b, batches[b].attempts>> \in cycle[w].claims
                              /\ batches[b].owner = OwnerOf[w]

(* A lease that ends before its worker is done counts as a fault.          *)
LeaseEnds(b) ==
    /\ batches[b].live
    /\ Counted(Held(b))
    /\ SetBatch(b, [batches[b] EXCEPT !.live = FALSE])
    /\ UNCHANGED <<users, planned, items, batchOf, cycle, told, retained>>

BecomesAvailable(b) ==
    /\ batches[b].status = "retry" /\ ~batches[b].available
    /\ SetBatch(b, [batches[b] EXCEPT !.available = TRUE])
    /\ UNCHANGED <<users, planned, items, batchOf, cycle, told, retained, faults>>

EndedAs(e, status) == batchOf[e] # 0 /\ batches[batchOf[e]].status = status

Outcome(e) ==
    IF retained[e] # "kept" THEN retained[e]
    ELSE IF EndedAs(e, "sent") THEN "sent"
    ELSE IF EndedAs(e, "failed") THEN "failed" ELSE "open"

OldItemsOnly(s, n, B) == TRUE   \* variant: a batch may be older than its items

(* An item is older than the batch it was put into.                        *)
OlderThanBatches(s, n, B) == \A c \in Campaigns : batchOf[<<s, c>>] \in B => c <= n

Deleted(row) == [row EXCEPT !.status = "deleted", !.owner = NoOwner]

(* The digest part of apply_delivery_retention: the subscriber's items of  *)
(* the first n campaigns are older than 90 days, the batches B unchanged   *)
(* for as long.  An item left without its batch is unbatched again (ON     *)
(* DELETE SET NULL).                                                       *)
ApplyRetention(s) ==
    \E n \in 0 .. planned, B \in SUBSET {b \in DOMAIN batches : batches[b].of = s} :
        LET old == items \cap ({s} \X (1 .. n))
        IN  /\ old # {} \/ B # {}
            /\ \A b \in B : ~batches[b].live /\ batches[b].status # "deleted"
            /\ OlderThanBatches(s, n, B)
            /\ Fault
            /\ items' = items \ old
            /\ batchOf' = [e \in Entries |->
                  IF e \in old \/ batchOf[e] \in B THEN 0 ELSE batchOf[e]]
            /\ batches' = [b \in DOMAIN batches |->
                  IF b \in B THEN Deleted(batches[b]) ELSE batches[b]]
            /\ retained' = [e \in Entries |->
                  IF e \notin old THEN retained[e]
                  ELSE IF Outcome(e) = "open" THEN "failed" ELSE Outcome(e)]
            /\ UNCHANGED <<users, planned, cycle, told>>

-----------------------------------------------------------------------------
WorkerStep(w) ==
    \/ ListDue(w)
    \/ \E s \in Subscribers : PrepareDigest(w, s)
    \/ ClaimDigests(w)
    \/ SendDigest(w)
    \/ CompleteDigest(w)
    \/ RetryDigest(w)
    \/ FailDigest(w)
    \/ Unauthorized(w)

Next ==
    \/ PlanNotification
    \/ \E s \in Subscribers : \/ UpdatePreferences(s)
                              \/ StopOrStart(s)
                              \/ HourComes(s)
                              \/ ApplyRetention(s)
    \/ \E w \in Workers : WorkerStep(w) \/ PreparationFails(w) \/ Crash(w)
    \/ \E b \in DOMAIN batches : LeaseEnds(b) \/ BecomesAvailable(b)

Spec == Init /\ [][Next]_vars

(* Workers poll and go on, hours come, leases end and retries fall due.    *)
(* Nothing is assumed of users, of Telegram or of faults.                  *)
Fairness ==
    /\ \A w \in Workers : WF_vars(WorkerStep(w))
    /\ \A s \in Subscribers : WF_vars(HourComes(s))
    /\ WF_vars(\E b \in DOMAIN batches : LeaseEnds(b) \/ BecomesAvailable(b))

FairSpec == Spec /\ Fairness
-----------------------------------------------------------------------------
(* Properties.                                                             *)

(* An entry ends once: no second digest repeats it after it was sent or    *)
(* given up, whichever workers worked from an old list, died or came late, *)
(* and retention does not bring it back.  It is marked as sent only if     *)
(* Telegram took a message with it.                                        *)
Promise(e) == INSTANCE AtLeastOnce WITH
    Jobs <- {e},
    outcome <- [entry \in {e} |-> Outcome(e)],
    taken <- [entry \in {e} |-> e \in told]

ImplementsPromise ==
    /\ \A e \in Entries : Promise(e)!Init
    /\ [][\A e \in Entries :
            \/ UNCHANGED <<Outcome(e), e \in told>>
            \/ Promise(e)!Next]_vars

(* Every item of a subscriber who stays with the digest is sent or given   *)
(* up: items that did not fit come on a later day, and no crash between    *)
(* the batch and its send strands them.                                    *)
EveryEntrySettles ==
    \A s \in Subscribers :
        []<>(\/ ~active[s] \/ ~daily[s]
             \/ \A e \in items : e[1] = s => Outcome(e) # "open")
=============================================================================
