-------------------------------- MODULE Review --------------------------------
(***************************************************************************)
(* From a classified post to its campaign: the planner that asks Gemini    *)
(* (apps/core-agent: plan_event_inner), the administrator's commands       *)
(* (/review_send, /review_skip, /ai_approve, /ai_reject, notify            *)
(* review-send) and the transactions behind them (crates/storage:          *)
(* inherit_duplicate_manual_review_resolution, resolve_review,             *)
(* override_manual_review_resolution, plan_notification).                  *)
(*                                                                         *)
(* What a planner writes before plan_notification is not under the lease   *)
(* of its event.  The events of all classifications are there from the     *)
(* start: one that comes later is one not yet claimed.  The transactions   *)
(* lock the post or the classification and are single steps; Outbox has    *)
(* the details of the lease.                                               *)
(***************************************************************************)
EXTENDS Integers, FiniteSets

CONSTANTS
    Explicit,          \* classifications decided matched_explicit
    Manual,            \* classifications decided manual_review
    Posts,
    PostOf,            \* classifications.post_id
    DuplicatesOf,      \* same post, or same source, text and publication time
    Workers,
    Nobody,            \* lease_owner IS NULL
    Subscribers,
    Modes,             \* "instant", "daily", "none": delivery_mode, active, scope
    MaxAttempts,       \* --max-attempts
    MaxFaults          \* bound on the faults of a behaviour

Classifications == Explicit \cup Manual

ASSUME ConstantsAssumption ==
    /\ IsFiniteSet(Classifications) /\ IsFiniteSet(Workers)
    /\ Explicit \cap Manual = {}
    /\ PostOf \in [Classifications -> Posts]
    /\ DuplicatesOf \in [Classifications -> SUBSET Classifications]
    /\ \A c \in Classifications : c \notin DuplicatesOf[c]
    /\ Nobody \notin Workers
    /\ MaxAttempts \in Nat \ {0}
    /\ MaxFaults \in Nat

VARIABLES
    resolution,   \* manual_review_resolutions: what was decided, and by whom
    campaigns,    \* classifications that have a campaign
    deliveries,   \* pairs of a campaign and the subscriber of its delivery
    digestItems,  \* pairs of a campaign and the subscriber whose digest has it
    done,         \* classifications whose event is processed
    dead,         \* classifications whose event is a dead letter
    attempts,     \* the event's attempts, counted up to MaxAttempts
    holder,       \* the worker that holds the event's lease
    task,         \* the event a worker is planning, and how far it is
    aged,         \* posts published three days ago or more
    mode,         \* how a subscriber wants to be told
    unwanted,     \* history: explicit classifications that Gemini refused
    reversed,     \* history: /ai_reject came after Gemini's "send"
    faults        \* history: faults so far, bounded by MaxFaults

outcomeVars == <<resolution, campaigns, deliveries, digestItems>>
eventVars == <<done, dead, attempts, holder>>
userVars == <<aged, mode, reversed>>
vars == <<outcomeVars, eventVars, task, userVars, unwanted, faults>>

-----------------------------------------------------------------------------
Undecided == [action |-> "none", by |-> "none"]
Decided(action, by) == [action |-> action, by |-> by]
Resolutions == {Undecided} \cup [action : {"send", "skip"}, by : {"ai", "admin"}]

Phases == {"inherit", "review", "record", "resolve", "defer", "plan", "failing"}

(* verdict: what Gemini said; for "plan", whether there is a message.      *)
Idle == [phase |-> "idle"]
Tasks == {Idle} \cup [phase : Phases, of : Classifications, verdict : {"none", "send", "skip"}]

TypeOK ==
    /\ resolution \in [Classifications -> Resolutions]
    /\ campaigns \subseteq Classifications
    /\ deliveries \subseteq campaigns \X Subscribers
    /\ digestItems \subseteq campaigns \X Subscribers
    /\ done \subseteq Classifications
    /\ dead \subseteq done
    /\ attempts \in [Classifications -> 0..MaxAttempts]
    /\ holder \in [Classifications -> Workers \cup {Nobody}]
    /\ \A c \in done : holder[c] = Nobody
    /\ task \in [Workers -> Tasks]
    /\ aged \subseteq Posts
    /\ mode \in [Subscribers -> Modes]
    /\ unwanted \subseteq Explicit
    /\ reversed \subseteq Classifications
    /\ faults \in 0..MaxFaults

Init ==
    /\ resolution = [c \in Classifications |-> Undecided]
    /\ campaigns = {} /\ deliveries = {} /\ digestItems = {}
    /\ done = {} /\ dead = {}
    /\ attempts = [c \in Classifications |-> 0]
    /\ holder = [c \in Classifications |-> Nobody]
    /\ task = [w \in Workers |-> Idle]
    /\ aged = {}
    /\ mode \in [Subscribers -> Modes]
    /\ unwanted = {} /\ reversed = {}
    /\ faults = 0

Fault == /\ faults < MaxFaults
         /\ faults' = faults + 1

Working(w, phase) == task[w].phase = phase

Enter(w, phase, verdict) ==
    task' = [task EXCEPT ![w] = [phase |-> phase, of |-> task[w].of, verdict |-> verdict]]

Stop(w) == task' = [task EXCEPT ![w] = Idle]

-----------------------------------------------------------------------------
(* Campaigns.                                                              *)

OwnCampaign(c) == {c} \cap campaigns   \* variant: looks at classification_id

(* SELECT id FROM campaigns WHERE post_id = $1, under the post's lock.     *)
PriorCampaigns(c) == {d \in campaigns : PostOf[d] = PostOf[c]}

(* A delivery or a digest item for each subscriber who wants one, unless   *)
(* it is there already.                                                    *)
Address(c) ==
    /\ deliveries' = deliveries \cup {<<c, s>> : s \in {s \in Subscribers : mode[s] = "instant"}}
    /\ digestItems' = digestItems \cup {<<c, s>> : s \in {s \in Subscribers : mode[s] = "daily"}}

(* Variant: the campaign itself is forgotten.                              *)
OnlyAddress(c) == UNCHANGED campaigns /\ Address(c)

CreateCampaign(c) == campaigns' = campaigns \cup {c} /\ Address(c)

NoCampaign == UNCHANGED <<campaigns, deliveries, digestItems>>

(* The upsert of override_manual_review_resolution and                     *)
(* record_classification_review_resolution, and the plain INSERT.          *)
Resolve(c, action, by) == resolution' = [resolution EXCEPT ![c] = Decided(action, by)]

IsPending(c) == TRUE   \* variant: the resolution is not looked at

(* resolution.classification_id IS NULL.                                   *)
Pending(c) == resolution[c] = Undecided

(* resolve_review: nothing if the review was resolved before; "skip" if    *)
(* the post has a campaign.                                                *)
ResolveReview(c, action, by) ==
    IF ~Pending(c)
    THEN UNCHANGED outcomeVars
    ELSE IF action = "send" /\ PriorCampaigns(c) = {}
         THEN Resolve(c, "send", by) /\ CreateCampaign(c)
         ELSE Resolve(c, "skip", by) /\ NoCampaign

-----------------------------------------------------------------------------
(* plan_event.  With Gemini a worker claims one event at a time.           *)

ClaimEvent(w, c) ==
    /\ Working(w, "idle")
    /\ c \notin done /\ holder[c] = Nobody
    /\ holder' = [holder EXCEPT ![c] = w]
    /\ attempts' = [attempts EXCEPT ![c] = IF @ < MaxAttempts THEN @ + 1 ELSE @]
    /\ task' = [task EXCEPT ![w] =
                   [phase |-> IF c \in Manual THEN "inherit" ELSE "review",
                    of |-> c, verdict |-> "none"]]
    /\ UNCHANGED <<outcomeVars, done, dead, userVars, unwanted, faults>>

(* Gemini on a matched_explicit post; if it fails or is not configured the *)
(* post is sent.  An administrator's chat is configured.                   *)
ReviewExplicit(w) ==
    /\ Working(w, "review") /\ task[w].of \in Explicit
    /\ \/ /\ Enter(w, "record", "send")
          /\ UNCHANGED unwanted
       \/ /\ Enter(w, "record", "skip")
          /\ unwanted' = unwanted \cup {task[w].of}
       \/ /\ Enter(w, "plan", "send")
          /\ UNCHANGED unwanted
    /\ UNCHANGED <<outcomeVars, eventVars, userVars, faults>>

(* record_classification_review_resolution, whose failure is ignored.      *)
RecordVerdict(w) ==
    /\ Working(w, "record")
    /\ \/ Resolve(task[w].of, task[w].verdict, "ai") /\ UNCHANGED faults
       \/ UNCHANGED resolution /\ Fault
    /\ NoCampaign
    /\ Enter(w, "plan", IF task[w].verdict = "send" THEN "send" ELSE "none")
    /\ UNCHANGED <<eventVars, userVars, unwanted>>

(* A duplicate of a resolved review is skipped, whatever was decided.      *)
InheritDuplicate(w) ==
    LET c == task[w].of
        prior == {d \in DuplicatesOf[c] : resolution[d] # Undecided}
    IN  /\ Working(w, "inherit")
        /\ IF Pending(c) /\ prior # {}
           THEN /\ \E d \in prior : Resolve(c, "skip", resolution[d].by)
                /\ Enter(w, "plan", "none")
           ELSE UNCHANGED resolution /\ Enter(w, "review", "none")
        /\ NoCampaign
        /\ UNCHANGED <<eventVars, userVars, unwanted, faults>>

NeverAged(c) == FALSE   \* variant: the three days are forgotten

(* automatic_review_action skips whatever was published three days ago.    *)
Aged(c) == PostOf[c] \in aged

PlanUnreviewed == "plan"   \* variant: no answer counts as "skip"

WhenUnavailable == "defer"

(* Gemini on a manual_review post, if it is pending and not too old.       *)
ReviewManual(w) ==
    LET c == task[w].of
    IN  /\ Working(w, "review") /\ c \in Manual
        /\ IF ~Pending(c)
           THEN Enter(w, "plan", "none")
           ELSE IF Aged(c)
                THEN Enter(w, "resolve", "skip")
                ELSE \/ \E verdict \in {"send", "skip"} : Enter(w, "resolve", verdict)
                     \/ Enter(w, WhenUnavailable, "none")
        /\ UNCHANGED <<outcomeVars, eventVars, userVars, unwanted, faults>>

(* The age is looked at again once Gemini has answered.                    *)
ResolveAiReview(w) ==
    LET c == task[w].of
    IN  /\ Working(w, "resolve")
        /\ ResolveReview(c, IF Aged(c) THEN "skip" ELSE task[w].verdict, "ai")
        /\ Enter(w, "plan", "none")
        /\ UNCHANGED <<eventVars, userVars, unwanted, faults>>

(* defer_notification_event_for_ai.                                        *)
DeferEvent(w) ==
    LET c == task[w].of
    IN  /\ Working(w, "defer")
        /\ holder' = [holder EXCEPT ![c] = IF @ = w THEN Nobody ELSE @]
        /\ Stop(w)
        /\ UNCHANGED <<outcomeVars, done, dead, attempts, userVars, unwanted, faults>>

(* plan_notification: an existing campaign of this classification is       *)
(* addressed again, one of another classification of the post ends it.     *)
PlanNotification(w) ==
    LET c == task[w].of
        prior == PriorCampaigns(c)
    IN  /\ Working(w, "plan")
        /\ IF holder[c] = w
           THEN /\ IF task[w].verdict = "send" /\ (prior = {} \/ c \in prior)
                   THEN CreateCampaign(c)
                   ELSE NoCampaign
                /\ done' = done \cup {c}
                /\ holder' = [holder EXCEPT ![c] = Nobody]
                /\ Stop(w)
           ELSE NoCampaign /\ UNCHANGED <<done, holder>> /\ Enter(w, "failing", "none")
        /\ UNCHANGED <<resolution, dead, attempts, userVars, unwanted, faults>>

(* fail_notification_event.                                                *)
FailEvent(w) ==
    LET c == task[w].of
        last == holder[c] = w /\ attempts[c] = MaxAttempts
    IN  /\ Working(w, "failing")
        /\ done' = IF last THEN done \cup {c} ELSE done
        /\ dead' = IF last THEN dead \cup {c} ELSE dead
        /\ holder' = [holder EXCEPT ![c] = IF @ = w THEN Nobody ELSE @]
        /\ Stop(w)
        /\ UNCHANGED <<outcomeVars, attempts, userVars, unwanted, faults>>

(* The database refuses a transaction.                                     *)
TransactionFails(w) ==
    /\ \/ task[w].phase \in {"inherit", "review", "resolve", "plan"} /\ Enter(w, "failing", "none")
       \/ task[w].phase \in {"defer", "failing"} /\ Stop(w)
    /\ Fault
    /\ UNCHANGED <<outcomeVars, eventVars, userVars, unwanted>>

(* The process dies and is restarted.                                      *)
Crash(w) ==
    /\ ~Working(w, "idle")
    /\ Fault
    /\ Stop(w)
    /\ UNCHANGED <<outcomeVars, eventVars, userVars, unwanted>>

(* A lease that expires under a worker still at work counts as a fault.    *)
LeaseExpires(c) ==
    /\ holder[c] # Nobody
    /\ IF task[holder[c]] # Idle /\ task[holder[c]].of = c THEN Fault ELSE UNCHANGED faults
    /\ holder' = [holder EXCEPT ![c] = Nobody]
    /\ UNCHANGED <<outcomeVars, done, dead, attempts, task, userVars, unwanted>>

-----------------------------------------------------------------------------
(* The administrator.  A worker handles commands between two cycles;       *)
(* notify review-send is a process of its own.                             *)

SomeWorkerIdle == \E w \in Workers : Working(w, "idle")

ReviewSend(c) ==
    /\ c \in Manual /\ Pending(c)
    /\ ResolveReview(c, "send", "admin")
    /\ UNCHANGED <<eventVars, task, userVars, unwanted, faults>>

ReviewSkip(c) ==
    /\ SomeWorkerIdle
    /\ c \in Manual /\ Pending(c)
    /\ ResolveReview(c, "skip", "admin")
    /\ UNCHANGED <<eventVars, task, userVars, unwanted, faults>>

(* override_manual_review_resolution to "skip": no campaign is touched.    *)
AiReject(c) ==
    /\ SomeWorkerIdle
    /\ Resolve(c, "skip", "admin")
    /\ reversed' = IF resolution[c] = Decided("send", "ai") THEN reversed \cup {c} ELSE reversed
    /\ NoCampaign
    /\ UNCHANGED <<eventVars, task, aged, mode, unwanted, faults>>

(* override_manual_review_resolution to "send".                            *)
AiApprove(c) ==
    /\ SomeWorkerIdle
    /\ PriorCampaigns(c) = {}
    /\ Resolve(c, "send", "admin")
    /\ CreateCampaign(c)
    /\ UNCHANGED <<eventVars, task, userVars, unwanted, faults>>

(* /instant, /daily, /start, /stop.                                        *)
SetMode(s, m) ==
    /\ SomeWorkerIdle
    /\ mode[s] # m
    /\ mode' = [mode EXCEPT ![s] = m]
    /\ UNCHANGED <<outcomeVars, eventVars, task, aged, reversed, unwanted, faults>>

PostAges(p) ==
    /\ p \notin aged
    /\ aged' = aged \cup {p}
    /\ UNCHANGED <<outcomeVars, eventVars, task, mode, reversed, unwanted, faults>>

-----------------------------------------------------------------------------
PlanStep(w) == \/ ReviewExplicit(w)
               \/ RecordVerdict(w)
               \/ InheritDuplicate(w)
               \/ ReviewManual(w)
               \/ ResolveAiReview(w)
               \/ DeferEvent(w)
               \/ PlanNotification(w)
               \/ FailEvent(w)

AdminStep(c) == \/ ReviewSend(c)
                \/ ReviewSkip(c)
                \/ AiReject(c)
                \/ AiApprove(c)

Next ==
    \/ \E w \in Workers, c \in Classifications : ClaimEvent(w, c)
    \/ \E w \in Workers : PlanStep(w) \/ TransactionFails(w) \/ Crash(w)
    \/ \E c \in Classifications : AdminStep(c) \/ LeaseExpires(c)
    \/ \E s \in Subscribers, m \in Modes : SetMode(s, m)
    \/ \E p \in Posts : PostAges(p)

Spec == Init /\ [][Next]_vars

(* Workers poll and end what they began; time passes.  Nothing is assumed  *)
(* of Gemini, of the administrator or of the subscribers.                  *)
Fairness ==
    /\ \A w \in Workers : WF_vars(PlanStep(w))
    /\ \A c \in Classifications : SF_vars(\E w \in Workers : ClaimEvent(w, c))
    /\ \A c \in Classifications : WF_vars(LeaseExpires(c))
    /\ \A p \in Posts : WF_vars(PostAges(p))

FairSpec == Spec /\ Fairness
-----------------------------------------------------------------------------
(* Properties.                                                             *)

(* A post is announced once, however its edits were classified and whoever *)
(* approves them: the planner, Gemini and the administrator race, and only *)
(* campaigns.classification_id is UNIQUE.                                  *)
OneCampaignPerPost ==
    \A c, d \in campaigns : PostOf[c] = PostOf[d] => c = d

(* No classification falls through: an explicit post whose event is        *)
(* processed was announced or refused by Gemini, a manual review was       *)
(* resolved, unless the event is a dead letter.                            *)
NothingDropped ==
    \A c \in done \ dead :
        IF c \in Manual THEN ~Pending(c)
        ELSE PriorCampaigns(c) # {} \/ c \in unwanted

(* The administrator's "skip" stands: no campaign of c starts against it.  *)
Stands(c) ==
    /\ resolution[c] = Decided("skip", "admin")
    /\ c \in campaigns' \ campaigns
    => resolution'[c] = Decided("send", "admin")

(* A manual review that the administrator skipped is never announced, also *)
(* when Gemini's "send" is under way.                                      *)
ManualSkipStands == [][\A c \in Manual : Stands(c)]_vars

(* The administrator's "skip" stands, explicit posts included, if the      *)
(* event is processed by then: no other planner, retry or late answer      *)
(* announces the post.                                                     *)
LateSkipStands == [][\A c \in done : Stands(c)]_vars

(* The campaign of c has for s what it had.                                *)
ReachesAsBefore(c, s) ==
    /\ <<c, s>> \in deliveries' <=> <<c, s>> \in deliveries
    /\ <<c, s>> \in digestItems' <=> <<c, s>> \in digestItems

(* Whom a campaign reaches is settled when its event is processed: who     *)
(* changes the delivery mode after that is not told again the other way.   *)
AddressesSettle ==
    [][\A c \in done \cap campaigns, s \in Subscribers : ReachesAsBefore(c, s)]_vars

(* Every classification's event is processed in the end: Gemini may fail   *)
(* forever, as the post grows too old to wait for it.                      *)
EventuallyPlanned == \A c \in Classifications : <>(c \in done)

(* /ai_reject reverses Gemini's "send", as README.md says of the command.  *)
(* Does not hold: an explicit post whose planning is retried or overlaps   *)
(* is announced all the same.                                              *)
ReversalStands == [][\A c \in reversed : Stands(c)]_vars
=============================================================================
