----------------------------- MODULE PortalPoll -----------------------------
(***************************************************************************)
(* The Portal poller of the notification worker (core-agent                *)
(* notification_worker.rs: run, run_portal_cycle,                          *)
(* archive_recent_portal_history_if_empty, fetch_portal_notice_or_skip,    *)
(* next_portal_poll_state; portal.rs; storage: the portal_* functions).    *)
(*                                                                         *)
(* A worker polls when the time that it remembers has come: it stores the  *)
(* recent notices as history if it knows none, sets the baseline, scans    *)
(* the list from its newest page to the first one with a stored notice,    *)
(* and stores what it found, oldest first, with a campaign unless it is    *)
(* too old.  Two workers overlap when one's lease ends while it polls.     *)
(* The Portal mostly puts a new notice, numbered higher than the others,   *)
(* at the head of its list, but may put any one anywhere and take any one  *)
(* out: then the scan may end before a notice, or step over it.  What is   *)
(* promised of the others, and of the first page, is said below.           *)
(* A notice's text and attachment, the jitter, and the last id that the    *)
(* state row keeps but nothing reads, are left out.                        *)
(***************************************************************************)
EXTENDS Integers, FiniteSets, SequencesExt

CONSTANTS
    Workers, NoWorker,
    Total,         \* bound: the notices are 1 .. Total, by their ids
    First,         \* how many are listed in the beginning
    Legacy,        \* the oldest, stored before their bodies were, in the beginning
    PageSize,      \* portal_page_size
    MaxPages,      \* portal_max_pages
    HistorySize,   \* PORTAL_HISTORY_BACKFILL_SIZE
    BodyBatch,     \* bodies asked for in a cycle
    BodyTries,     \* body_fetch_attempts allowed
    MaxFaults      \* bound on the faults, and the Portal's changes of another kind than
                   \* a newer notice at the head of its list, in a behaviour

Notices == 1 .. Total

ASSUME PortalAssumption ==
    /\ NoWorker \notin Workers
    /\ Total \in Nat /\ First \in 0 .. Total
    /\ Legacy \in SUBSET (1 .. First)
    /\ \A n \in Legacy : 1 .. n \subseteq Legacy
    /\ PageSize \in Nat \ {0}
    /\ MaxPages \in Nat \ {0}
    /\ HistorySize \in Nat \ {0}
    /\ BodyBatch \in Nat \ {0}
    /\ BodyTries \in Nat \ {0}
    /\ MaxFaults \in Nat

VARIABLES
    list,      \* the notices that the Portal lists, in the order of its pages
    stored,    \* portal_notices: "none", "archived" or, with a campaign, "planned"
    campaigns, \* number of campaigns of a notice
    bodiless,  \* body_fetched_at IS NULL
    tries,     \* body_fetch_attempts
    baseline,  \* portal_notice_state has its row
    saved,     \* poll_mode in that row, with the times that go with it
    holder,    \* worker_leases: owner of the Telegram worker's lease
    poll,      \* the poll state that a worker remembers
    task,      \* the worker's cycle
    excused,   \* history: notices that a scan may leave out
    faults     \* history: faults so far, bounded by MaxFaults

noticeVars == <<stored, campaigns, bodiless, tries>>
pollVars == <<baseline, saved, holder, poll>>
vars == <<list, noticeVars, pollVars, task, excused, faults>>

-----------------------------------------------------------------------------
(* next_poll_at has passed: due; burst_until has not: burst.               *)
Modes == {"steady", "burst", "cooldown"}

Poll == [mode : Modes, due : BOOLEAN, burst : BOOLEAN]

PollState(mode, due, burst) == [mode |-> mode, due |-> due, burst |-> burst]

FirstPoll == PollState("steady", TRUE, FALSE)

Phases == {"idle", "history", "recent", "archiving", "baseline", "initializing",
           "listing", "checking", "planning", "bodies", "ended"}

(* shift: how many notices the pages before have; page: what the page has  *)
(* that was listed; last: there is none after it.                          *)
Task == [phase : Phases, shift : Nat, page : SUBSET Notices, last : BOOLEAN,
         todo : SUBSET Notices, outcome : {"unchanged", "new_notices", "error"}]

Cycle(phase, todo, outcome) ==
    [phase |-> phase, shift |-> 0, page |-> {}, last |-> FALSE, todo |-> todo,
     outcome |-> outcome]

Scan(phase, shift, page, last, todo) ==
    [phase |-> phase, shift |-> shift, page |-> page, last |-> last, todo |-> todo,
     outcome |-> "unchanged"]

NoTask == Cycle("idle", {}, "unchanged")

TypeOK ==
    /\ list \in Seq(Notices)
    /\ \A i, j \in DOMAIN list : list[i] = list[j] => i = j
    /\ stored \in [Notices -> {"none", "archived", "planned"}]
    /\ campaigns \in [Notices -> Nat]
    /\ bodiless \in SUBSET Notices
    /\ tries \in [Notices -> 0 .. BodyTries]
    /\ baseline \in BOOLEAN
    /\ saved \in Modes
    /\ holder \in Workers \cup {NoWorker}
    /\ poll \in [Workers -> Poll]
    /\ task \in [Workers -> Task]
    /\ excused \in SUBSET Notices
    /\ faults \in 0 .. MaxFaults

(* A new database, or one whose notices are from before migration 0025.    *)
Init ==
    /\ list = [i \in 1 .. First |-> First + 1 - i]
    /\ bodiless \in {{}, Legacy}
    /\ stored = [n \in Notices |-> IF n \in bodiless THEN "planned" ELSE "none"]
    /\ campaigns = [n \in Notices |-> IF n \in bodiless THEN 1 ELSE 0]
    /\ tries = [n \in Notices |-> 0]
    /\ baseline = (bodiless # {})
    /\ saved = "steady"
    /\ holder = NoWorker
    /\ poll = [w \in Workers |-> FirstPoll]
    /\ task = [w \in Workers |-> NoTask]
    /\ excused = {} /\ faults = 0

Fault == /\ faults < MaxFaults
         /\ faults' = faults + 1

SetTask(w, t) == task' = [task EXCEPT ![w] = t]

(* The cycle of w ends; what it was to do is forgotten.                    *)
End(w, outcome) == SetTask(w, Cycle("ended", {}, outcome))

-----------------------------------------------------------------------------
(* The Portal.                                                             *)
Listed == Range(list)

(* The notice n may be stored before m although it is listed before it:    *)
(* its id is lower, or it is stored, or a worker has found it.             *)
Precedes(n, m) ==
    \/ n < m
    \/ stored[n] # "none"
    \/ \E w \in Workers : n \in task[w].todo \cup task[w].page

(* A notice appears in the list.  One that is put behind another that may  *)
(* precede it is excused, and so are those that it is put before and may   *)
(* precede.                                                                *)
Publish(n, i) ==
    /\ n \notin Listed
    /\ list' = InsertAt(list, i, n)
    /\ IF i = 1 /\ (\A m \in Listed : m < n) THEN UNCHANGED faults ELSE Fault
    /\ excused' = excused
          \cup {m \in {n} : \E j \in 1 .. i - 1 : Precedes(list[j], m)}
          \cup {list[j] : j \in {k \in i .. Len(list) : Precedes(n, list[k])}}
    /\ UNCHANGED <<noticeVars, pollVars, task>>

Scanning(w) == task[w].phase \in {"listing", "checking"}

(* A notice disappears from it.  Those behind are excused that a scan has  *)
(* not come to: one of them may shift to a page that it has listed.        *)
Withdraw(i) ==
    /\ list' = RemoveAt(list, i)
    /\ Fault
    /\ excused' = excused \cup
          {list[j] : j \in {k \in i + 1 .. Len(list) : \E w \in Workers :
                               Scanning(w) /\ list[k] \notin task[w].todo \cup task[w].page}}
    /\ UNCHANGED <<noticeVars, pollVars, task>>

-----------------------------------------------------------------------------
(* polled_at is the time when the cycle starts: all that it does with what *)
(* it remembers is to see whether a burst goes on.                         *)
AtPoll(state) ==
    IF state.mode = "burst" /\ state.burst THEN state ELSE PollState("steady", TRUE, FALSE)

(* run: the lease is taken, or taken again, and the time has come.         *)
StartCycle(w) ==
    /\ task[w] = NoTask
    /\ holder \in {w, NoWorker}
    /\ poll[w].due
    /\ holder' = w
    /\ poll' = [poll EXCEPT ![w] = AtPoll(poll[w])]
    /\ SetTask(w, Cycle("history", {}, "unchanged"))
    /\ UNCHANGED <<list, noticeVars, baseline, saved, excused, faults>>

(* classify_portal_error: what a request may fail with.                    *)
Failures == {"forbidden", "rate_limited", "server", "network", "other"}

(* fetch_portal_notice_or_skip: what is wrong with this notice alone.      *)
IsSkipped(failure) == failure = "other"

(* A worker's cycle ends in an error when a request fails in spite of its  *)
(* retries, unless it may skip what it asked for, or when the database     *)
(* fails.                                                                  *)
CycleFails(w) ==
    /\ task[w].phase \notin {"idle", "ended"}
    /\ Fault
    /\ End(w, "error")
    /\ UNCHANGED <<list, noticeVars, pollVars, excused>>

(* archive_recent_portal_history_if_empty: all the notices are fetched     *)
(* before the first is stored.                                             *)
LookForHistory(w) ==
    /\ task[w].phase = "history"
    /\ SetTask(w, Cycle(IF \E n \in Notices : stored[n] # "none" THEN "baseline" ELSE "recent",
                       {}, "unchanged"))
    /\ UNCHANGED <<list, noticeVars, pollVars, excused, faults>>

(* The notices from one place in the list to another.                      *)
Between(first, last) == {list[i] : i \in {j \in DOMAIN list : first <= j /\ j <= last}}

Recent == Between(1, HistorySize)

(* What is listed when a worker takes the table to be empty is excused.    *)
HistoryFetched(w, unreadable) ==
    /\ task[w].phase = "recent"
    /\ unreadable \in SUBSET Recent
    /\ IF unreadable = {} THEN UNCHANGED faults ELSE Fault
    /\ SetTask(w, Cycle("archiving", Recent \ unreadable, "unchanged"))
    /\ excused' = excused \cup Listed
    /\ UNCHANGED <<list, noticeVars, pollVars>>

Newest(todo) == {n \in todo : \A m \in todo : m <= n}

NewestFirst(todo) == Newest(todo)   \* variant: the ids are not sorted again

Oldest(todo) == {n \in todo : \A m \in todo : n <= m}

(* archive_portal_notice: nothing when there is a row.                     *)
Archive(n) ==
    /\ stored' = [stored EXCEPT ![n] = IF stored[n] = "none" THEN "archived" ELSE stored[n]]
    /\ UNCHANGED <<campaigns, bodiless, tries>>

ArchiveHistory(w) ==
    /\ task[w].phase = "archiving"
    /\ \/ \E n \in Newest(task[w].todo) :
             /\ Archive(n)
             /\ SetTask(w, Cycle("archiving", task[w].todo \ {n}, "unchanged"))
       \/ /\ task[w].todo = {}
          /\ SetTask(w, Cycle("baseline", {}, "unchanged"))
          /\ UNCHANGED noticeVars
    /\ UNCHANGED <<list, pollVars, excused, faults>>

(* The first cycle sets the baseline and ends.                             *)
LookForBaseline(w) ==
    /\ task[w].phase = "baseline"
    /\ SetTask(w, IF baseline THEN Scan("listing", 0, {}, FALSE, {})
                  ELSE Cycle("initializing", {}, "unchanged"))
    /\ UNCHANGED <<list, noticeVars, pollVars, excused, faults>>

SetBaseline(w) ==
    /\ task[w].phase = "initializing"
    /\ baseline' = TRUE
    /\ saved' = IF baseline THEN saved ELSE "steady"
    /\ End(w, "unchanged")
    /\ UNCHANGED <<list, noticeVars, holder, poll, excused, faults>>

-----------------------------------------------------------------------------
(* unobserved_notice_ids: the Portal lists a page, then the rows of its    *)
(* notices are looked up.  Pages shift when the list changes in between.   *)
Page(shift) == Between(shift + 1, shift + PageSize)

LastPage(shift) == Len(list) <= shift + PageSize

Unobserved(ids) == {n \in ids : stored[n] = "none"}

(* Variant: the ids of the first page alone.                               *)
FirstPageOnly(todo, listed) == IF todo = {} THEN Unobserved(listed) ELSE todo

Gathered(todo, listed) == todo \cup Unobserved(listed)

ListPage(w) ==
    LET t == task[w] IN
    /\ t.phase = "listing"
    /\ SetTask(w, Scan("checking", t.shift, Page(t.shift), LastPage(t.shift), t.todo))
    /\ UNCHANGED <<list, noticeVars, pollVars, excused, faults>>

(* The scan ends with a page of which a notice is stored, whatever is      *)
(* listed behind it.  (An empty page comes after the last one.)            *)
CheckPage(w) ==
    LET t == task[w]
        found == Gathered(t.todo, t.page)
    IN
    /\ t.phase = "checking"
    /\ IF Unobserved(t.page) # t.page \/ t.last
       THEN SetTask(w, Cycle("planning", found, "unchanged"))
       ELSE IF t.shift + PageSize < MaxPages * PageSize
       THEN SetTask(w, Scan("listing", t.shift + PageSize, {}, FALSE, found))
       ELSE End(w, "error")
    /\ UNCHANGED <<list, noticeVars, pollVars, excused, faults>>

(* Variant: the campaign is made whether or not the notice was stored.     *)
PlanAnyway(n) ==
    /\ stored' = [stored EXCEPT ![n] = "planned"]
    /\ campaigns' = [campaigns EXCEPT ![n] = campaigns[n] + 1]
    /\ UNCHANGED <<bodiless, tries>>

(* plan_portal_notice: the notice, its campaign and its deliveries in one  *)
(* transaction; nothing when there is a row.                               *)
Plan(n) ==
    /\ IF stored[n] = "none"
       THEN /\ stored' = [stored EXCEPT ![n] = "planned"]
            /\ campaigns' = [campaigns EXCEPT ![n] = campaigns[n] + 1]
       ELSE UNCHANGED <<stored, campaigns>>
    /\ UNCHANGED <<bodiless, tries>>

(* should_archive_as_stale_portal_notice is left open.                     *)
PlanNext(w) ==
    LET t == task[w] IN
    /\ t.phase = "planning"
    /\ \E n \in Oldest(t.todo) :
          /\ Archive(n) \/ Plan(n)
          /\ SetTask(w, Cycle("planning", t.todo \ {n}, "new_notices"))
    /\ UNCHANGED <<list, pollVars, excused, faults>>

(* The notice stays unobserved: it cannot be read, or is no longer there.  *)
SkipNotice(w, failure) ==
    LET t == task[w] IN
    /\ t.phase = "planning"
    /\ IsSkipped(failure)
    /\ \E n \in Oldest(t.todo) :
          /\ SetTask(w, Cycle("planning", t.todo \ {n}, t.outcome))
          /\ excused' = excused \cup {n}
          /\ IF n \in Listed THEN Fault ELSE UNCHANGED faults
    /\ UNCHANGED <<list, noticeVars, pollVars>>

(* portal_notice_body_backfill_ids: the newest of the bodies to be tried.  *)
ToBackfill ==
    LET wanted == {n \in bodiless : tries[n] < BodyTries} IN
    {n \in wanted : Cardinality({m \in wanted : m > n}) < BodyBatch}

PlanningDone(w) ==
    LET t == task[w] IN
    /\ t.phase = "planning"
    /\ t.todo = {}
    /\ SetTask(w, Cycle("bodies", ToBackfill, t.outcome))
    /\ UNCHANGED <<list, noticeVars, pollVars, excused, faults>>

OneMoreTry(n) == tries[n] + 1   \* variant: without LEAST

MoreTries(n) == IF tries[n] < BodyTries THEN tries[n] + 1 ELSE tries[n]

(* record_portal_notice_body_failure                                       *)
BodyFailed(n) ==
    /\ tries' = [tries EXCEPT ![n] = IF n \in bodiless THEN MoreTries(n) ELSE tries[n]]
    /\ UNCHANGED <<stored, campaigns, bodiless>>

BackfillNext(w) ==
    LET t == task[w] IN
    /\ t.phase = "bodies"
    /\ \E n \in Newest(t.todo) :
          \/ /\ bodiless' = bodiless \ {n}
             /\ SetTask(w, Cycle("bodies", t.todo \ {n}, t.outcome))
             /\ UNCHANGED <<stored, campaigns, tries>>
          \/ /\ BodyFailed(n)
             /\ \E failure \in Failures :
                   IF IsSkipped(failure)
                   THEN SetTask(w, Cycle("bodies", t.todo \ {n}, t.outcome))
                   ELSE End(w, "error")
    /\ UNCHANGED <<list, pollVars, excused, faults>>

CycleDone(w) ==
    /\ task[w].phase = "bodies"
    /\ task[w].todo = {}
    /\ End(w, task[w].outcome)
    /\ UNCHANGED <<list, noticeVars, pollVars, excused, faults>>

-----------------------------------------------------------------------------
(* Variant: burst_until is set anew by every poll.                         *)
RenewedBurst(current, outcome) ==
    CASE outcome = "error" -> PollState("cooldown", FALSE, FALSE)
      [] outcome = "new_notices" \/ (outcome = "unchanged" /\ current.mode = "burst") ->
            PollState("burst", FALSE, TRUE)
      [] OTHER -> PollState("steady", FALSE, FALSE)

(* next_portal_poll_state: from what the worker remembers.                 *)
NextPoll(current, outcome) ==
    CASE outcome = "error" -> PollState("cooldown", FALSE, FALSE)
      [] outcome = "new_notices" -> PollState("burst", FALSE, TRUE)
      [] outcome = "unchanged" /\ current.mode = "burst" -> PollState("burst", FALSE, current.burst)
      [] OTHER -> PollState("steady", FALSE, FALSE)

EndCycle(w) ==
    LET next == NextPoll(poll[w], task[w].outcome) IN
    /\ task[w].phase = "ended"
    /\ saved' = IF baseline THEN next.mode ELSE saved
    /\ poll' = [poll EXCEPT ![w] = next]
    /\ SetTask(w, NoTask)
    /\ UNCHANGED <<list, noticeVars, baseline, holder, excused, faults>>

(* A new process remembers what the row says.                              *)
Restart(w) ==
    /\ Fault
    /\ SetTask(w, NoTask)
    /\ poll' = [poll EXCEPT ![w] = IF baseline THEN PollState(saved, FALSE, saved = "burst")
                                    ELSE FirstPoll]
    /\ UNCHANGED <<list, noticeVars, baseline, saved, holder, excused>>

(* The lease is taken again in every round of the holder: it ends when one *)
(* takes too long, in the holder's cycle or out of it, or when the process *)
(* gives it back or dies.                                                  *)
LeaseEnds ==
    /\ Fault
    /\ holder # NoWorker
    /\ holder' = NoWorker
    /\ UNCHANGED <<list, noticeVars, baseline, saved, poll, task, excused>>

(* Time passes.                                                            *)
ComesDue(w) ==
    /\ ~poll[w].due
    /\ poll' = [poll EXCEPT ![w] = PollState(poll[w].mode, TRUE, poll[w].burst)]
    /\ UNCHANGED <<list, noticeVars, baseline, saved, holder, task, excused, faults>>

BurstEnds(w) ==
    /\ poll[w].burst
    /\ poll' = [poll EXCEPT ![w] = PollState(poll[w].mode, poll[w].due, FALSE)]
    /\ UNCHANGED <<list, noticeVars, baseline, saved, holder, task, excused, faults>>

-----------------------------------------------------------------------------
Step(w) ==
    \/ LookForHistory(w)
    \/ HistoryFetched(w, {})
    \/ ArchiveHistory(w)
    \/ LookForBaseline(w)
    \/ SetBaseline(w)
    \/ ListPage(w)
    \/ CheckPage(w)
    \/ PlanNext(w)
    \/ PlanningDone(w)
    \/ BackfillNext(w)
    \/ CycleDone(w)
    \/ EndCycle(w)

Next ==
    \/ \E n \in Notices : \E i \in 1 .. Len(list) + 1 : Publish(n, i)
    \/ \E i \in DOMAIN list : Withdraw(i)
    \/ \E w \in Workers :
          \/ StartCycle(w)
          \/ Step(w)
          \/ \E unreadable \in SUBSET Notices : HistoryFetched(w, unreadable)
          \/ \E failure \in Failures : SkipNotice(w, failure)
          \/ CycleFails(w)
          \/ Restart(w)
          \/ ComesDue(w)
          \/ BurstEnds(w)
    \/ LeaseEnds

Spec == Init /\ [][Next]_vars

(* A worker's requests have timeouts, a process that ended is started      *)
(* again, and time passes whatever the worker does.  Which of the workers  *)
(* gets a lease that has ended is left open.                               *)
FairSpec ==
    /\ Spec
    /\ \A w \in Workers : WF_vars(Step(w)) /\ WF_vars(ComesDue(w)) /\ WF_vars(BurstEnds(w))
    /\ WF_vars(\E w \in Workers : StartCycle(w))

-----------------------------------------------------------------------------
(* However two workers overlap and whatever a cycle left half done, a      *)
(* notice is announced at most once, and never when it was stored as       *)
(* history or as too old (archive_portal_notice, plan_portal_notice).      *)
OneFate ==
    \A n \in Notices : campaigns[n] = IF stored[n] = "planned" THEN 1 ELSE 0

(* The scan ends at the first page with a stored notice.  It misses none   *)
(* by that which the Portal lists in the order of the ids and has not      *)
(* moved (unobserved_notice_ids): as long as one is not stored, none is    *)
(* that is listed before it.  It may miss one that was not archived with   *)
(* the first history, that a worker could not read, that was put where one *)
(* listed before it may be stored first, or that shifted when another was  *)
(* withdrawn during a scan.                                                *)
NoHole ==
    \A i, j \in DOMAIN list :
        i < j /\ list[j] \notin excused /\ stored[list[j]] = "none" => stored[list[i]] = "none"

(* The scan gives up when every page that it may ask for is unobserved     *)
(* and there are more: then it will in every cycle.                        *)
OutOfReach ==
    /\ Len(list) > MaxPages * PageSize
    /\ \A i \in 1 .. MaxPages * PageSize : stored[list[i]] = "none"

(* The notices that the Portal goes on listing are all stored in the end,  *)
(* unless more of them wait than the scan can list: those that NoHole      *)
(* excepts too, wherever on the first page they are.                       *)
EveryNoticeStored ==
    []<>(\/ OutOfReach
         \/ \A i \in DOMAIN list :
               stored[list[i]] # "none" \/ (i > PageSize /\ list[i] \in excused))

(* When no more notices come and no more requests fail, polling returns    *)
(* to its steady pace: neither a notice that cannot be read nor a body     *)
(* that cannot be fetched keeps it in burst or cooldown.                   *)
BackToSteady ==
    <>[](OutOfReach \/ saved = "steady")

=============================================================================
