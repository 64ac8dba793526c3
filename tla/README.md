# A verification project for UTH Notifier

UTH Notifier crawls public Facebook pages and the university's Portal, decides which posts concern
students, and sends them to Telegram subscribers. A single Rust binary, `uth-agent`, holds every
worker; PostgreSQL holds all durable state; a Cloudflare Worker with a D1 database takes webhooks
while the server is away. Everything the workers say to each other goes through tables that are
used as queues, and every queue is drained under *leases* by processes that may crash, stall or
overlap. That is what this project models, checks with TLC and proves with TLAPS.

Paths below are relative to `src/`; `storage` is `crates/storage/src/lib.rs`, `notify` is
`apps/core-agent/src/notification_worker.rs`, `classify` is `apps/core-agent/src/classifier_worker.rs`.

## 1. Inventory

    crawl scheduler --persist_post--> outbox(post.*) --classifier--> outbox(classification.completed)
                                                                        |
       Gemini, administrator <---- reviews ----> notification planner <-+
                                                       |
                              campaigns: deliveries, digest entries  <--- Portal poller
                                                       |
                                          delivery worker, digest worker ---> Telegram
    Telegram, payOS --webhook--> D1 queue --edge reconciler--> edge inbox --> interactions, donations

| Component | State | Operations | What is hard | What makes it correct |
|---|---|---|---|---|
| Delivery queue and sender (`storage` 4466-4743, 5432-5487; `notify` 4368-4546) | `deliveries`, `delivery_attempts`, `campaigns` (file columns), `subscribers` (reachability, `next_send_at`); one task per claimed row | claim, send, complete, retry, fail, migrate, drop attachment | overlapping workers, a lease check that locks nothing, lost answers, crashes after the send, a first row that blocks the rest | a closed row stays closed; one outcome per attempt; `sent` only when Telegram took it; a stale worker writes nothing; every open row is closed in the end; uploads and chats do not collide |
| Outbox and classifier (`storage` 1987-2196, 4817-4858; `classify`) | `outbox_events`, `dead_letters`, `classifications` | store with a post, claim, complete, fail, defer | lease expiry during the work, crash, equal owner strings, two edits with one completion key | the effect of an event happens exactly once, or the event is a dead letter; nothing is stranded |
| Planner and reviews (`storage` 3026-3515, 4098-4253; `notify` 4066-4366, 4822-4838, 2587-2748) | `manual_review_resolutions`, `campaigns`, `deliveries`, `digest_items`, `subscribers.delivery_mode` | plan an explicit or a manual post, ask Gemini, inherit a duplicate's decision, four administrator commands | Gemini is asked outside any transaction; versions of one post; deferral without limit | one campaign per post; no classification falls through; a skip of the administrator stands |
| Crawl scheduler (`apps/core-agent/src/main.rs` 568-905; `storage` 1736-1985, 5056-5352) | `sources`, `posts`, `crawler_runs`, outbox keys | claim due sources, crawl in tasks, persist a report or a failure, adapt the interval, delete old runs | leases that end during long crawls; a lease checked without a lock, and by an owner string that two containers may share; one post under changing ids and URLs; edits; a count read at the claim and written at the end | as long as owner strings differ: only the last claim of a source stores; what is published after the first healthy crawl is announced with the text it is stored with, and nothing older; the idle pace is earned |
| Strategy circuit breaker and crawl report (`apps/core-agent/src/strategy_circuit.rs`, `browser.rs`; `main.rs` 907-1460; `crates/crawler/src/facebook.rs` `probe`) | in memory: failures, open-until, probe in flight | select, crawl with strategies, browser and second presentation, merge, observe | tasks of one cycle share the breaker, whose mutex is free while they crawl; a crawl that ends in an error knows no outcome; restart from the database's samples | one crawl probes a strategy at a time and always ends its probe; a report is healthy only with the yield its crawl asked for; every strategy is tried again |
| Edge worker (`apps/edge-worker/src/lib.rs`) | D1 `edge_events` | persist, pull, acknowledge | duplicate webhooks, expired pulls, lost acknowledgements | order within an aggregate; no event lost before its acknowledgement |
| Edge reconciler and inbox (`apps/core-agent/src/edge_reconciler.rs`; `storage` 686-801, 1294-1382) | `edge_inbox_events` | import, complete, reject, fail, retention | crash between import and acknowledgement; one bad event in a batch | each event is handled; none twice |
| Donations (`apps/core-agent/src/payos.rs`; `storage` 803-1292; `notify` 4722-4815) | `donation_intents`, `donation_transactions` | create, pending, failed, payment | a payment that overtakes the intent's link; a transient error rejects the event | each payment is recorded once |
| Portal notices (`notify` 973-1234; `storage` 3661-4096; `apps/core-agent/src/portal.rs`) | `portal_notices`, `portal_notice_state`; the poll state a worker remembers | store the first history, set the baseline, scan the pages, plan or archive, skip, fetch missing bodies, steady, burst and cooldown | a list that is not ordered by id and loses notices, whose pages shift while they are listed; overlapping workers; a cycle that ends half way; a notice that cannot be read | a notice is announced at most once, never when archived; no notice is left behind a stored one by the worker's doing (the list itself may put it there); the notices the scan can come to are stored; polling returns to its steady pace |
| Digests (`notify` 877-949; `storage` 4255-4464) | `digest_batches`, `digest_items`, `subscribers.next_digest_at` | list the due, prepare, claim, send, complete, retry, fail, retention | work from lists read before; outcomes that check only the owner; changes of the mode in between; retention that unbatches an item | an entry ends once, as sent only if Telegram took it; no entry is stranded while its subscriber keeps the digest |
| Subscribers, preferences, feedback (`storage` 2198-2602) | `subscribers`, feedback | short single-row transactions | races with deliveries | read by the queues above |
| Worker lease, polling offset (`storage` 2552-2589) | `worker_leases`, Telegram offset | acquire, release, advance | not renewed within a cycle | at most one worker per cycle start |
| Operational alerts (`storage` 1384-1734; `notify` 1431-1492) | `operational_alert_state` | observe, complete | status changes while the message is sent | every change is told at least once |
| Pure or external parts: rule classifier, crawler, browser agent, Gemini and Telegram clients, domain types, CLI tools, deployment scripts | none, or one run's | - | parsing, I/O | their own tests |

`PROJECT.json` lists the same components with their status, and under `hazards` each line of the
code where something can go wrong that a unit test would hardly reach.

## 2. Modules

| Module | Role |
|---|---|
| `DueOrder` | Order of the rows by `available_at` without clocks: `older[d]` is the set of due rows before `d`. |
| `DeliveryQueue` | The delivery table and its workers. |
| `AtLeastOnce` | What a delivery, or an entry of a digest, promises, for any implementation: open, then taken by Telegram any number of times, then sent (only if taken) or failed, for ever. |
| `DeliveryQueueProofs` | Theorems about `DeliveryQueue`: rows, tasks and ledger, the refinement, the order of the claim, the campaigns' files. |
| `Outbox` | The outbox, classifier and planner as its consumers. |
| `EffectOnce` | What an outbox event promises: stored, then exactly one of effect and dead letter. |
| `OutboxProofs` | Theorems about `Outbox`. |
| `Review` | Planner, Gemini, administrator and subscribers' modes. |
| `ReviewProofs` | Theorems about `Review`. |
| `EdgeEvents` | What the next two have in common: the events and the bound on faults. |
| `EdgeQueue` | D1's queue of webhooks, the reconciler, the import into the inbox and its retention. |
| `EdgeInbox` | The inbox, the notification workers that read it, the donations they record. |
| `InboxTable` | What the table `edge_inbox_events` is to both: a row is inserted where there is none, closed once, and deleted only when it is closed. |
| `EdgeProofs` | Theorems about `EdgeQueue` and `EdgeInbox`, and that both keep `InboxTable`. |
| `Crawl` | The scheduler's leases, the transaction that stores a report, the pace of a source. |
| `CrawlProofs` | Theorems about `Crawl`. |
| `StrategyCircuit` | One cycle's crawls, what their reports can be, and the circuit breaker they share. |
| `StrategyCircuitProofs` | Theorems about `StrategyCircuit`. |
| `PortalPoll` | The Portal poller. |
| `PortalProofs` | Theorems about `PortalPoll`. |
| `Digest` | The daily digests. |
| `DigestProofs` | Theorems about `Digest`. |
| `MCDeliveryQueue`, `MCOutbox`, `MCReview`, `MCEdgeQueue`, `MCEdgeInbox`, `MCCrawl`, `MCStrategyCircuit`, `MCPortalPoll`, `MCDigest` | Small instances for TLC; they only give constants their values. |

The modules meet at tables, and each stands for its neighbours by what they may do to those tables:
`Crawl` takes any report that `StrategyCircuit` may end with and emits the events that `Outbox` stores;
`Outbox` hands classifications to the planner of `Review`; `Review`, `PortalPoll` and the donations of `EdgeInbox` create campaigns whose rows
`DeliveryQueue` and `Digest` send; what `EdgeQueue` imports is what `EdgeInbox` handles, and `InboxTable` is what each supposes of the other. `AtLeastOnce` is implemented by
two queues, `DeliveryQueue` and `Digest`; `DueOrder` is used by `DeliveryQueue`, `Outbox` and `EdgeInbox`.

### DeliveryQueue

Each variable is a column (see the comments beside `VARIABLES`); `task[w][d]` is the tokio task that
`run_cycle` spawns for a claimed row. `claim_deliveries` is one SQL statement, hence one action.
`send_delivery` is cut where another process can step in: the download and upload, Telegram's
answer (`DownloadFails`, `DropAttachment`, `TelegramAccepts`, `TelegramRefuses`), then
`ensure_delivery_lease` (a `SELECT` without a lock) and the transaction's writes
(`CompleteDelivery`, `RetryDelivery`, `FailDelivery`, `MigrateDeliveryChat`). Between the two the
lease may expire and be claimed by another worker. Nothing later in the transaction needs a
cut: the insert into `delivery_attempts` takes a key-share lock on the row through its foreign key,
and the claim's `FOR UPDATE ... SKIP LOCKED` skips such a row.

Time is abstract: a lease is live or expired, `available_at` is past or not, a subscriber is in the
pause or not. A task whose lease expires, a crash, a refused transaction, a moved chat and an
invalid token are *faults*; `MaxFaults` bounds them. Everything else (throttling, transient errors,
rejections, `/start`, `/stop`) happens at will.

### Outbox

`persist_post` stores an event; the claims are one `UPDATE ... SKIP LOCKED` each. The work between the
claim and the commit is cut at the beginning of the transaction, after the check of `ensure_outbox_lease`: a plain
`SELECT EXISTS` that locks nothing, so the lease may expire and be taken over before the commit. What the transaction does at its end
is the one `UPDATE` of `mark_outbox_processed` (or its counterpart for a failure), which locks the row, checks the owner once more and
rolls the whole transaction back if it has changed: `CommitEffect` is all that becomes visible. Several post events may lead to the same classification: `CompletionOf`
maps both to one completion event, stored `ON CONFLICT DO NOTHING`. Equal owner strings are
allowed (`OwnerOf` need not be injective), since `uth-classifier-{pid}` repeats across containers.

### Review

A classification is *explicit* (announced unless Gemini objects) or *manual* (announced only when
somebody says so). `plan_event_inner` is cut between its transactions; Gemini answers send, skip
or nothing, freely. The administrator's commands run between two cycles of an idle worker, except
`notify review-send`, a process of its own. `aged` stands for the three days after which
`automatic_review_action` stops waiting. A subscriber's mode is instant, daily or none.

### EdgeQueue

The way of a webhook: `TelegramWebhook` or `PayOsWebhook`, both through `persist_event` (`INSERT OR IGNORE` into D1; an
update and a payment may have one number), `StartPull` (purge, then the `SELECT`),
one `LeaseEvent` per candidate since D1 runs each `UPDATE` by itself, `ImportEvents` (one PostgreSQL
transaction), one `AckEvent` per event, `AckAnswered`. `Interrupted` is a fault at any of these points:
a lost answer, a request that fails for good, the end of the process. `sync[r]` is what the
reconciler `r` remembers; all of it is lost when it starts again. `edition` counts the rows that D1 made for one
event: its `occurred_at` differs each time, and the import compares it. `MonthPasses` makes closed rows
old enough for the two retention jobs; it needs idle reconcilers, as no cycle lasts a month.
What a worker does with an imported event is one step here, `InboxCloses`, as `Close` in `InboxTable`. Names that `EdgeInbox` has as well
begin with `Queue` here and with `Inbox` there, so that a module can extend both.

### EdgeInbox

The import is one step here, with any events in any order, a second time too once retention has deleted the row.
A worker takes the row of `worker_leases` for a cycle (`StartCycle`, which also reads the payments of this
cycle), never renews it, and then handles its events in turn: `RecordPayment`, `ReadUpdate`, `ReplySent`, and
`SettleEvent`, which stands for the one call that ends an event (`complete_`, `reject_` or
`fail_edge_event`, the last with 3 or 5 attempts according to what failed). `WorkerLeaseEnds` during a cycle is a fault
after which a second worker overlaps with the first; the rows are not leased, so only the row counts that the
calls check (`StillPending`, otherwise `NotPending`) keep them apart. `begun` and `begunFirst` are histories for `ChatOrder`.

### Crawl

A task has two phases that other processes can see: `crawling`, until `ensure_lease` passes (`PersistBegin`) or the report is dropped
(`PersistRefused`), and `writing`, until `finish_source` finds the lease's owner (`PersistCommit`) or rolls back
(`PersistRollback`). `ensure_lease` locks nothing, so the lease may end and be taken in between. Both look at the owner *string* only, as `Shutdown`
does, which takes back every lease with it. The string is `uth-agent-{pid}` (`main.rs` 525): two containers may have the same one, and then the code
has nothing else to tell a claim from the next. `OwnerOf` gives each agent its string, equal or not; the promises of the module hold when the strings differ
(`DistinctOwners`), and section 5 says what becomes of them when not. `Persist` is the rest of the
transaction: the run, each post of the report, its outbox event, the next pace. `Found` chooses the row that each post
had already, as the three queries of `persist_post` do: by id, by URL, by time and text; a post has several ids and
permalinks, since Facebook rotates them, and `Edit` changes its content. Times are counts of publications: only their order
matters to the cutoff. `baseline`, `quiet`, `forgotten` and `loud` are histories that no action reads.

### StrategyCircuit

`Select` and `Observe` are the two critical sections of the mutex; between them a task crawls for as long as it likes.
`CrawlEnds` is the relation of a crawl's settings and its possible reports: `Probes` (strategies in their order, stopping after the first healthy
one), `Crawled` (the browser may add posts, or leave the newest unresolved), `Targets` (the second presentation and
`merge_presentation_reports`). `FailCrawl` is a crawl that ends in an error: every enabled strategy without an outcome
has failed. `Restart` takes the last samples from the database. A task selects first of all, so the cooldown, minutes long,
is taken not to end while one has yet to select; a crawl from before the opening could otherwise end the probe of a later one.

### PortalPoll

`task[w].phase` is where a worker stands in `run_portal_cycle`: each phase ends at the next request to the Portal or
the next transaction. `list` is what the Portal lists, in the order of its pages, and may be in any order: the repository's tests list a known 1443 before a
new 1444 (`portal.rs` 978) and let a notice disappear (`portal.rs` 998). `Publish` puts a notice at any place of the list and `Withdraw`
takes any one out, also between two requests of a scan, whose pages then shift (`ListPage`, `CheckPage`). The scan ends with
the first page of which a notice is stored (`portal.rs` 216-219), so what the list puts behind a stored notice, on a later page, is never looked for, and what a withdrawal shifts to
a page that was already listed is stepped over. The history `excused` names these notices, and no others:

- one that was put behind another that may be stored first: that has a lower id, or is stored, or is in a worker's hands (`Precedes`);
- one before which another was put that may be stored first;
- one behind a withdrawn notice that a scan in progress had not come to;
- one listed when a worker takes the table to be empty: it is meant to be history, of which only the newest are archived;
- one that a worker could not read (`SkipNotice`).

A notice is stored with a campaign (`Plan`) or without one (`Archive`);
both do nothing if there is a row. `poll[w]` is the
state in memory, `saved` the one in the database, which only `Restart` reads. `LeaseEnds` lets a second worker overlap.

### Digest

One cycle of a worker: `ListDue`, `PrepareDigest` per subscriber of that list, `ClaimDigests`, then `SendDigest` and one of
`CompleteDigest`, `RetryDigest`, `FailDigest` per claim, one after the other. Only `CompleteDigest` looks at the lease's end; the others look at
the owner string alone, `uth-notify-{pid}` (`notify` 573), which is the same for two workers in the run: what a stale worker reports under it
is a report about the same text, and all promises hold. How many items fit into a message is arbitrary. `ApplyRetention` deletes old items and
batches; a batch that is deleted leaves its items unbatched (`ON DELETE SET NULL`), which the order of ages must make harmless.
`items` are the rows of `digest_items`, `batchOf` their `digest_batch_id`; a batch keeps the items that its text was made of (`news`),
whatever becomes of their rows.

## 3. Runs

| Run | Instance | Question |
|---|---|---|
| `delivery_race` | 2 workers, 1 row with a file, 2 attempts, 2 faults, fair | Can overlapping workers, stale leases and lost answers corrupt the row, its ledger or its campaign, or keep the row open for ever? No. |
| `delivery_batch` | 1 worker, 3 rows, 2 campaigns with files, 2 subscribers | Do the subqueries of the claim keep order and uploads apart without blocking each other? Yes. |
| `outbox` | 2 classifiers with one owner string, 1 planner, 2 edits, 1 completion | Exactly-once effects, no stranded event, refinement of `EffectOnce`. |
| `review` | 2 planners, an explicit version and a manual edit of one post, 1 subscriber | One campaign per post, nothing dropped, the administrator's skip stands, every event processed. |
| `review_reversal` | the same, 1 planner | Finding: `/ai_reject` may not stop the announcement. |
| `edge_queue` | 2 reconcilers with one owner string, 2 events of equal sequence, 2 rows per event, 2 faults | Is anything lost, given out again or stuck between Cloudflare and PostgreSQL? No, unless a webhook is repeated too late (section 6). |
| `edge_inbox` | 2 workers, 2 updates of one chat (one malformed), 1 payment, 1 fault | Order per chat, payments counted once, no event stuck, with overlapping workers. |
| `edge_payment` | 1 worker, 1 update, 1 payment | Finding: a payment is not recorded after a failure of the database. |
| `crawl` | 2 agents with different owner strings, 1 source, 2 posts (1 old; the other with 2 ids and 2 URLs), 2 contents, 3 claims, 1 edit, 1 fault | Do overlapping crawls, rotating ids and edits ever store a stale report, announce an old post or lose a new one? No. |
| `strategy_circuit` | 2 sources, one of them with a people route and a second presentation, 2 strategies, 2 posts, threshold 2, 1 restart | Is a probe ever left behind or doubled, is health always earned, is each strategy tried again? No, yes, yes. |
| `portal` | 2 workers, 4 notices (2 of them at first, 1 perhaps stored already), page size 1, 3 pages; newer notices at the head, and 1 fault or other change of the list | Can shifting pages, overlapping workers and half-done cycles repeat a notice or leave one behind, other than those the list itself moves behind a stored one, or keep polling out of its steady pace? No. |
| `digest` | 2 workers with one owner string, 1 subscriber, 2 campaigns, 2 attempts, 1 fault | Do entries end once, and each in the end, whatever the user, the lease and the retention do? Yes. |

*Bounds.* Two workers are enough for a stale writer and its successor; a third could only repeat
the successor's part, and the theorems cover any number. Two attempts give a first failure and the
exhausted one. Three rows give the smallest set in which both subqueries of the claim matter
at once: two rows share a campaign and two share a subscriber. Two faults let a lease expire under a
worker and its successor fail as well. One post with two versions is the smallest on which the rule
"one campaign per post" differs from `campaigns.classification_id UNIQUE`. Two events of one order have the same
`sequence`, for which migration 0024 dropped a unique index; two rows per event (`MaxEditions`) are the smallest number at
which `occurred_at` can differ. In `edge_inbox` the limits 1 and 2 stand for 3 and 5 attempts: the first is reached at
once, the second after a retry. One deletion (`MaxDeletions`) lets an event be imported and handled a second time.
In `crawl` three claims of a source give an initial crawl, one that is overtaken and its successor; two of the three ids and URLs belong to
one post, the least with which a post can come back under another name, and one edit makes its text differ as well. With `IdleAfter` 2 the
idle pace takes two quiet crawls after the initial one. Agents, contents and the names of a post are interchangeable, so `crawl`, which
checks no liveness, uses their symmetry. In `strategy_circuit` two concurrent crawls are one that probes and one that began before the
circuit opened; a threshold of 2 separates a first failure from the opening one. In `portal` a page of one notice makes every publication shift a page,
and three new notices beside a stored one are more than three pages show. `MaxFaults` bounds faults and the Portal's unusual changes together (a notice
withdrawn, or put elsewhere than, as the newest, at the head). The properties also hold with pages of two notices (one page of them with two notices at first; two
pages with one), and with two faults over three notices, in instances too large to be run each time. With any one of the
five kinds of `excused` notices left out of it, TLC finds `NoHole` violated; without `OutOfReach`, or with only a part of the first page, `EveryNoticeStored`. In `digest` two campaigns are the smallest number of which one may not fit.
The theorems of section 5 hold for every number, so the bounds only matter to what is model-checked alone.

*Deadlock* is checked except in `Outbox.cfg`, where the system rests once every event is processed, and in `Crawl.cfg`, where the
bound on claims lets it rest. Elsewhere some process can always begin a cycle, or a user may start, stop or change the mode.

*Findings.* Both are disagreements between what README.md (and a message to the donor) says and the code; each is a violation run, and
PROJECT.json quotes the line. README.md line 50 calls the workers' operations idempotent under the heading "against sending twice":
at-least-once is inherent in sending before committing, so a message may arrive twice after a lost answer or a crash. What
the queues do keep is stated as `AtLeastOnce`, checked and proved for deliveries and for the entries of digests.

## 4. Fairness

- Workers: weak fairness of each task's next step. A tokio task that is not killed runs on, and
  every call inside has a timeout (HTTP clients, SQL pool).
- Claims: weak fairness of each worker's claim in `DeliveryQueue` and `Outbox`: the loops (`notify` `run`, `classify` `run`) claim again after
  every cycle. In `Review` the claim of an event is strongly fair: the oldest rows come first, but a claim is disabled while
  the worker is busy.
- Time: weak fairness of lease expiry, of `available_at` and of the pause.
- Edge: the reconciler and the notification worker are started again whenever they end (the container's restart
  policy) and loop for ever, with a timeout on each request: weak fairness of their steps. A worker's cycle begins
  under strong fairness, since the lease row may be held by another each time it looks. Nothing is assumed
  of the senders of webhooks.
- `StrategyCircuit`: weak fairness of a new cycle, of `Select` and of the end of a crawl, whose requests, retries and browser runs all have timeouts
  (and whose browser leaves no process that holds its pipes); strong fairness of the cooldown's end, as the clock runs while crawls fail again.
- `PortalPoll`: weak fairness of each worker's steps and of the clock; that some worker with the lease, or able to take it, begins its cycle.
- `Digest`: weak fairness of each worker's next step, of a subscriber's hour, and of lease ends and retry times.
- Nothing is assumed of Gemini, of the administrator, of subscribers or of Telegram's answers. In
  `delivery_race` a row may be throttled until its attempts are used up; it is then `failed`,
  which is what the property asks. Faults are bounded, so a chat whose migration can never be stored, and an
  invalid token, both retried without limit in the code, are outside that result.

## 5. Proofs

Assumptions: the named `ASSUME`s of each module, i.e. finite or arbitrary sets of rows and
workers, functions of the right type, positive limits. `FencedWrites`, `FencedEnds` and the four theorems about `Crawl` other than its types also assume distinct owner strings
(`DistinctOwners`), without which TLC finds each of them violated; no other theorem does.

**DeliveryQueue.** `TypeOK` is inductive by itself. `OneOutcomePerClaim` is not: it needs `TaskInv`
(a task's attempt is at most the row's, at most one busy task per row and attempt, and a task
whose result is `sent` has its attempt among the accepted ones) and `LedgerInv` (no outcome is recorded for an
attempt that a busy task still holds, nor above the row's counter). `ClaimPreserves` shows that a
claim opens a fresh attempt number; `TaskMovePreserves` that each task step keeps or frees it. Closed rows
are untouched because a closed row has no owner, and every write requires the owner. The
refinement maps a row to its status and the accepted set; `RowMoves` says how a step may move a row
at all, and each case is a step of `AtLeastOnce` or a stutter.

**The claim's order**, in the same module: `older` stays a strict total order of the due rows
(`OrderInv`). Two rows of one batch with one subscriber would each have to come before the other
(`BatchesAreApart`), hence `OneMessagePerChat` and `OneUploadPerCampaign`. For `ClaimProgress` the first of all rows that
may be sent now passes both subqueries; it exists (`FirstExists`) because the rows are finitely many and the rows
before a row grow along the order, so that a smallest number of predecessors can be taken (`WFMin`).

**Outbox.** `ExactlyOnce` needs that an open event has had no effect and that a task in the middle of
its work holds no lock on the outcome: the commit checks `lease_owner` under a row lock and takes the
event out of the queue in the same transaction, so even equal owner strings cannot commit twice.
`CompletionStored` follows with the uniqueness of the completion key; the refinement with both. `EventMoves` says what a step may do to an event's attempts,
owner and tasks. From it come `AttemptsInv` (a task is never ahead of its row), hence `GivenUpLate`, and, if owners differ, `Fenced`
(a task whose owner is on the row is the last claim's), hence `FencedEnds`: an expired lease that nobody took over still ends the event, one that was taken over does not.

**Review.** The strengthening is `TaskInv`: a manual review reaches its planning step only once it is resolved
and without a message; an explicit post reaches it with a message unless Gemini refused it. `StepOutcome`
shows that a step settles the outcome of at most one classification, and under which conditions it may create
a campaign; `OneCampaignPerPost` and `ManualSkipStands` follow from those conditions. So do `LateSkipStands`, which leaves for the finding
`ReversalStands` only a rejection that comes before the event is processed, and `AddressesSettle`;
`NothingDropped` from `TaskInv` and from `OutcomesStay` (resolutions and campaigns are never withdrawn).

**EdgeQueue.** `NoEventLost` is not inductive: a reconciler in the middle of its acknowledgements would acknowledge
anything. `ImportedFirst` adds that what it has still to acknowledge, what is acknowledged, and what D1 has purged was imported,
which `ImportEvents` establishes before the first acknowledgement and no lost answer undoes.

**EdgeInbox.** `WorkInv` says what has happened to the event in a worker's hands: a payment to be confirmed is recorded,
an update after its reply is answered. `MayEnd` then lists how a row may be closed, and `TableMoves` that every step closes a row
in this way or not at all; `OutcomesAreEarned` and `ClosedForGood` follow. `ChatOrder` and `LedgerAgrees` are
inductive with the types; neither needs the worker's lease, which is why overlapping workers do no harm there.

*What the finding `PaymentsAreKept` leaves.* `LossesAreFaults` bounds the payments that are closed without being recorded by the number
of faults, so the rejection after an error of the database is the only way to lose one. `PaymentsAreLinked` is the strengthening:
a payment in the inbox belongs to an order whose link was stored, and an order never goes back (`LinksStay`), so
`record_donation_payment` cannot refuse it for its order's state. `PaymentSettled` goes through the ways an event may end.

*The two together.* `ReconcilerKeepsIt` and `WorkersKeepIt` show that both modules implement `InboxTable`, the first with `inbox`
for the table, the second with processed and dead-lettered rows both as closed. So the step `InboxCloses` of `EdgeQueue` is all that
`EdgeInbox` does to the rows, and the imports of `EdgeInbox`, any absent events at any time, include all that `EdgeQueue` does.

**Crawl.** The key is `ClaimInv`: a task whose agent still owns the source works for the source's last claim, so nobody has stored anything
for the source since, the count it read is still the row's, and the first healthy run, if there is one, is not later than its
report. It holds because a claim takes the source from its owner unless that owner has no task left, and a commit clears the owner. `RunInv` keeps the first healthy run among the stored runs (or records that retention deleted
it), which is what the cutoff's query reads; `PaceInv` bounds the row's count by the true one. The commit is the one step that
stores; `PersistRuns`, `PersistPace`, `PersistEvents` and `PersistNews` treat its effect on one part each, `QuietStep` all the steps that store
nothing. Retention may delete the first healthy run; the cutoff then moves forward, never back, so `OnlyNewsAnnounced` needs no exception and the others name one.

`ClaimInv` needs `DistinctOwners`: under one string an overtaken agent owns the source as much as its successor does, passes `ensure_lease` and `finish_source`, and
commits. With equal strings TLC finds `LastClaimPersists` violated with three claims of a source; `OnlyNewsAnnounced` with four
(an overtaken healthy crawl with an earlier time moves the cutoff back, and an edit of a post that was silent is announced); `NewsAnnounced` with four
(an overtaken initial crawl stores an edit with its events suppressed); and `IdleIsEarned` with five (an overtaken task writes back the count it read). That is what the code
does in two containers whose agents have one process id.

**StrategyCircuit.** `OneProbe` needs `NoneLeft`: no crawl still uses a strategy whose cooldown has elapsed and that is not being
probed, while a task has yet to select. Otherwise a crawl from before the opening could end the probe of another. It holds because the
cooldown does not end between the start of a task and its select (`CooldownElapses`), and a new cycle starts after all tasks were joined. `HealthIsEarned` follows from `EndsEarned`: `Earned`
passes from the probes through the browser's posts and the merge of two presentations to every report of `CrawlEnds`.

**PortalPoll.** A notice is *unsettled* while it is neither stored nor excused. `NoHole` says that before an unsettled notice of the list none is stored. It is not inductive:
a cycle that stores a notice before an unsettled one would break it. `Order` adds that an unsettled notice has no lower id listed before it, so that the order of storing, by id, is
the list's from behind; `ScanInv` says of every cycle in progress that the unsettled notices behind (`Behind`) anything it has gathered are gathered as well or on a page it has yet to
list, however the pages shifted (`TaskOK`). `PublishStep` and `WithdrawStep` are where the list changes: what `Publish` puts in and `Withdraw` takes out moves the places of
the others (`InsertFacts`, `RemoveFacts`), and `excused` takes exactly those for which one of the three parts would fail. `PageGathered` is the
step from page to page, `OldestFirst` the order of storing; a restart only forgets. Overlapping workers share no state but the table and the list, so `TaskOK` is about each alone.

**Digest.** `ItemsMatch` ties the two tables: an item's batch is one of its subscriber that has the item in its text. It survives the preparation because
the transaction reads the items again under their locks (`PrepareInv`), and the retention because ids of batches are not used again. With
`ToldWhatIsSent` (a worker that was answered "sent" has told the subscriber all entries of that batch) a report may end entries as
sent only if they were told (`ReportMoves`). `RetentionMoves` is where the order of ages matters: an item is deleted before the
batch that closed it, or with it, so the deletion of a batch never reopens an entry. `NewsType` shows that a batch is never empty: the oldest
candidate always fits. A step may move one subscriber's entries in one direction only (`NextMoves`), which is a step of
`AtLeastOnce` for each entry or a stutter.

**Proved without a run of their own**: `ClosedForever`, `SentWasAccepted`, `UploadedFileKept` (DeliveryQueue); `ExactlyOnce`,
`CompletionStored`, `GivenUpLate`, `FencedEnds` (Outbox); `LateSkipStands`, `AddressesSettle` (Review); `AcknowledgedForGood`, `ReconcilerKeepsTable` (EdgeQueue); `OutcomesAreEarned`, `ClosedForGood`,
`LossesAreFaults`, `WorkersKeepTable` (EdgeInbox). TLC finds no counterexample to them on the instances of section 3 either
(`FencedEnds` with three owner strings instead of two).

**Only model-checked.** Liveness (`EventuallyClosed`, `NoStrandedEvent`, `EventuallyPlanned`, `EveryEventArrives`,
`EveryEventSettles`, `TriedAgain`, `EveryNoticeStored`, `BackToSteady`, `EveryEntrySettles`): fairness is out of the prover's reach. Every
safety invariant, action property and refinement that a passing run checks is also a theorem.

## 6. Not modelled

- Operational alerts: one row per kind, written by the holder of the worker's lease; what could be wrong is the health query behind it, a report
  over all tables. Source suggestions and the remaining commands are single-row transactions.
- Delivery of users' feedback to the administrator: it stops at the first message that fails and has no limit on attempts, so it promises nothing to check.
- The polling mode of Telegram (`getUpdates` and its offset), which the edge inbox replaces.
- Retention of closed deliveries and of processed outbox events: they delete rows that were closed
  long ago. The retention of the inbox, of crawler runs and of digests is modelled, as it can bring something back.
- A campaign that is addressed again after a subscriber changed the mode: `plan_notification` may then leave a delivery and a digest entry
  of one campaign, if the change comes before the event is processed (`AddressesSettle`). The code states no promise about it.
- Which of a stop or start and a concurrent refusal by Telegram wins: `fail_delivery` deactivates the subscriber whatever was
  written since the send. `DeliveryQueue` takes the step; nothing is promised. A chat whose new id belongs to another subscriber is retried for ever; it is a bounded fault.
- That every Portal notice is stored: the code does not do it. `NoHole` excepts the notices in `excused` (section 2, PortalPoll), `EveryNoticeStored` those of them that are not on
  the first page, and notices that are no longer listed; when more new ones wait than the scan can list, it stops in every cycle (`OutOfReach`).
- A Portal notice that can never be read: each time one is skipped counts as a fault while it is listed, and faults are bounded, so `BackToSteady` is about readable notices in the
  long run. (Skipping does not make the outcome `new_notices`, so the pace would not change.) A body that can never be fetched is covered.
- The merge of two presentations may forget that the browser could not confirm the route, or that the newest post was unresolved: it judges anew by the number of posts. That
  is how `merge_presentation_reports` means it; `HealthIsEarned` is about the yield and does not tell such reports apart.
- A webhook that is repeated after D1 purged the acknowledged event, while the inbox still has its row: the new row has another
  `occurred_at`, the import refuses the batch, and the queue stands still. It takes a sender that repeats after 30 days and a
  longer retention in PostgreSQL; `RepeatedTooLate` excludes it from `EveryEventArrives`, and without that disjunct TLC
  finds it.
- payOS events whose payload reports no success are completed without being recorded; signatures and size limits of
  webhooks change no state.
- Message wording, entities, keyboards, quiet hours, scopes: they choose the text, the hour or who is
  addressed, not the order of state changes.
- The rule classifier, the parsers of the crawler and of the Portal, the scripts in the browser: deterministic functions of external
  pages with no shared state. Evaluation tools, backup, restore and deployment: offline or pure I/O.

## 7. Plan

Done: the delivery queue, outbox, reviews, edge pipeline, crawl scheduler, circuit breaker, Portal poller and digests with their runs, and the
theorems about the safety of all of them. What would come next:

1. One composed specification of the edge pipeline, from the webhook to the recorded payment; `InboxTable` is the interface it needs.
2. The polling mode of the interactions with its offset; operational alerts around their message.
