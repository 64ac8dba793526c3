------------------------------- MODULE Crawl -------------------------------
(***************************************************************************)
(* The crawl scheduler and the tables it writes (core-agent main.rs:       *)
(* crawl_scheduled, run_scheduler_cycle, run_scheduled_source; storage:    *)
(* claim_due_sources, persist_scheduled_report, persist_failure,           *)
(* persist_post, finish_source, apply_retention).                          *)
(*                                                                         *)
(* An agent leases the sources that are due, crawls each in a task of its  *)
(* own, writes each report in one transaction and claims again only when   *)
(* all its tasks have ended.  The transaction looks at the lease when it   *)
(* begins, without locking anything, and at its owner when it ends, both   *)
(* times by the owner string, uth-agent-{pid}: two agents in containers of *)
(* their own may have the same one.  What is said below of an agent's own  *)
(* claim holds where they have not (DistinctOwners).  A transaction is one *)
(* step, its commit: with strings that differ, no other one of the source  *)
(* commits between its first write and its end.                            *)
(* What a crawl makes of the page is any report that the page allows; how  *)
(* strategies and browser produce it is the matter of StrategyCircuit.     *)
(***************************************************************************)
EXTENDS Integers, Sequences, FiniteSets

CONSTANTS
    Sources,
    Posts,           \* the posts of the sources' pages
    Old,             \* those that were there before the sources were added
    SourceOf,
    Ids,             \* external_post_id
    PostOf,          \* Facebook may show a post under several ids ...
    Urls,            \* canonical_url ...
    PostOfUrl,       \* ... of which a post may have several too
    Hashes,          \* content_hash
    TextOf,          \* what same_post_content compares
    NoItem,
    NoRow,
    Agents,
    Owners, NoOwner, \* lease owners ...
    OwnerOf,         \* ... uth-agent-{pid}
    Concurrency,     \* limit of a claim
    MinimumYield,    \* posts that make a report healthy
    ActiveAfter,     \* active_unchanged_crawls
    IdleAfter,       \* idle_after_unchanged_crawls
    NotifyExisting,  \* --notify-existing-posts
    MaxClaims,       \* bound: claims of a source
    MaxEdits,        \* bound on the edits of posts
    MaxFaults        \* bound on the faults of a behaviour

ASSUME CrawlAssumption ==
    /\ SourceOf \in [Posts -> Sources]
    /\ IsFiniteSet(Posts) /\ Old \in SUBSET Posts
    /\ PostOf \in [Ids -> Posts]
    /\ PostOfUrl \in [Urls -> Posts]
    /\ NoOwner \notin Owners
    /\ OwnerOf \in [Agents -> Owners]
    /\ NoItem \notin [id : Ids, url : Urls, hash : Hashes]
    /\ NoRow \notin [url : Urls, hash : Hashes]
    /\ Concurrency \in Nat \ {0}
    /\ MinimumYield \in Nat \ {0}
    /\ ActiveAfter \in Nat \ {0}
    /\ IdleAfter \in Nat /\ IdleAfter > ActiveAfter
    /\ NotifyExisting \in BOOLEAN
    /\ MaxClaims \in Nat /\ MaxEdits \in Nat /\ MaxFaults \in Nat

VARIABLES
    now,        \* number of publications so far: the order of times is all that matters
    published,  \* when a post was published; 0: it was not yet
    content,    \* the content of a post on its page
    edits,      \* history: edits so far, bounded by MaxEdits
    owner,      \* sources.lease_owner
    live,       \* lease_expires_at is in the future
    due,        \* next_crawl_at has passed
    failures,   \* sources.failure_count
    unchanged,  \* sources.unchanged_crawl_count
    pace,       \* which interval the last run chose for next_crawl_at
    runs,       \* crawler_runs of a source, oldest first
    row,        \* posts, by external_post_id
    events,     \* keys of the facebook_post outbox events
    task,       \* the agents' tasks
    claims,     \* history: claims of a source so far
    baseline,   \* history: fetched_at of the first healthy run of a source; 0: none
    quiet,      \* history: healthy runs of a source since one that inserted a post
    forgotten,  \* history: sources of which retention deleted a healthy run
    loud,       \* history: posts first stored by a crawl that was not the initial one
    faults      \* history: faults so far, bounded by MaxFaults

pageVars == <<now, published, content, edits>>
leaseVars == <<owner, live, due>>
paceVars == <<failures, unchanged, pace>>
postVars == <<row, events, loud>>
runVars == <<runs, baseline, quiet, forgotten>>
vars == <<pageVars, leaseVars, paceVars, postVars, runVars, task, claims, faults>>

-----------------------------------------------------------------------------
Items == [id : Ids, url : Urls, hash : Hashes]
Rows == [url : Urls, hash : Hashes]
Runs == [at : Nat, healthy : BOOLEAN, posts : Nat]

Nothing == [p \in Posts |-> NoItem]

Task == [phase : {"idle", "crawling", "writing"}, claim : Nat, initial : BOOLEAN,
         unchanged : Nat, floor : Nat, at : Nat, healthy : BOOLEAN,
         seen : [Posts -> Items \cup {NoItem}]]

NoTask == [phase |-> "idle", claim |-> 0, initial |-> FALSE, unchanged |-> 0,
           floor |-> 0, at |-> 0, healthy |-> FALSE, seen |-> Nothing]

Crawling(s, initial, floor) ==
    [phase |-> "crawling", claim |-> claims[s] + 1, initial |-> initial,
     unchanged |-> unchanged[s], floor |-> floor, at |-> now, healthy |-> FALSE,
     seen |-> Nothing]

(* The task t with its report, its transaction begun.                      *)
Writing(t, at, healthy, seen) ==
    [phase |-> "writing", claim |-> t.claim, initial |-> t.initial,
     unchanged |-> t.unchanged, floor |-> t.floor, at |-> at, healthy |-> healthy,
     seen |-> seen]

TypeOK ==
    /\ now \in Nat
    /\ published \in [Posts -> Nat]
    /\ content \in [Posts -> Hashes]
    /\ edits \in 0 .. MaxEdits
    /\ owner \in [Sources -> Owners \cup {NoOwner}]
    /\ live \in [Sources -> BOOLEAN]
    /\ \A s \in Sources : live[s] => owner[s] # NoOwner
    /\ due \in SUBSET Sources
    /\ failures \in [Sources -> Nat]
    /\ unchanged \in [Sources -> Nat]
    /\ pace \in [Sources -> {"active", "normal", "idle", "backoff"}]
    /\ runs \in [Sources -> Seq(Runs)]
    /\ row \in [Ids -> Rows \cup {NoRow}]
    /\ events \in SUBSET (Ids \X Hashes)
    /\ task \in [Agents -> [Sources -> Task]]
    /\ claims \in [Sources -> Nat]
    /\ baseline \in [Sources -> Nat]
    /\ quiet \in [Sources -> Nat]
    /\ forgotten \in SUBSET Sources
    /\ loud \in SUBSET Posts
    /\ faults \in 0 .. MaxFaults

(* upsert_sources adds a source due at once; its page has the old posts.     *)
Init ==
    /\ now = 1
    /\ published = [p \in Posts |-> IF p \in Old THEN 1 ELSE 0]
    /\ content \in [Posts -> Hashes]
    /\ edits = 0
    /\ owner = [s \in Sources |-> NoOwner]
    /\ live = [s \in Sources |-> FALSE]
    /\ due = Sources
    /\ failures = [s \in Sources |-> 0]
    /\ unchanged = [s \in Sources |-> 0]
    /\ pace = [s \in Sources |-> "normal"]
    /\ runs = [s \in Sources |-> <<>>]
    /\ row = [i \in Ids |-> NoRow]
    /\ events = {}
    /\ task = [a \in Agents |-> [s \in Sources |-> NoTask]]
    /\ claims = [s \in Sources |-> 0]
    /\ baseline = [s \in Sources |-> 0]
    /\ quiet = [s \in Sources |-> 0]
    /\ forgotten = {} /\ loud = {} /\ faults = 0

Fault == /\ faults < MaxFaults
         /\ faults' = faults + 1

-----------------------------------------------------------------------------
(* The pages.                                                              *)
Publish(p) ==
    /\ published[p] = 0
    /\ now' = now + 1
    /\ published' = [published EXCEPT ![p] = now + 1]
    /\ UNCHANGED <<content, edits, leaseVars, paceVars, postVars, runVars, task, claims, faults>>

Edit(p, h) ==
    /\ edits < MaxEdits
    /\ published[p] # 0 /\ h # content[p]
    /\ edits' = edits + 1
    /\ content' = [content EXCEPT ![p] = h]
    /\ UNCHANGED <<now, published, leaseVars, paceVars, postVars, runVars, task, claims, faults>>

-----------------------------------------------------------------------------
(* claim_due_sources                                                       *)
Healthy(s) == {k \in DOMAIN runs[s] : runs[s][k].healthy}

InitialCrawl(s) == Healthy(s) = {}

(* A run failed or degraded and no healthy one with two posts came after.  *)
Unreconciled(s) ==
    \E k \in DOMAIN runs[s] \ Healthy(s) :
        \A l \in Healthy(s) : l > k => runs[s][l].posts < 2

Claimable(s) ==
    /\ s \in due
    /\ owner[s] = NoOwner \/ ~live[s]
    /\ claims[s] < MaxClaims

(* recent: an unreconciled run is less than six hours old.                 *)
Floor(s, recent) ==
    IF (failures[s] > 0 \/ (recent /\ Unreconciled(s))) /\ MinimumYield < 2
    THEN 2
    ELSE MinimumYield

Claim(a, batch, recent) ==
    /\ \A s \in Sources : task[a][s] = NoTask
    /\ batch # {} /\ Cardinality(batch) <= Concurrency
    /\ \A s \in batch : Claimable(s)
    /\ owner' = [s \in Sources |-> IF s \in batch THEN OwnerOf[a] ELSE owner[s]]
    /\ live' = [s \in Sources |-> IF s \in batch THEN TRUE ELSE live[s]]
    /\ claims' = [s \in Sources |-> IF s \in batch THEN claims[s] + 1 ELSE claims[s]]
    /\ task' = [task EXCEPT ![a] =
                   [s \in Sources |-> IF s \in batch
                                      THEN Crawling(s, InitialCrawl(s), Floor(s, recent))
                                      ELSE NoTask]]
    /\ UNCHANGED <<pageVars, due, paceVars, postVars, runVars, faults>>

EndTask(a, s) == task' = [task EXCEPT ![a] = [task[a] EXCEPT ![s] = NoTask]]

-----------------------------------------------------------------------------
(* The ids that the page's objects give a post, and its permalinks in     *)
(* their canonical form.                                                   *)
PostIds(p) == {i \in Ids : PostOf[i] = p}

Permalinks(p) == {u \in Urls : PostOfUrl[u] = p}

(* A post as a crawl may find it: under any of its ids and permalinks,     *)
(* with the content it has now.                                            *)
Shown(p) == [id : PostIds(p), url : Permalinks(p), hash : {content[p]}]

(* What a crawl may report: any part of the page.                          *)
Reports(s) ==
    {seen \in [Posts -> UNION {Shown(p) : p \in Posts} \cup {NoItem}] :
        \A p \in Posts : seen[p] # NoItem =>
            SourceOf[p] = s /\ published[p] # 0 /\ seen[p] \in Shown(p)}

Yield(seen) == Cardinality({p \in Posts : seen[p] # NoItem})

HoldsLease(a, s) == owner[s] = OwnerOf[a] /\ live[s]

(* The crawl ends and its transaction begins: ensure_lease.  A report is   *)
(* healthy only with enough posts, and may be degraded in spite of them; a *)
(* crawl that ended in an error (persist_failure) is one that saw nothing. *)
PersistBegin(a, s) ==
    LET t == task[a][s] IN
    /\ t.phase = "crawling"
    /\ HoldsLease(a, s)
    /\ \E seen \in Reports(s) : \E at \in t.at .. now : \E healthy \in BOOLEAN :
          /\ healthy => Yield(seen) >= t.floor
          /\ task' = [task EXCEPT ![a] = [task[a] EXCEPT ![s] = Writing(t, at, healthy, seen)]]
    /\ UNCHANGED <<pageVars, leaseVars, paceVars, postVars, runVars, claims, faults>>

(* The lease ran out while the source was crawled: the report is dropped.  *)
PersistRefused(a, s) ==
    /\ task[a][s].phase = "crawling"
    /\ ~HoldsLease(a, s)
    /\ EndTask(a, s)
    /\ UNCHANGED <<pageVars, leaseVars, paceVars, postVars, runVars, claims, faults>>

-----------------------------------------------------------------------------
(* persist_post.  The rows that a post may be stored in already: the one   *)
(* of its id, else one of its URL, else one of the same time and content.  *)
RowsOf(p) == {i \in Ids : PostOf[i] = p /\ row[i] # NoRow}

SameUrl(item) == {i \in RowsOf(PostOf[item.id]) : row[i].url = item.url}

SameText(item) == {i \in RowsOf(PostOf[item.id]) : TextOf[row[i].hash] = TextOf[item.hash]}

Existing(item) ==
    IF row[item.id] # NoRow THEN {item.id}
    ELSE IF SameUrl(item) # {} THEN SameUrl(item) ELSE SameText(item)

(* found: the existing rows that the queries returned, one for each post   *)
(* of the report that has any.                                             *)
Found(seen, found) ==
    /\ \A i \in found : seen[PostOf[i]] # NoItem /\ i \in Existing(seen[PostOf[i]])
    /\ \A i, j \in found : PostOf[i] = PostOf[j] => i = j
    /\ \A p \in Posts : seen[p] # NoItem /\ Existing(seen[p]) # {} => \E i \in found : PostOf[i] = p

New(p, found) == \A i \in found : PostOf[i] # p

(* Variant: a post that comes under another id is not compared.            *)
ChangedInPlace(p, seen, found) ==
    /\ seen[p] # NoItem
    /\ \A i \in found : PostOf[i] = p => i = seen[p].id /\ TextOf[row[i].hash] # TextOf[seen[p].hash]

(* The post is new or its content is another one (same_post_content).      *)
Changed(p, seen, found) ==
    /\ seen[p] # NoItem
    /\ \A i \in found : PostOf[i] = p => TextOf[row[i].hash] # TextOf[seen[p].hash]

(* The row is stored under the id that the post has now.                   *)
StoredRow(i, seen, found) ==
    LET item == seen[PostOf[i]] IN
    IF item = NoItem THEN row[i]
    ELSE IF item.id = i THEN [url |-> item.url, hash |-> item.hash]
    ELSE IF i \in found THEN NoRow ELSE row[i]

AnyTime(s, p, t) == TRUE   \* variant: without the cutoff

(* published_at > min(fetched_at) of the source's healthy runs, of which   *)
(* this is one if it is healthy; without one, fetched_at of this run.      *)
AfterCutoff(s, p, t) ==
    \/ \E k \in Healthy(s) : published[p] > runs[s][k].at
    \/ (t.healthy \/ InitialCrawl(s)) /\ published[p] > t.at

Emitted(s, t, found) ==
    {p \in Posts : /\ Changed(p, t.seen, found)
                   /\ NotifyExisting \/ ~t.initial
                   /\ NotifyExisting \/ AfterCutoff(s, p, t)}

EventKey(item) == <<item.id, item.hash>>

Inserts(seen, found) == \E p \in Posts : seen[p] # NoItem /\ New(p, found)

-----------------------------------------------------------------------------
(* Variant: a new post does not end the count.                             *)
NeverReset(t, inserted) == IF ~t.healthy \/ t.initial THEN t.unchanged ELSE t.unchanged + 1

(* adaptive_next_schedule; a report that is not healthy backs off.         *)
NextUnchanged(t, inserted) ==
    IF ~t.healthy \/ t.initial THEN t.unchanged
    ELSE IF inserted THEN 0 ELSE t.unchanged + 1

NextPace(t, inserted) ==
    IF ~t.healthy THEN "backoff"
    ELSE IF t.initial THEN "normal"
    ELSE IF NextUnchanged(t, inserted) < ActiveAfter THEN "active"
    ELSE IF NextUnchanged(t, inserted) < IdleAfter THEN "normal"
    ELSE "idle"

RunOf(t) == [at |-> t.at, healthy |-> t.healthy, posts |-> Yield(t.seen)]

AnyOwner(a, s) == TRUE   \* variant: WHERE id = $1 alone

(* finish_source updates the row of its own lease, or the transaction is   *)
(* rolled back.                                                            *)
StillOwner(a, s) == owner[s] = OwnerOf[a]

StillLive(s) == live   \* variant: lease_expires_at = NULL is missing

Unleased(s) == [live EXCEPT ![s] = FALSE]

Persist(a, s, found) ==
    LET t == task[a][s]
        inserted == Inserts(t.seen, found)
    IN
    /\ Found(t.seen, found)
    /\ runs' = [runs EXCEPT ![s] = Append(runs[s], RunOf(t))]
    /\ baseline' = [baseline EXCEPT ![s] =
                       IF baseline[s] = 0 /\ t.healthy THEN t.at ELSE baseline[s]]
    /\ quiet' = [quiet EXCEPT ![s] =
                    IF ~t.healthy THEN quiet[s] ELSE IF inserted THEN 0 ELSE quiet[s] + 1]
    /\ row' = [i \in Ids |-> StoredRow(i, t.seen, found)]
    /\ events' = events \cup {EventKey(t.seen[p]) : p \in Emitted(s, t, found)}
    /\ loud' = loud \cup {p \in Posts : t.seen[p] # NoItem /\ RowsOf(p) = {} /\ ~t.initial}
    /\ failures' = [failures EXCEPT ![s] = IF t.healthy THEN 0 ELSE failures[s] + 1]
    /\ unchanged' = [unchanged EXCEPT ![s] = NextUnchanged(t, inserted)]
    /\ pace' = [pace EXCEPT ![s] = NextPace(t, inserted)]
    /\ owner' = [owner EXCEPT ![s] = NoOwner]
    /\ live' = Unleased(s)
    /\ due' = due \ {s}
    /\ EndTask(a, s)
    /\ UNCHANGED <<pageVars, forgotten, claims, faults>>

PersistCommit(a, s) ==
    /\ task[a][s].phase = "writing"
    /\ StillOwner(a, s)
    /\ \E found \in SUBSET {i \in Ids : row[i] # NoRow} : Persist(a, s, found)

(* Another agent has the source, or the database fails: rolled back.       *)
PersistRollback(a, s) ==
    /\ task[a][s].phase = "writing"
    /\ ~StillOwner(a, s)
    /\ EndTask(a, s)
    /\ UNCHANGED <<pageVars, leaseVars, paceVars, postVars, runVars, claims, faults>>

DatabaseFails(a, s) ==
    /\ Fault
    /\ task[a][s] # NoTask
    /\ EndTask(a, s)
    /\ UNCHANGED <<pageVars, leaseVars, paceVars, postVars, runVars, claims>>

-----------------------------------------------------------------------------
(* apply_retention, between two cycles: the oldest n runs of each source,  *)
(* never the last one.                                                     *)
ApplyRetention(a, s, n) ==
    /\ \A r \in Sources : task[a][r] = NoTask
    /\ runs' = [runs EXCEPT ![s] = SubSeq(runs[s], n + 1, Len(runs[s]))]
    /\ forgotten' = IF \E k \in Healthy(s) : k <= n THEN forgotten \cup {s} ELSE forgotten
    /\ UNCHANGED <<pageVars, leaseVars, paceVars, postVars, baseline, quiet, task, claims, faults>>

(* A signal ends the process: its tasks are dropped, and all the leases    *)
(* with its owner string released (release_source_leases).                 *)
Shutdown(a) ==
    /\ Fault
    /\ task' = [task EXCEPT ![a] = [s \in Sources |-> NoTask]]
    /\ owner' = [s \in Sources |-> IF owner[s] = OwnerOf[a] THEN NoOwner ELSE owner[s]]
    /\ live' = [s \in Sources |-> IF owner[s] = OwnerOf[a] THEN FALSE ELSE live[s]]
    /\ UNCHANGED <<pageVars, due, paceVars, postVars, runVars, claims>>

Crash(a) ==
    /\ Fault
    /\ \E s \in Sources : task[a][s] # NoTask
    /\ task' = [task EXCEPT ![a] = [s \in Sources |-> NoTask]]
    /\ UNCHANGED <<pageVars, leaseVars, paceVars, postVars, runVars, claims>>

LeaseExpires(s) ==
    /\ live[s]
    /\ live' = [live EXCEPT ![s] = FALSE]
    /\ UNCHANGED <<pageVars, owner, due, paceVars, postVars, runVars, task, claims, faults>>

ComesDue(s) ==
    /\ s \notin due
    /\ due' = due \cup {s}
    /\ UNCHANGED <<pageVars, owner, live, paceVars, postVars, runVars, task, claims, faults>>

-----------------------------------------------------------------------------
Next ==
    \/ \E p \in Posts : Publish(p) \/ (\E h \in Hashes : Edit(p, h))
    \/ \E a \in Agents : \E batch \in SUBSET Sources : \E recent \in BOOLEAN :
          Claim(a, batch, recent)
    \/ \E a \in Agents : \E s \in Sources :
          \/ PersistBegin(a, s)
          \/ PersistRefused(a, s)
          \/ PersistCommit(a, s)
          \/ PersistRollback(a, s)
          \/ DatabaseFails(a, s)
          \/ \E n \in 1 .. Len(runs[s]) - 1 : ApplyRetention(a, s, n)
    \/ \E a \in Agents : Shutdown(a) \/ Crash(a)
    \/ \E s \in Sources : LeaseExpires(s) \/ ComesDue(s)

Spec == Init /\ [][Next]_vars

-----------------------------------------------------------------------------
(* Agents that run at the same time have pids of their own.  All that      *)
(* follows but TypeOK needs it: else a stale agent passes ensure_lease and *)
(* finish_source under the claim of another with the same string.          *)
DistinctOwners == \A a, b \in Agents : OwnerOf[a] = OwnerOf[b] => a = b

(* A run of a source is stored only by the agent that claimed the source   *)
(* last, and for that claim: whoever lost the lease while it crawled, or   *)
(* between ensure_lease and finish_source, stores nothing                  *)
(* (DistinctOwners).                                                       *)
LastClaimPersists ==
    [][\A s \in Sources :
          Len(runs'[s]) > Len(runs[s]) =>
             \E a \in Agents : /\ task[a][s].phase = "writing"
                              /\ task[a][s].claim = claims[s]
                              /\ task'[a][s] = NoTask]_vars

(* Without --notify-existing-posts, no event is about a post that was      *)
(* published before the first healthy crawl of its source: neither its     *)
(* discovery nor an edit (run_scheduled_source's events_suppressed and     *)
(* persist_post's historical cutoff), whatever retention deleted since     *)
(* (DistinctOwners).                                                       *)
OnlyNewsAnnounced ==
    ~NotifyExisting =>
        \A e \in events : LET p == PostOf[e[1]] IN
            /\ baseline[SourceOf[p]] # 0
            /\ published[p] > baseline[SourceOf[p]]

(* A post that was published after the first healthy crawl of its source   *)
(* and stored by a later one has an event with the text it is stored with, *)
(* under one of its ids, through every rotation of ids and URLs, as long   *)
(* as retention has left the source's healthy runs alone (persist_post;    *)
(* DistinctOwners).                                                        *)
NewsAnnounced ==
    \A i \in Ids : LET p == PostOf[i] IN
        /\ row[i] # NoRow
        /\ p \in loud
        /\ SourceOf[p] \notin forgotten
        /\ published[p] > baseline[SourceOf[p]]
        => \E e \in events : /\ PostOf[e[1]] = p
                             /\ TextOf[e[2]] = TextOf[row[i].hash]

(* The idle interval is chosen only after idle_after_unchanged_crawls      *)
(* healthy crawls in a row without a new post: the count that a task       *)
(* writes back is the one that it read when it claimed the source          *)
(* (adaptive_next_schedule; DistinctOwners).                               *)
IdleIsEarned ==
    \A s \in Sources \ forgotten : pace[s] = "idle" => quiet[s] >= IdleAfter

=============================================================================
