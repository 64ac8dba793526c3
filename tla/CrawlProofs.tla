----------------------------- MODULE CrawlProofs -----------------------------
(***************************************************************************)
(* Proofs about Crawl, for every set of sources, posts, ids, URLs and      *)
(* agents, and every bound.  Types are correct whatever owner strings the  *)
(* agents have; the rest takes the strings to be distinct.                 *)
(***************************************************************************)
EXTENDS Crawl, SequenceTheorems, FiniteSetTheorems, TLAPS

(* The conjuncts of TypeOK, by the groups of variables.                    *)
PageTypeOK ==
    /\ now \in Nat
    /\ published \in [Posts -> Nat]
    /\ content \in [Posts -> Hashes]
    /\ edits \in 0 .. MaxEdits

LeaseTypeOK ==
    /\ owner \in [Sources -> Owners \cup {NoOwner}]
    /\ live \in [Sources -> BOOLEAN]
    /\ \A s \in Sources : live[s] => owner[s] # NoOwner
    /\ due \in SUBSET Sources

PaceTypeOK ==
    /\ failures \in [Sources -> Nat]
    /\ unchanged \in [Sources -> Nat]
    /\ pace \in [Sources -> {"active", "normal", "idle", "backoff"}]

PostTypeOK ==
    /\ row \in [Ids -> Rows \cup {NoRow}]
    /\ events \in SUBSET (Ids \X Hashes)
    /\ loud \in SUBSET Posts

RunTypeOK ==
    /\ runs \in [Sources -> Seq(Runs)]
    /\ baseline \in [Sources -> Nat]
    /\ quiet \in [Sources -> Nat]
    /\ forgotten \in SUBSET Sources

TaskTypeOK == task \in [Agents -> [Sources -> Task]]

CountTypeOK ==
    /\ claims \in [Sources -> Nat]
    /\ faults \in 0 .. MaxFaults

LEMMA TypeParts ==
    /\ TypeOK => /\ PageTypeOK /\ LeaseTypeOK /\ PaceTypeOK /\ PostTypeOK
                 /\ RunTypeOK /\ TaskTypeOK /\ CountTypeOK
    /\ /\ PageTypeOK' /\ LeaseTypeOK' /\ PaceTypeOK' /\ PostTypeOK'
       /\ RunTypeOK' /\ TaskTypeOK' /\ CountTypeOK'
       => TypeOK'
  BY DEF TypeOK, PageTypeOK, LeaseTypeOK, PaceTypeOK, PostTypeOK, RunTypeOK,
         TaskTypeOK, CountTypeOK

LEMMA PageUnchanged == ASSUME PageTypeOK, UNCHANGED pageVars PROVE PageTypeOK'
  BY DEF PageTypeOK, pageVars

LEMMA LeaseUnchanged == ASSUME LeaseTypeOK, UNCHANGED leaseVars PROVE LeaseTypeOK'
  BY DEF LeaseTypeOK, leaseVars

LEMMA PaceUnchanged == ASSUME PaceTypeOK, UNCHANGED paceVars PROVE PaceTypeOK'
  BY DEF PaceTypeOK, paceVars

LEMMA PostUnchanged == ASSUME PostTypeOK, UNCHANGED postVars PROVE PostTypeOK'
  BY DEF PostTypeOK, postVars

LEMMA RunUnchanged == ASSUME RunTypeOK, UNCHANGED runVars PROVE RunTypeOK'
  BY DEF RunTypeOK, runVars

LEMMA FaultType == ASSUME CountTypeOK, Fault \/ faults' = faults PROVE faults' \in 0 .. MaxFaults
  BY CrawlAssumption DEF CountTypeOK, Fault

LEMMA IdleTask ==
    /\ NoTask \in Task
    /\ NoTask.phase = "idle"
<1>1. Nothing \in [Posts -> Items \cup {NoItem}]
  BY DEF Nothing
<1>. QED BY <1>1 DEF NoTask, Task

LEMMA WritingType ==
    ASSUME NEW t \in Task, NEW at \in Nat, NEW healthy \in BOOLEAN,
           NEW seen \in [Posts -> Items \cup {NoItem}]
    PROVE  /\ Writing(t, at, healthy, seen) \in Task
           /\ Writing(t, at, healthy, seen).phase = "writing"
           /\ Writing(t, at, healthy, seen).claim = t.claim
           /\ Writing(t, at, healthy, seen).initial = t.initial
           /\ Writing(t, at, healthy, seen).unchanged = t.unchanged
           /\ Writing(t, at, healthy, seen).at = at
           /\ Writing(t, at, healthy, seen).seen = seen
  BY DEF Writing, Task

LEMMA TaskParts ==
    ASSUME TaskTypeOK, NEW a \in Agents, NEW s \in Sources
    PROVE  /\ task[a][s] \in Task
           /\ task[a][s].phase \in {"idle", "crawling", "writing"}
           /\ task[a][s].claim \in Nat
           /\ task[a][s].initial \in BOOLEAN
           /\ task[a][s].unchanged \in Nat
           /\ task[a][s].at \in Nat
           /\ task[a][s].healthy \in BOOLEAN
           /\ task[a][s].seen \in [Posts -> Items \cup {NoItem}]
<1>1. task[a][s] \in Task
  BY DEF TaskTypeOK
<1>. QED BY <1>1 DEF Task

(* Only the task of a for s is another one.                                *)
SetTask(a, s, t) == task' = [task EXCEPT ![a] = [task[a] EXCEPT ![s] = t]]

LEMMA OneTask ==
    ASSUME TaskTypeOK, NEW a \in Agents, NEW s \in Sources, NEW t \in Task, SetTask(a, s, t)
    PROVE  /\ TaskTypeOK'
           /\ task'[a][s] = t
           /\ \A b \in Agents, r \in Sources : b # a \/ r # s => task'[b][r] = task[b][r]
  BY DEF TaskTypeOK, SetTask

-----------------------------------------------------------------------------
(* Types, step by step.                                                    *)
LEMMA RestUnchanged ==
    ASSUME TypeOK, UNCHANGED <<pageVars, paceVars, postVars, runVars, claims>>,
           LeaseTypeOK', TaskTypeOK', Fault \/ faults' = faults
    PROVE  TypeOK'
<1>1. faults' \in 0 .. MaxFaults
  BY TypeParts, FaultType
<1>2. CountTypeOK'
  BY <1>1, TypeParts DEF CountTypeOK
<1>. QED BY <1>2, TypeParts, PageUnchanged, PaceUnchanged, PostUnchanged, RunUnchanged

LEMMA PublishType == ASSUME TypeOK, NEW p \in Posts, Publish(p) PROVE TypeOK'
<1>1. PageTypeOK' /\ TaskTypeOK' /\ CountTypeOK'
  BY TypeParts DEF PageTypeOK, TaskTypeOK, CountTypeOK, Publish
<1>. QED BY <1>1, TypeParts, LeaseUnchanged, PaceUnchanged, PostUnchanged, RunUnchanged
     DEF Publish

LEMMA EditType == ASSUME TypeOK, NEW p \in Posts, NEW h \in Hashes, Edit(p, h) PROVE TypeOK'
<1>1. PageTypeOK' /\ TaskTypeOK' /\ CountTypeOK'
  BY TypeParts, CrawlAssumption DEF PageTypeOK, TaskTypeOK, CountTypeOK, Edit
<1>. QED BY <1>1, TypeParts, LeaseUnchanged, PaceUnchanged, PostUnchanged, RunUnchanged DEF Edit

(* Every task goes on as it was, or has ended.                             *)
TasksEnd == \A b \in Agents, r \in Sources : task'[b][r] \in {task[b][r], NoTask}

LEMMA EndTaskType ==
    ASSUME TypeOK, NEW a \in Agents, NEW s \in Sources, EndTask(a, s),
           UNCHANGED <<pageVars, leaseVars, paceVars, postVars, runVars, claims>>,
           Fault \/ faults' = faults
    PROVE  TypeOK' /\ TasksEnd
<1>1. TaskTypeOK /\ LeaseTypeOK' /\ SetTask(a, s, NoTask)
  BY TypeParts, LeaseUnchanged DEF EndTask, SetTask
<1>2. /\ TaskTypeOK'
      /\ task'[a][s] = NoTask
      /\ \A b \in Agents, r \in Sources : b # a \/ r # s => task'[b][r] = task[b][r]
  BY <1>1, IdleTask, OneTask
<1>. QED BY <1>1, <1>2, RestUnchanged DEF TasksEnd

LEMMA DropType ==
    ASSUME TypeOK, NEW a \in Agents, NEW s \in Sources,
           \/ PersistRefused(a, s)
           \/ PersistRollback(a, s)
           \/ DatabaseFails(a, s)
    PROVE  TypeOK' /\ TasksEnd
  BY EndTaskType DEF PersistRefused, PersistRollback, DatabaseFails

LEMMA ProcessType ==
    ASSUME TypeOK, NEW a \in Agents, Shutdown(a) \/ Crash(a) PROVE TypeOK' /\ TasksEnd
<1>1. TaskTypeOK /\ LeaseTypeOK
  BY TypeParts
<1>2. TaskTypeOK' /\ TasksEnd
  <2>1. task' = [task EXCEPT ![a] = [s \in Sources |-> NoTask]]
    BY DEF Shutdown, Crash
  <2>. QED BY <1>1, <2>1, IdleTask DEF TaskTypeOK, TasksEnd
<1>3. LeaseTypeOK'
  <2>1. CASE Shutdown(a)
    BY <1>1, <2>1 DEF LeaseTypeOK, Shutdown
  <2>2. CASE Crash(a)
    BY <1>1, <2>2, LeaseUnchanged DEF Crash
  <2>. QED BY <2>1, <2>2
<1>. QED BY <1>2, <1>3, RestUnchanged DEF Shutdown, Crash

LEMMA ClockType ==
    ASSUME TypeOK, NEW s \in Sources, LeaseExpires(s) \/ ComesDue(s) PROVE TypeOK'
<1>1. LeaseTypeOK'
  BY TypeParts DEF LeaseTypeOK, LeaseExpires, ComesDue
<1>2. TaskTypeOK'
  BY TypeParts DEF TaskTypeOK, LeaseExpires, ComesDue
<1>. QED BY <1>1, <1>2, RestUnchanged DEF LeaseExpires, ComesDue

(* What a task has seen is on the page of its source.                      *)
SeenOn(s, seen) ==
    \A p \in Posts : seen[p] # NoItem =>
        SourceOf[p] = s /\ published[p] # 0 /\ PostOf[seen[p].id] = p

LEMMA ReportType ==
    ASSUME TypeOK, NEW s \in Sources, NEW seen \in Reports(s)
    PROVE  seen \in [Posts -> Items \cup {NoItem}] /\ SeenOn(s, seen)
<1>1. \A p \in Posts : Shown(p) \in SUBSET Items
  BY DEF Shown, Items, PostIds, Permalinks, TypeOK
<1>2. seen \in [Posts -> UNION {Shown(p) : p \in Posts} \cup {NoItem}]
  BY DEF Reports
<1>3. \A p \in Posts : seen[p] # NoItem =>
         SourceOf[p] = s /\ published[p] # 0 /\ seen[p] \in Shown(p)
  BY DEF Reports
<1>4. \A p \in Posts : \A item \in Shown(p) : PostOf[item.id] = p
  BY DEF Shown, PostIds
<1>5. SeenOn(s, seen)
  BY <1>3, <1>4 DEF SeenOn
<1>6. \A p \in Posts : seen[p] \in Items \cup {NoItem}
  BY <1>1, <1>3
<1>. QED BY <1>2, <1>5, <1>6

(* A report u has been made of the task t.                                 *)
Reported(s, t, u) ==
    /\ u \in Task /\ u.phase = "writing"
    /\ u.claim = t.claim /\ u.initial = t.initial /\ u.unchanged = t.unchanged
    /\ u.at \in t.at .. now
    /\ SeenOn(s, u.seen)

LEMMA BeginType ==
    ASSUME TypeOK, NEW a \in Agents, NEW s \in Sources, PersistBegin(a, s)
    PROVE  /\ TypeOK'
           /\ Reported(s, task[a][s], task'[a][s])
           /\ \A b \in Agents, r \in Sources : b # a \/ r # s => task'[b][r] = task[b][r]
<1>1. TaskTypeOK /\ LeaseTypeOK' /\ now \in Nat
  BY TypeParts, LeaseUnchanged DEF PageTypeOK, PersistBegin
<1>2. PICK seen \in Reports(s), at \in task[a][s].at .. now, healthy \in BOOLEAN :
         SetTask(a, s, Writing(task[a][s], at, healthy, seen))
  BY DEF PersistBegin, SetTask
<1>3. /\ task[a][s] \in Task /\ at \in Nat
      /\ seen \in [Posts -> Items \cup {NoItem}] /\ SeenOn(s, seen)
  BY <1>1, TaskParts, ReportType
<1>4. /\ Writing(task[a][s], at, healthy, seen) \in Task
      /\ Reported(s, task[a][s], Writing(task[a][s], at, healthy, seen))
  BY <1>3, WritingType DEF Reported
<1>5. /\ TaskTypeOK' /\ Reported(s, task[a][s], task'[a][s])
      /\ \A b \in Agents, r \in Sources : b # a \/ r # s => task'[b][r] = task[b][r]
  BY <1>1, <1>2, <1>4, OneTask
<1>. QED BY <1>1, <1>5, RestUnchanged DEF PersistBegin

LEMMA CrawlingType ==
    ASSUME TypeOK, NEW s \in Sources, NEW initial \in BOOLEAN, NEW floor \in Nat
    PROVE  LET t == Crawling(s, initial, floor) IN
           /\ t \in Task /\ t.phase = "crawling" /\ t.claim = claims[s] + 1
           /\ t.initial = initial /\ t.unchanged = unchanged[s] /\ t.at = now
           /\ t.seen = Nothing
<1>1. Nothing \in [Posts -> Items \cup {NoItem}]
  BY DEF Nothing
<1>2. claims[s] + 1 \in Nat /\ unchanged[s] \in Nat /\ now \in Nat
  BY DEF TypeOK
<1>. QED BY <1>1, <1>2 DEF Crawling, Task

LEMMA ClaimType ==
    ASSUME TypeOK, NEW a \in Agents, NEW batch \in SUBSET Sources, NEW recent \in BOOLEAN,
           Claim(a, batch, recent)
    PROVE  /\ TypeOK'
           /\ \A s \in Sources :
                 IF s \in batch
                 THEN /\ task'[a][s].phase = "crawling" /\ task'[a][s].claim = claims[s] + 1
                      /\ task'[a][s].initial = InitialCrawl(s)
                      /\ task'[a][s].unchanged = unchanged[s]
                      /\ task'[a][s].at = now /\ task'[a][s].seen = Nothing
                 ELSE task'[a][s] = NoTask
           /\ \A b \in Agents, s \in Sources : b # a => task'[b][s] = task[b][s]
<1>. DEFINE t(s) == Crawling(s, InitialCrawl(s), Floor(s, recent))
<1>1. /\ owner' = [s \in Sources |-> IF s \in batch THEN OwnerOf[a] ELSE owner[s]]
      /\ live' = [s \in Sources |-> IF s \in batch THEN TRUE ELSE live[s]]
      /\ claims' = [s \in Sources |-> IF s \in batch THEN claims[s] + 1 ELSE claims[s]]
      /\ task' = [task EXCEPT ![a] = [s \in Sources |-> IF s \in batch THEN t(s) ELSE NoTask]]
      /\ due' = due /\ faults' = faults
      /\ UNCHANGED <<pageVars, paceVars, postVars, runVars>>
  BY DEF Claim
<1>2. LeaseTypeOK /\ TaskTypeOK /\ CountTypeOK
  BY TypeParts
<1>3. \A s \in Sources : Floor(s, recent) \in Nat /\ InitialCrawl(s) \in BOOLEAN
  BY CrawlAssumption DEF Floor, InitialCrawl
<1>4. ASSUME NEW s \in Sources
      PROVE  /\ t(s) \in Task /\ t(s).phase = "crawling" /\ t(s).claim = claims[s] + 1
             /\ t(s).initial = InitialCrawl(s) /\ t(s).unchanged = unchanged[s]
             /\ t(s).at = now /\ t(s).seen = Nothing
  BY <1>3, CrawlingType
<1>. HIDE DEF t
<1>5. /\ TaskTypeOK'
      /\ \A s \in Sources : task'[a][s] = IF s \in batch THEN t(s) ELSE NoTask
      /\ \A b \in Agents, s \in Sources : b # a => task'[b][s] = task[b][s]
  BY <1>1, <1>2, <1>4, IdleTask DEF TaskTypeOK
<1>6. LeaseTypeOK'
  <2>1. owner' \in [Sources -> Owners \cup {NoOwner}] /\ live' \in [Sources -> BOOLEAN]
    BY <1>1, <1>2, CrawlAssumption DEF LeaseTypeOK
  <2>2. \A s \in Sources : live'[s] => owner'[s] # NoOwner
    BY <1>1, <1>2, CrawlAssumption DEF LeaseTypeOK
  <2>. QED BY <1>1, <1>2, <2>1, <2>2 DEF LeaseTypeOK
<1>7. CountTypeOK'
  BY <1>1, <1>2 DEF CountTypeOK
<1>8. TypeOK'
  BY <1>1, <1>5, <1>6, <1>7, TypeParts, PageUnchanged, PaceUnchanged, PostUnchanged,
     RunUnchanged
<1>. QED BY <1>4, <1>5, <1>8

(* Retention shortens the list of runs.                                    *)
LEMMA RetentionType ==
    ASSUME TypeOK, NEW a \in Agents, NEW s \in Sources, NEW n \in 1 .. Len(runs[s]) - 1,
           ApplyRetention(a, s, n)
    PROVE  /\ TypeOK'
           /\ Len(runs[s]) \in Nat /\ n < Len(runs[s])
           /\ Len(runs'[s]) = Len(runs[s]) - n
           /\ \A k \in 1 .. Len(runs[s]) - n : runs'[s][k] = runs[s][k + n]
           /\ \A r \in Sources : r # s => runs'[r] = runs[r]
<1>1. RunTypeOK /\ TaskTypeOK /\ CountTypeOK
  BY TypeParts
<1>2. /\ runs' = [runs EXCEPT ![s] = SubSeq(runs[s], n + 1, Len(runs[s]))]
      /\ forgotten' \in SUBSET Sources
      /\ UNCHANGED <<baseline, quiet, task, claims, faults>>
  BY <1>1 DEF ApplyRetention, RunTypeOK
<1>3. runs[s] \in Seq(Runs) /\ Len(runs[s]) \in Nat /\ n \in Nat /\ n < Len(runs[s])
  BY <1>1, LenProperties DEF RunTypeOK
<1>4. /\ runs'[s] \in Seq(Runs)
      /\ Len(runs'[s]) = Len(runs[s]) - n
      /\ \A k \in 1 .. Len(runs[s]) - n : runs'[s][k] = runs[s][k + n]
  <2>1. \A k \in n + 1 .. Len(runs[s]) : runs[s][k] \in Runs
    BY <1>3, ElementOfSeq
  <2>2. runs'[s] = SubSeq(runs[s], n + 1, Len(runs[s]))
    BY <1>1, <1>2 DEF RunTypeOK
  <2>3. /\ SubSeq(runs[s], n + 1, Len(runs[s])) \in Seq(Runs)
        /\ Len(SubSeq(runs[s], n + 1, Len(runs[s]))) = Len(runs[s]) - n
        /\ \A k \in 1 .. Len(runs[s]) - n :
              SubSeq(runs[s], n + 1, Len(runs[s]))[k] = runs[s][(n + 1) + k - 1]
    BY <1>3, <2>1, SubSeqProperties
  <2>4. \A k \in 1 .. Len(runs[s]) - n : (n + 1) + k - 1 = k + n
    BY <1>3
  <2>. QED BY <2>2, <2>3, <2>4
<1>5. RunTypeOK' /\ TaskTypeOK' /\ CountTypeOK'
  BY <1>1, <1>2, <1>4 DEF RunTypeOK, TaskTypeOK, CountTypeOK
<1>6. TypeOK'
  BY <1>5, TypeParts, PageUnchanged, LeaseUnchanged, PaceUnchanged, PostUnchanged
     DEF ApplyRetention
<1>7. \A r \in Sources : r # s => runs'[r] = runs[r]
  BY <1>1, <1>2 DEF RunTypeOK
<1>. QED BY <1>3, <1>4, <1>6, <1>7

(* persist_scheduled_report, its transaction seen as a whole.              *)
Commits(a, s, found) ==
    /\ task[a][s].phase = "writing"
    /\ StillOwner(a, s)
    /\ found \in SUBSET {i \in Ids : row[i] # NoRow}
    /\ Persist(a, s, found)

LEMMA RunType == ASSUME NEW t \in Task PROVE RunOf(t) \in Runs
<1>1. {p \in Posts : t.seen[p] # NoItem} \in SUBSET Posts
  OBVIOUS
<1>2. Yield(t.seen) \in Nat
  BY <1>1, FS_Subset, FS_CardinalityType, CrawlAssumption DEF Yield
<1>. QED BY <1>2 DEF RunOf, Runs, Task

LEMMA StoredType ==
    ASSUME PostTypeOK, NEW t \in Task, NEW found, NEW i \in Ids
    PROVE  StoredRow(i, t.seen, found) \in Rows \cup {NoRow}
<1>1. PostOf[i] \in Posts /\ row[i] \in Rows \cup {NoRow}
  BY CrawlAssumption DEF PostTypeOK
<1>2. t.seen[PostOf[i]] # NoItem => t.seen[PostOf[i]] \in Items
  BY <1>1 DEF Task
<1>. QED BY <1>1, <1>2 DEF StoredRow, Items, Rows

LEMMA KeyType ==
    ASSUME NEW s \in Sources, NEW t \in Task, NEW found, NEW p \in Emitted(s, t, found)
    PROVE  /\ p \in Posts /\ t.seen[p] # NoItem
           /\ EventKey(t.seen[p]) \in Ids \X Hashes
           /\ EventKey(t.seen[p])[1] = t.seen[p].id
           /\ EventKey(t.seen[p])[2] = t.seen[p].hash
<1>1. p \in Posts /\ t.seen[p] # NoItem
  BY DEF Emitted, Changed
<1>2. t.seen[p] \in Items
  BY <1>1 DEF Task
<1>. QED BY <1>1, <1>2 DEF EventKey, Items

LEMMA PersistType ==
    ASSUME TypeOK, NEW a \in Agents, NEW s \in Sources, NEW found, Commits(a, s, found)
    PROVE  TypeOK'
<1>. DEFINE t == task[a][s]
            ins == Inserts(t.seen, found)
<1>1. /\ PageTypeOK /\ LeaseTypeOK /\ PaceTypeOK /\ PostTypeOK
      /\ RunTypeOK /\ TaskTypeOK /\ CountTypeOK
  BY TypeParts
<1>2. /\ t \in Task /\ t.initial \in BOOLEAN /\ t.healthy \in BOOLEAN
      /\ t.unchanged \in Nat /\ t.at \in Nat
  BY <1>1, TaskParts
<1>3. RunTypeOK'
  <2>1. Append(runs[s], RunOf(t)) \in Seq(Runs)
    BY <1>1, <1>2, RunType, AppendProperties DEF RunTypeOK
  <2>2. runs' \in [Sources -> Seq(Runs)]
    BY <1>1, <2>1 DEF Commits, Persist, RunTypeOK
  <2>3. baseline' \in [Sources -> Nat] /\ quiet' \in [Sources -> Nat]
    BY <1>1, <1>2 DEF Commits, Persist, RunTypeOK
  <2>. QED BY <1>1, <2>2, <2>3 DEF Commits, Persist, RunTypeOK
<1>4. PostTypeOK'
  <2>1. row' \in [Ids -> Rows \cup {NoRow}]
    BY <1>1, <1>2, StoredType DEF Commits, Persist
  <2>2. events' \in SUBSET (Ids \X Hashes)
    BY <1>1, <1>2, KeyType DEF Commits, Persist, PostTypeOK
  <2>3. loud' \in SUBSET Posts
    BY <1>1 DEF Commits, Persist, PostTypeOK
  <2>. QED BY <2>1, <2>2, <2>3 DEF PostTypeOK
<1>5. PaceTypeOK'
  <2>1. NextUnchanged(t, ins) \in Nat /\ NextPace(t, ins) \in {"active", "normal", "idle", "backoff"}
    BY <1>2 DEF NextUnchanged, NextPace
  <2>2. /\ failures' = [failures EXCEPT ![s] = IF t.healthy THEN 0 ELSE failures[s] + 1]
        /\ unchanged' = [unchanged EXCEPT ![s] = NextUnchanged(t, ins)]
        /\ pace' = [pace EXCEPT ![s] = NextPace(t, ins)]
    BY DEF Commits, Persist
  <2>. HIDE DEF t, ins
  <2>. QED BY <1>1, <2>1, <2>2 DEF PaceTypeOK
<1>6. LeaseTypeOK'
  <2>1. /\ owner' = [owner EXCEPT ![s] = NoOwner]
        /\ live' = [live EXCEPT ![s] = FALSE]
        /\ due' = due \ {s}
    BY DEF Commits, Persist, Unleased
  <2>. QED BY <1>1, <2>1 DEF LeaseTypeOK
<1>7. TaskTypeOK'
  <2>1. SetTask(a, s, NoTask)
    BY DEF Commits, Persist, EndTask, SetTask
  <2>. QED BY <1>1, <2>1, IdleTask, OneTask
<1>8. PageTypeOK' /\ CountTypeOK'
  BY <1>1, PageUnchanged DEF Commits, Persist, CountTypeOK
<1>. QED BY <1>3, <1>4, <1>5, <1>6, <1>7, <1>8, TypeParts

LEMMA TypeStep == ASSUME TypeOK, [Next]_vars PROVE TypeOK'
<1>1. CASE \E p \in Posts : Publish(p) \/ \E h \in Hashes : Edit(p, h)
  BY <1>1, PublishType, EditType
<1>2. CASE \E a \in Agents : \E batch \in SUBSET Sources : \E recent \in BOOLEAN :
              Claim(a, batch, recent)
  BY <1>2, ClaimType
<1>3. CASE \E a \in Agents, s \in Sources : PersistBegin(a, s) \/ PersistCommit(a, s)
  <2>1. ASSUME NEW a \in Agents, NEW s \in Sources, PersistCommit(a, s) PROVE TypeOK'
    <3>1. PICK found \in SUBSET {i \in Ids : row[i] # NoRow} : Commits(a, s, found)
      BY <2>1 DEF PersistCommit, Commits
    <3>. QED BY <3>1, PersistType
  <2>. QED BY <1>3, <2>1, BeginType
<1>4. CASE \E a \in Agents, s \in Sources :
              PersistRefused(a, s) \/ PersistRollback(a, s) \/ DatabaseFails(a, s)
  BY <1>4, DropType
<1>5. CASE \E a \in Agents, s \in Sources : \E n \in 1 .. Len(runs[s]) - 1 :
              ApplyRetention(a, s, n)
  BY <1>5, RetentionType
<1>6. CASE \E a \in Agents : Shutdown(a) \/ Crash(a)
  BY <1>6, ProcessType
<1>7. CASE \E s \in Sources : LeaseExpires(s) \/ ComesDue(s)
  BY <1>7, ClockType
<1>8. CASE UNCHANGED vars
  <2>1. LeaseTypeOK' /\ TaskTypeOK'
    BY <1>8, TypeParts, LeaseUnchanged DEF vars, TaskTypeOK
  <2>. QED BY <1>8, <2>1, RestUnchanged DEF vars
<1>. QED BY <1>1, <1>2, <1>3, <1>4, <1>5, <1>6, <1>7, <1>8 DEF Next

LEMMA InitType == Init => TypeOK
<1>1. <<>> \in Seq(Runs)
  BY EmptySeq
<1>. QED BY <1>1, IdleTask, CrawlAssumption DEF Init, TypeOK

(* Every variable keeps the type that the code's tables and tasks give it, *)
(* whatever owner strings the agents have.                                 *)
THEOREM TypeCorrect == Spec => []TypeOK
  BY InitType, TypeStep, PTL DEF Spec

-----------------------------------------------------------------------------
(* A task whose agent has the source.                                      *)
Owned(a, s) == task[a][s].phase # "idle" /\ owner[s] = OwnerOf[a]

(* Such a task is of the last claim, and nobody has stored a run of the    *)
(* source since.  It is initial if there was no healthy run at the claim.  *)
ClaimInv ==
    \A a \in Agents, s \in Sources : Owned(a, s) =>
        LET t == task[a][s] IN
        /\ t.claim = claims[s]
        /\ t.unchanged = unchanged[s]
        /\ baseline[s] <= t.at
        /\ ~t.initial => baseline[s] # 0
        /\ t.initial /\ s \notin forgotten => baseline[s] = 0

TaskInv ==
    \A a \in Agents, s \in Sources : task[a][s].phase # "idle" =>
        /\ 1 <= task[a][s].at /\ task[a][s].at <= now
        /\ SeenOn(s, task[a][s].seen)

(* The first healthy run of a source is the oldest; retention keeps it or  *)
(* is on record.                                                           *)
RunInv ==
    \A s \in Sources :
        /\ baseline[s] <= now
        /\ \A k \in Healthy(s) : baseline[s] # 0 /\ baseline[s] <= runs[s][k].at
        /\ s \notin forgotten /\ baseline[s] # 0 =>
              \E k \in Healthy(s) : runs[s][k].at = baseline[s]

(* Before the first healthy run no count has begun, and every post was     *)
(* stored by an initial crawl.                                             *)
PaceInv ==
    \A s \in Sources \ forgotten :
        /\ unchanged[s] <= quiet[s]
        /\ baseline[s] = 0 => unchanged[s] = 0 /\ \A p \in loud : SourceOf[p] # s

RowInv == \A i \in Ids : row[i] # NoRow => published[PostOf[i]] # 0

Inv ==
    /\ TypeOK
    /\ now >= 1
    /\ ClaimInv
    /\ TaskInv
    /\ RunInv
    /\ PaceInv
    /\ RowInv
    /\ OnlyNewsAnnounced
    /\ NewsAnnounced
    /\ IdleIsEarned

LEMMA InitInv == Init => Inv
<1>. SUFFICES ASSUME Init PROVE Inv
  OBVIOUS
<1>1. /\ now = 1 /\ edits = 0 /\ faults = 0
      /\ published = [p \in Posts |-> IF p \in Old THEN 1 ELSE 0]
      /\ content \in [Posts -> Hashes]
      /\ owner = [s \in Sources |-> NoOwner]
      /\ live = [s \in Sources |-> FALSE]
      /\ due = Sources
      /\ failures = [s \in Sources |-> 0]
      /\ unchanged = [s \in Sources |-> 0]
      /\ pace = [s \in Sources |-> "normal"]
      /\ runs = [s \in Sources |-> <<>>]
      /\ row = [i \in Ids |-> NoRow]
      /\ events = {} /\ loud = {} /\ forgotten = {}
      /\ task = [a \in Agents |-> [s \in Sources |-> NoTask]]
      /\ claims = [s \in Sources |-> 0]
      /\ baseline = [s \in Sources |-> 0]
      /\ quiet = [s \in Sources |-> 0]
  BY DEF Init
<1>2. TypeOK
  BY InitType
<1>3. \A s \in Sources : Healthy(s) = {}
  BY <1>1 DEF Healthy
<1>4. \A a \in Agents, s \in Sources : task[a][s].phase = "idle"
  BY <1>1, IdleTask
<1>5. ClaimInv /\ TaskInv
  BY <1>4 DEF ClaimInv, TaskInv, Owned
<1>6. RunInv /\ PaceInv
  BY <1>1, <1>3 DEF RunInv, PaceInv
<1>7. RowInv /\ OnlyNewsAnnounced /\ NewsAnnounced
  BY <1>1 DEF RowInv, OnlyNewsAnnounced, NewsAnnounced
<1>8. IdleIsEarned
  BY <1>1 DEF IdleIsEarned
<1>. QED BY <1>1, <1>2, <1>5, <1>6, <1>7, <1>8 DEF Inv

-----------------------------------------------------------------------------
(* The steps that store nothing: they end tasks, take leases away or begin *)
(* a transaction.                                                          *)
Continues(s, t, u) ==
    /\ t.phase # "idle"
    /\ u.claim = t.claim /\ u.initial = t.initial /\ u.unchanged = t.unchanged
    /\ t.at <= u.at /\ u.at <= now
    /\ SeenOn(s, u.seen)

LEMMA QuietStep ==
    ASSUME Inv, TypeOK', UNCHANGED <<pageVars, paceVars, postVars, runVars, claims>>,
           \A s \in Sources : owner'[s] \in {owner[s], NoOwner},
           \A a \in Agents, s \in Sources :
              \/ task'[a][s].phase = "idle"
              \/ Continues(s, task[a][s], task'[a][s])
    PROVE  Inv'
<1>. USE DEF Inv
<1>1. /\ now' = now /\ published' = published /\ unchanged' = unchanged /\ pace' = pace
      /\ row' = row /\ events' = events /\ loud' = loud
      /\ runs' = runs /\ baseline' = baseline /\ quiet' = quiet /\ forgotten' = forgotten
      /\ claims' = claims
  BY DEF pageVars, paceVars, postVars, runVars
<1>3. TaskTypeOK /\ PageTypeOK /\ RunTypeOK /\ TaskTypeOK'
  BY TypeParts DEF TypeOK, TaskTypeOK
<1>4. ClaimInv'
  <2>. SUFFICES ASSUME NEW a \in Agents, NEW s \in Sources, Owned(a, s)'
                PROVE  LET t == task'[a][s] IN
                       /\ t.claim = claims'[s]
                       /\ t.unchanged = unchanged'[s]
                       /\ baseline'[s] <= t.at
                       /\ ~t.initial => baseline'[s] # 0
                       /\ t.initial /\ s \notin forgotten' => baseline'[s] = 0
    BY DEF ClaimInv
  <2>1. Continues(s, task[a][s], task'[a][s]) /\ owner'[s] = OwnerOf[a]
    BY DEF Owned
  <2>2. owner[s] = OwnerOf[a]
    BY <2>1, CrawlAssumption
  <2>3. Owned(a, s)
    BY <2>1, <2>2 DEF Owned, Continues
  <2>4. /\ task[a][s].claim = claims[s]
        /\ task[a][s].unchanged = unchanged[s]
        /\ baseline[s] <= task[a][s].at
        /\ ~task[a][s].initial => baseline[s] # 0
        /\ task[a][s].initial /\ s \notin forgotten => baseline[s] = 0
    BY <2>3 DEF ClaimInv
  <2>5. task[a][s].at \in Nat /\ task'[a][s].at \in Nat /\ baseline[s] \in Nat
    BY <1>3, TaskParts DEF RunTypeOK, TaskTypeOK, Task
  <2>. QED BY <2>1, <2>4, <2>5, <1>1 DEF Continues
<1>5. TaskInv'
  <2>. SUFFICES ASSUME NEW a \in Agents, NEW s \in Sources, task'[a][s].phase # "idle"
                PROVE  /\ 1 <= task'[a][s].at /\ task'[a][s].at <= now'
                       /\ SeenOn(s, task[a][s].seen)'
    BY DEF TaskInv
  <2>1. Continues(s, task[a][s], task'[a][s])
    OBVIOUS
  <2>2. 1 <= task[a][s].at /\ task[a][s].phase # "idle"
    BY <2>1 DEF TaskInv, Continues
  <2>3. task[a][s].at \in Nat /\ task'[a][s].at \in Nat
    BY <1>3, TaskParts DEF TaskTypeOK, Task
  <2>4. SeenOn(s, task[a][s].seen)'
    BY <2>1, <1>1 DEF Continues, SeenOn
  <2>. QED BY <2>1, <2>2, <2>3, <2>4, <1>1 DEF Continues
<1>6. RunInv' /\ PaceInv' /\ RowInv'
  BY <1>1 DEF RunInv, Healthy, PaceInv, RowInv
<1>7. OnlyNewsAnnounced' /\ NewsAnnounced' /\ IdleIsEarned'
  BY <1>1 DEF OnlyNewsAnnounced, NewsAnnounced, IdleIsEarned
<1>. QED BY <1>1, <1>4, <1>5, <1>6, <1>7

LEMMA TasksContinue ==
    ASSUME Inv, NEW a \in Agents, NEW s \in Sources, task'[a][s] \in {task[a][s], NoTask}
    PROVE  \/ task'[a][s].phase = "idle"
           \/ Continues(s, task[a][s], task'[a][s])
<1>1. TaskTypeOK /\ TaskInv
  BY TypeParts DEF Inv
<1>2. task[a][s].at \in Nat
  BY <1>1, TaskParts
<1>. QED BY <1>1, <1>2, IdleTask DEF TaskInv, Continues

LEMMA LeaseStep ==
    ASSUME Inv, TypeOK', UNCHANGED <<pageVars, paceVars, postVars, runVars, claims>>,
           \A s \in Sources : owner'[s] \in {owner[s], NoOwner},
           TasksEnd
    PROVE  Inv'
<1>1. \A a \in Agents, s \in Sources : task'[a][s] \in {task[a][s], NoTask}
  BY DEF TasksEnd
<1>. QED BY <1>1, TasksContinue, QuietStep

LEMMA DropStep ==
    ASSUME Inv, NEW a \in Agents, NEW s \in Sources,
           \/ PersistRefused(a, s)
           \/ PersistRollback(a, s)
           \/ DatabaseFails(a, s)
    PROVE  Inv'
<1>1. TypeOK' /\ TasksEnd
  BY DropType DEF Inv
<1>2. UNCHANGED <<pageVars, leaseVars, paceVars, postVars, runVars, claims>>
  BY DEF PersistRefused, PersistRollback, DatabaseFails
<1>. QED BY <1>1, <1>2, LeaseStep DEF leaseVars

LEMMA ProcessStep == ASSUME Inv, NEW a \in Agents, Shutdown(a) \/ Crash(a) PROVE Inv'
<1>1. TypeOK' /\ TasksEnd
  BY ProcessType DEF Inv
<1>2. \A s \in Sources : owner'[s] \in {owner[s], NoOwner}
  BY DEF Shutdown, Crash, leaseVars
<1>3. UNCHANGED <<pageVars, paceVars, postVars, runVars, claims>>
  BY DEF Shutdown, Crash
<1>. QED BY <1>1, <1>2, <1>3, LeaseStep

LEMMA ClockStep == ASSUME Inv, NEW s \in Sources, LeaseExpires(s) \/ ComesDue(s) PROVE Inv'
<1>1. TypeOK'
  BY ClockType DEF Inv
<1>2. /\ UNCHANGED <<pageVars, paceVars, postVars, runVars, claims>>
      /\ task' = task /\ owner' = owner
  BY DEF LeaseExpires, ComesDue
<1>. QED BY <1>1, <1>2, LeaseStep DEF TasksEnd

LEMMA BeginStep == ASSUME Inv, NEW a \in Agents, NEW s \in Sources, PersistBegin(a, s) PROVE Inv'
<1>1. /\ task[a][s].phase = "crawling" /\ owner' = owner
      /\ UNCHANGED <<pageVars, leaseVars, paceVars, postVars, runVars, claims, faults>>
  BY DEF PersistBegin, leaseVars
<1>2. /\ TypeOK'
      /\ Reported(s, task[a][s], task'[a][s])
      /\ \A b \in Agents, r \in Sources : b # a \/ r # s => task'[b][r] = task[b][r]
  BY BeginType DEF Inv
<1>3. task[a][s].at \in Nat /\ now \in Nat
  BY TypeParts, TaskParts DEF Inv, PageTypeOK
<1>4. ASSUME NEW b \in Agents, NEW r \in Sources
      PROVE  \/ task'[b][r].phase = "idle"
             \/ Continues(r, task[b][r], task'[b][r])
  <2>1. CASE b = a /\ r = s
    BY <2>1, <1>1, <1>2, <1>3 DEF Reported, Continues
  <2>2. CASE b # a \/ r # s
    BY <2>2, <1>2, TasksContinue
  <2>. QED BY <2>1, <2>2
<1>. QED BY <1>1, <1>2, <1>4, QuietStep

-----------------------------------------------------------------------------
(* The pages.                                                              *)
LEMMA ClaimsUnchanged ==
    ASSUME ClaimInv, UNCHANGED <<owner, task, claims, unchanged, baseline, forgotten>>
    PROVE  ClaimInv'
  BY DEF ClaimInv, Owned

LEMMA PublishStep == ASSUME Inv, NEW p \in Posts, Publish(p) PROVE Inv'
<1>. USE DEF Inv
<1>1. /\ published[p] = 0 /\ now' = now + 1
      /\ published' = [published EXCEPT ![p] = now + 1]
      /\ content' = content /\ edits' = edits
      /\ UNCHANGED <<leaseVars, paceVars, postVars, runVars, task, claims, faults>>
  BY DEF Publish
<1>2. /\ PageTypeOK /\ LeaseTypeOK /\ PaceTypeOK /\ PostTypeOK
      /\ RunTypeOK /\ TaskTypeOK /\ CountTypeOK
  BY TypeParts
<1>3. /\ now' \in Nat /\ now < now' /\ now' >= 1
      /\ \A q \in Posts : published'[q] = IF q = p THEN now + 1 ELSE published[q]
  BY <1>1, <1>2 DEF PageTypeOK
<1>4. TypeOK'
  BY PublishType
<1>5. /\ owner' = owner /\ task' = task /\ claims' = claims /\ unchanged' = unchanged
      /\ pace' = pace /\ row' = row /\ events' = events /\ loud' = loud
      /\ runs' = runs /\ baseline' = baseline /\ quiet' = quiet /\ forgotten' = forgotten
  BY <1>1 DEF leaseVars, paceVars, postVars, runVars
<1>6. ClaimInv'
  BY <1>5, ClaimsUnchanged
<1>7. TaskInv'
  <2>. SUFFICES ASSUME NEW a \in Agents, NEW s \in Sources, task[a][s].phase # "idle"
                PROVE  /\ 1 <= task[a][s].at /\ task[a][s].at <= now'
                       /\ SeenOn(s, task[a][s].seen)'
    BY <1>5 DEF TaskInv
  <2>1. /\ 1 <= task[a][s].at /\ task[a][s].at <= now
        /\ SeenOn(s, task[a][s].seen)
    BY DEF TaskInv
  <2>2. task[a][s].at <= now'
    BY <1>2, <1>3, <2>1, TaskParts DEF PageTypeOK
  <2>3. SeenOn(s, task[a][s].seen)'
    BY <1>1, <1>3, <1>5, <2>1 DEF SeenOn
  <2>. QED BY <2>1, <2>2, <2>3
<1>8. RunInv'
  <2>1. \A s \in Sources : baseline[s] <= now'
    BY <1>2, <1>3 DEF RunInv, RunTypeOK, PageTypeOK
  <2>. QED BY <1>5, <2>1 DEF RunInv, Healthy
<1>9. PaceInv' /\ IdleIsEarned'
  BY <1>5 DEF PaceInv, IdleIsEarned
<1>10. RowInv'
  BY <1>2, <1>3, <1>5, CrawlAssumption DEF RowInv, PageTypeOK
<1>11. OnlyNewsAnnounced'
  <2>. SUFFICES ASSUME ~NotifyExisting, NEW e \in events
                PROVE  /\ baseline[SourceOf[PostOf[e[1]]]] # 0
                       /\ published'[PostOf[e[1]]] > baseline[SourceOf[PostOf[e[1]]]]
    BY <1>5 DEF OnlyNewsAnnounced
  <2>1. PostOf[e[1]] \in Posts /\ SourceOf[PostOf[e[1]]] \in Sources
    BY <1>2, CrawlAssumption DEF PostTypeOK
  <2>2. /\ baseline[SourceOf[PostOf[e[1]]]] # 0
        /\ published[PostOf[e[1]]] > baseline[SourceOf[PostOf[e[1]]]]
    BY DEF OnlyNewsAnnounced
  <2>3. baseline[SourceOf[PostOf[e[1]]]] \in Nat
    BY <1>2, <2>1 DEF RunTypeOK
  <2>4. PostOf[e[1]] # p
    BY <1>1, <2>2, <2>3
  <2>. QED BY <1>3, <2>1, <2>2, <2>4
<1>12. NewsAnnounced'
  <2>1. \A i \in Ids : row[i] # NoRow => published'[PostOf[i]] = published[PostOf[i]]
    BY <1>1, <1>3, CrawlAssumption DEF RowInv
  <2>. QED BY <1>5, <2>1 DEF NewsAnnounced
<1>. QED BY <1>3, <1>4, <1>6, <1>7, <1>8, <1>9, <1>10, <1>11, <1>12

LEMMA EditStep == ASSUME Inv, NEW p \in Posts, NEW h \in Hashes, Edit(p, h) PROVE Inv'
<1>. USE DEF Inv
<1>1. /\ edits < MaxEdits /\ edits' = edits + 1
      /\ content' = [content EXCEPT ![p] = h]
      /\ now' = now /\ published' = published
      /\ UNCHANGED <<leaseVars, paceVars, postVars, runVars, task, claims, faults>>
  BY DEF Edit
<1>3. TypeOK'
  BY EditType
<1>4. /\ owner' = owner /\ task' = task /\ claims' = claims /\ unchanged' = unchanged
      /\ pace' = pace /\ row' = row /\ events' = events /\ loud' = loud
      /\ runs' = runs /\ baseline' = baseline /\ quiet' = quiet /\ forgotten' = forgotten
  BY <1>1 DEF leaseVars, paceVars, postVars, runVars
<1>5. ClaimInv'
  BY <1>4, ClaimsUnchanged
<1>6. TaskInv' /\ RunInv' /\ PaceInv' /\ RowInv'
  BY <1>1, <1>4 DEF TaskInv, SeenOn, RunInv, Healthy, PaceInv, RowInv
<1>7. OnlyNewsAnnounced' /\ NewsAnnounced' /\ IdleIsEarned'
  BY <1>1, <1>4 DEF OnlyNewsAnnounced, NewsAnnounced, IdleIsEarned
<1>. QED BY <1>1, <1>3, <1>5, <1>6, <1>7

-----------------------------------------------------------------------------
(* claim_due_sources                                                       *)
LEMMA ClaimStep ==
    ASSUME DistinctOwners, Inv,
           NEW a \in Agents, NEW batch \in SUBSET Sources, NEW recent \in BOOLEAN,
           Claim(a, batch, recent)
    PROVE  Inv'
<1>. USE DEF Inv
<1>1. /\ owner' = [s \in Sources |-> IF s \in batch THEN OwnerOf[a] ELSE owner[s]]
      /\ claims' = [s \in Sources |-> IF s \in batch THEN claims[s] + 1 ELSE claims[s]]
      /\ UNCHANGED <<pageVars, paceVars, postVars, runVars>>
  BY DEF Claim
<1>2. PageTypeOK
  BY TypeParts
<1>5. /\ TypeOK'
      /\ \A s \in Sources :
            IF s \in batch
            THEN /\ task'[a][s].phase = "crawling" /\ task'[a][s].claim = claims[s] + 1
                 /\ task'[a][s].initial = InitialCrawl(s)
                 /\ task'[a][s].unchanged = unchanged[s]
                 /\ task'[a][s].at = now /\ task'[a][s].seen = Nothing
            ELSE task'[a][s] = NoTask
      /\ \A b \in Agents, s \in Sources : b # a => task'[b][s] = task[b][s]
  BY ClaimType
<1>7. /\ now' = now /\ published' = published /\ unchanged' = unchanged
      /\ pace' = pace /\ row' = row /\ events' = events /\ loud' = loud
      /\ runs' = runs /\ baseline' = baseline /\ quiet' = quiet /\ forgotten' = forgotten
  BY <1>1 DEF pageVars, paceVars, postVars, runVars
<1>8. ClaimInv'
  <2>. SUFFICES ASSUME NEW b \in Agents, NEW s \in Sources,
                       task'[b][s].phase # "idle", owner'[s] = OwnerOf[b]
                PROVE  LET u == task'[b][s] IN
                       /\ u.claim = claims'[s]
                       /\ u.unchanged = unchanged[s]
                       /\ baseline[s] <= u.at
                       /\ ~u.initial => baseline[s] # 0
                       /\ u.initial /\ s \notin forgotten => baseline[s] = 0
    BY <1>7 DEF ClaimInv, Owned
  <2>1. CASE s \in batch
    <3>1. b = a /\ claims'[s] = claims[s] + 1
      BY <2>1, <1>1 DEF DistinctOwners
    <3>2. baseline[s] <= now
      BY DEF RunInv
    <3>3. ~InitialCrawl(s) => baseline[s] # 0
      BY DEF RunInv, InitialCrawl
    <3>4. InitialCrawl(s) /\ s \notin forgotten => baseline[s] = 0
      BY DEF RunInv, InitialCrawl
    <3>. QED BY <1>5, <2>1, <3>1, <3>2, <3>3, <3>4
  <2>2. CASE s \notin batch
    <3>1. b # a
      BY <2>2, <1>5, IdleTask
    <3>2. task'[b][s] = task[b][s] /\ owner[s] = OwnerOf[b] /\ claims'[s] = claims[s]
      BY <2>2, <3>1, <1>1, <1>5
    <3>. QED BY <3>2 DEF ClaimInv, Owned
  <2>. QED BY <2>1, <2>2
<1>9. TaskInv'
  <2>. SUFFICES ASSUME NEW b \in Agents, NEW s \in Sources, task'[b][s].phase # "idle"
                PROVE  /\ 1 <= task'[b][s].at /\ task'[b][s].at <= now
                       /\ SeenOn(s, task'[b][s].seen)
    BY <1>7 DEF TaskInv, SeenOn
  <2>1. CASE b = a
    <3>1. task'[b][s].at = now /\ task'[b][s].seen = Nothing
      BY <2>1, <1>5, IdleTask
    <3>2. SeenOn(s, Nothing)
      BY DEF SeenOn, Nothing
    <3>3. now \in Nat
      BY <1>2 DEF PageTypeOK
    <3>. QED BY <3>1, <3>2, <3>3
  <2>2. CASE b # a
    BY <2>2, <1>5 DEF TaskInv
  <2>. QED BY <2>1, <2>2
<1>10. RunInv' /\ PaceInv' /\ RowInv'
  BY <1>7 DEF RunInv, Healthy, PaceInv, RowInv
<1>11. OnlyNewsAnnounced' /\ NewsAnnounced' /\ IdleIsEarned'
  BY <1>7 DEF OnlyNewsAnnounced, NewsAnnounced, IdleIsEarned
<1>. QED BY <1>5, <1>7, <1>8, <1>9, <1>10, <1>11

-----------------------------------------------------------------------------
(* apply_retention                                                         *)
LEMMA RetentionStep ==
    ASSUME Inv, NEW a \in Agents, NEW s \in Sources, NEW n \in 1 .. Len(runs[s]) - 1,
           ApplyRetention(a, s, n)
    PROVE  Inv'
<1>. USE DEF Inv
<1>. DEFINE gone == \E k \in Healthy(s) : k <= n
<1>1. /\ runs' = [runs EXCEPT ![s] = SubSeq(runs[s], n + 1, Len(runs[s]))]
      /\ forgotten' = IF gone THEN forgotten \cup {s} ELSE forgotten
      /\ UNCHANGED <<pageVars, leaseVars, paceVars, postVars, baseline, quiet, task, claims,
                     faults>>
  BY DEF ApplyRetention
<1>2. /\ PageTypeOK /\ LeaseTypeOK /\ PaceTypeOK /\ PostTypeOK
      /\ RunTypeOK /\ TaskTypeOK /\ CountTypeOK
  BY TypeParts
<1>3. /\ runs[s] \in Seq(Runs) /\ runs'[s] \in Seq(Runs) /\ n \in Nat
  BY <1>2, RetentionType DEF RunTypeOK, TypeOK
<1>4. /\ TypeOK'
      /\ Len(runs[s]) \in Nat /\ n < Len(runs[s])
      /\ Len(runs'[s]) = Len(runs[s]) - n
      /\ \A k \in 1 .. Len(runs[s]) - n : runs'[s][k] = runs[s][k + n]
      /\ \A r \in Sources : r # s => runs'[r] = runs[r]
  BY RetentionType
<1>5. /\ now' = now /\ published' = published /\ owner' = owner /\ task' = task
      /\ claims' = claims /\ unchanged' = unchanged /\ pace' = pace
      /\ row' = row /\ events' = events /\ loud' = loud
      /\ baseline' = baseline /\ quiet' = quiet
      /\ forgotten \subseteq forgotten' /\ forgotten' \in SUBSET Sources
  BY <1>1, <1>2 DEF pageVars, leaseVars, paceVars, postVars, RunTypeOK
<1>7. ClaimInv' /\ TaskInv' /\ PaceInv' /\ RowInv'
  BY <1>5 DEF ClaimInv, Owned, TaskInv, SeenOn, PaceInv, RowInv
<1>8. OnlyNewsAnnounced' /\ NewsAnnounced' /\ IdleIsEarned'
  BY <1>5 DEF OnlyNewsAnnounced, NewsAnnounced, IdleIsEarned
<1>9. RunInv'
  <2>1. DOMAIN runs[s] = 1 .. Len(runs[s]) /\ DOMAIN runs'[s] = 1 .. Len(runs[s]) - n
    BY <1>3, <1>4, LenProperties
  <2>2. \A k \in DOMAIN runs'[s] : k + n \in DOMAIN runs[s] /\ runs'[s][k] = runs[s][k + n]
    BY <1>3, <1>4, <2>1
  <2>3. \A k \in Healthy(s)' : k + n \in Healthy(s) /\ runs'[s][k] = runs[s][k + n]
    BY <2>2 DEF Healthy
  <2>4. ASSUME ~gone, NEW k \in Healthy(s)
        PROVE  k - n \in Healthy(s)' /\ runs'[s][k - n] = runs[s][k]
    <3>1. k \in 1 .. Len(runs[s]) /\ k > n /\ runs[s][k].healthy
      BY <1>3, <2>1, <2>4 DEF Healthy
    <3>2. k - n \in 1 .. Len(runs[s]) - n /\ (k - n) + n = k
      BY <1>3, <3>1
    <3>3. runs'[s][k - n] = runs[s][k]
      BY <1>4, <3>2
    <3>. QED BY <2>1, <3>1, <3>2, <3>3 DEF Healthy
  <2>5. ASSUME NEW r \in Sources, r # s PROVE runs'[r] = runs[r] /\ Healthy(r)' = Healthy(r)
    BY <1>4, <2>5 DEF Healthy
  <2>6. ASSUME NEW r \in Sources
        PROVE  /\ baseline[r] <= now
               /\ \A k \in Healthy(r)' : baseline[r] # 0 /\ baseline[r] <= runs'[r][k].at
               /\ r \notin forgotten' /\ baseline[r] # 0 =>
                     \E k \in Healthy(r)' : runs'[r][k].at = baseline[r]
    <3>1. CASE r # s
      BY <1>5, <2>5, <3>1 DEF RunInv
    <3>2. CASE r = s
      <4>1. \A k \in Healthy(s)' : baseline[s] # 0 /\ baseline[s] <= runs'[s][k].at
        BY <2>3 DEF RunInv
      <4>2. ASSUME s \notin forgotten', baseline[s] # 0
            PROVE  \E k \in Healthy(s)' : runs'[s][k].at = baseline[s]
        <5>1. ~gone
          BY <1>1, <4>2
        <5>2. PICK k \in Healthy(s) : runs[s][k].at = baseline[s]
          BY <1>5, <4>2 DEF RunInv
        <5>. QED BY <5>1, <5>2, <2>4
      <4>. QED BY <3>2, <4>1, <4>2 DEF RunInv
    <3>. QED BY <3>1, <3>2
  <2>. QED BY <1>5, <2>6 DEF RunInv
<1>. QED BY <1>4, <1>5, <1>7, <1>8, <1>9

-----------------------------------------------------------------------------
LEMMA WritersTask ==
    ASSUME Inv, NEW a \in Agents, NEW s \in Sources, task[a][s].phase = "writing", StillOwner(a, s)
    PROVE  LET t == task[a][s] IN
           /\ t \in Task /\ t.initial \in BOOLEAN /\ t.healthy \in BOOLEAN
           /\ t.unchanged \in Nat /\ t.at \in Nat
           /\ t.seen \in [Posts -> Items \cup {NoItem}]
           /\ t.claim = claims[s]
           /\ t.unchanged = unchanged[s]
           /\ baseline[s] <= t.at
           /\ ~t.initial => baseline[s] # 0
           /\ t.initial /\ s \notin forgotten => baseline[s] = 0
           /\ 1 <= t.at /\ t.at <= now
           /\ SeenOn(s, t.seen)
<1>1. TaskTypeOK
  BY TypeParts DEF Inv
<1>2. Owned(a, s) /\ task[a][s].phase # "idle"
  BY DEF Owned, StillOwner
<1>. QED BY <1>1, <1>2, TaskParts DEF Inv, ClaimInv, TaskInv

(* The run becomes the last one of its source.                             *)
LEMMA PersistRuns ==
    ASSUME Inv, NEW a \in Agents, NEW s \in Sources, NEW found, Commits(a, s, found)
    PROVE  /\ RunInv'
           /\ baseline[s] # 0 => baseline'[s] = baseline[s]
           /\ \A r \in Sources : r # s => baseline'[r] = baseline[r]
           /\ task[a][s].healthy => baseline'[s] # 0
<1>. DEFINE t == task[a][s]
            n == Len(runs[s])
<1>1. RunTypeOK /\ PageTypeOK
  BY TypeParts DEF Inv
<1>2. /\ t \in Task /\ t.healthy \in BOOLEAN /\ t.at \in Nat /\ baseline[s] <= t.at
      /\ 1 <= t.at /\ t.at <= now
  BY WritersTask DEF Commits
<1>3. /\ runs' = [runs EXCEPT ![s] = Append(runs[s], RunOf(t))]
      /\ baseline' = [baseline EXCEPT ![s] =
                         IF baseline[s] = 0 /\ t.healthy THEN t.at ELSE baseline[s]]
      /\ forgotten' = forgotten /\ now' = now
  BY DEF Commits, Persist, pageVars
<1>4. RunOf(t).at = t.at /\ RunOf(t).healthy = t.healthy
  BY DEF RunOf
<1>5. n \in Nat /\ DOMAIN runs[s] = 1 .. n
  BY <1>1, LenProperties DEF RunTypeOK
<1>6. /\ DOMAIN runs'[s] = 1 .. n + 1
      /\ \A k \in 1 .. n : runs'[s][k] = runs[s][k]
      /\ runs'[s][n + 1] = RunOf(t)
  <2>1. runs'[s] = Append(runs[s], RunOf(t)) /\ runs[s] \in Seq(Runs) /\ RunOf(t) \in Runs
    BY <1>1, <1>2, <1>3, RunType DEF RunTypeOK
  <2>. QED BY <2>1, <1>5, AppendProperties, LenProperties
<1>. HIDE DEF t, n
<1>7. Healthy(s)' = Healthy(s) \cup (IF t.healthy THEN {n + 1} ELSE {})
  <2>1. \A k \in 1 .. n : k \in Healthy(s)' <=> k \in Healthy(s)
    BY <1>5, <1>6 DEF Healthy
  <2>2. n + 1 \in Healthy(s)' <=> t.healthy
    BY <1>4, <1>5, <1>6 DEF Healthy
  <2>3. Healthy(s)' \in SUBSET (1 .. n + 1) /\ Healthy(s) \in SUBSET (1 .. n)
    BY <1>5, <1>6 DEF Healthy
  <2>. QED BY <1>2, <1>5, <2>1, <2>2, <2>3
<1>8. /\ baseline'[s] = IF baseline[s] = 0 /\ t.healthy THEN t.at ELSE baseline[s]
      /\ \A r \in Sources : r # s => baseline'[r] = baseline[r]
      /\ baseline[s] \in Nat /\ now \in Nat
  BY <1>1, <1>3 DEF RunTypeOK, PageTypeOK
<1>9. /\ baseline[s] <= now
      /\ \A k \in Healthy(s) : baseline[s] # 0 /\ baseline[s] <= runs[s][k].at
      /\ s \notin forgotten /\ baseline[s] # 0 => \E k \in Healthy(s) : runs[s][k].at = baseline[s]
  BY DEF Inv, RunInv
<1>10. \A k \in Healthy(s) : k \in 1 .. n /\ runs'[s][k] = runs[s][k]
  BY <1>5, <1>6 DEF Healthy
<1>11. /\ baseline'[s] <= now
       /\ baseline[s] # 0 => baseline'[s] = baseline[s]
       /\ t.healthy => baseline'[s] # 0
  BY <1>2, <1>8, <1>9
<1>12. ASSUME NEW k \in Healthy(s)' PROVE baseline'[s] # 0 /\ baseline'[s] <= runs'[s][k].at
  <2>1. CASE k \in Healthy(s)
    BY <2>1, <1>8, <1>9, <1>10
  <2>2. CASE k = n + 1 /\ t.healthy
    BY <2>2, <1>2, <1>4, <1>6, <1>8
  <2>. QED BY <1>7, <2>1, <2>2
<1>13. ASSUME s \notin forgotten, baseline'[s] # 0
       PROVE  \E k \in Healthy(s)' : runs'[s][k].at = baseline'[s]
  <2>1. CASE baseline[s] # 0
    BY <2>1, <1>7, <1>9, <1>10, <1>11, <1>13
  <2>2. CASE baseline[s] = 0
    <3>1. t.healthy /\ baseline'[s] = t.at
      BY <2>2, <1>2, <1>8, <1>13
    <3>. QED BY <3>1, <1>4, <1>6, <1>7
  <2>. QED BY <2>1, <2>2
<1>14. ASSUME NEW r \in Sources, r # s PROVE Healthy(r)' = Healthy(r) /\ runs'[r] = runs[r]
  BY <1>1, <1>3, <1>14 DEF Healthy, RunTypeOK
<1>15. RunInv'
  <2>1. ASSUME NEW r \in Sources
        PROVE  /\ baseline'[r] <= now
               /\ \A k \in Healthy(r)' : baseline'[r] # 0 /\ baseline'[r] <= runs'[r][k].at
               /\ r \notin forgotten /\ baseline'[r] # 0 =>
                     \E k \in Healthy(r)' : runs'[r][k].at = baseline'[r]
    <3>1. CASE r = s
      BY <3>1, <1>11, <1>12, <1>13
    <3>2. CASE r # s
      BY <3>2, <1>8, <1>14 DEF Inv, RunInv
    <3>. QED BY <3>1, <3>2
  <2>. QED BY <1>3, <2>1 DEF RunInv
<1>. QED BY <1>8, <1>11, <1>15 DEF t

LEMMA PersistTasks ==
    ASSUME Inv, NEW a \in Agents, NEW s \in Sources, NEW found, Commits(a, s, found)
    PROVE  ClaimInv' /\ TaskInv'
<1>. USE DEF Inv
<1>1. TaskTypeOK /\ PaceTypeOK /\ RunTypeOK /\ LeaseTypeOK
  BY TypeParts
<1>2. SetTask(a, s, NoTask)
  BY DEF Commits, Persist, EndTask, SetTask
<1>3. /\ task'[a][s].phase = "idle"
      /\ \A b \in Agents, r \in Sources : b # a \/ r # s => task'[b][r] = task[b][r]
  BY <1>1, <1>2, IdleTask, OneTask
<1>4. /\ now' = now /\ published' = published /\ claims' = claims /\ forgotten' = forgotten
      /\ owner' = [owner EXCEPT ![s] = NoOwner]
      /\ unchanged' = [unchanged EXCEPT ![s] = NextUnchanged(task[a][s], Inserts(task[a][s].seen, found))]
  BY DEF Commits, Persist, pageVars
<1>5. /\ owner'[s] = NoOwner
      /\ \A r \in Sources : r # s => owner'[r] = owner[r] /\ unchanged'[r] = unchanged[r]
                                     /\ baseline'[r] = baseline[r]
  BY <1>1, <1>4, PersistRuns DEF LeaseTypeOK, PaceTypeOK
<1>6. ClaimInv'
  <2>. SUFFICES ASSUME NEW b \in Agents, NEW r \in Sources,
                       task'[b][r].phase # "idle", owner'[r] = OwnerOf[b]
                PROVE  LET u == task'[b][r] IN
                       /\ u.claim = claims'[r]
                       /\ u.unchanged = unchanged'[r]
                       /\ baseline'[r] <= u.at
                       /\ ~u.initial => baseline'[r] # 0
                       /\ u.initial /\ r \notin forgotten' => baseline'[r] = 0
    BY DEF ClaimInv, Owned
  <2>1. r # s
    BY <1>5, CrawlAssumption
  <2>2. task'[b][r] = task[b][r] /\ owner[r] = OwnerOf[b]
    BY <1>3, <1>5, <2>1
  <2>. QED BY <1>4, <1>5, <2>1, <2>2 DEF ClaimInv, Owned
<1>7. TaskInv'
  <2>. SUFFICES ASSUME NEW b \in Agents, NEW r \in Sources, task'[b][r].phase # "idle"
                PROVE  /\ 1 <= task'[b][r].at /\ task'[b][r].at <= now
                       /\ SeenOn(r, task'[b][r].seen)
    BY <1>4 DEF TaskInv, SeenOn
  <2>. QED BY <1>3 DEF TaskInv
<1>. QED BY <1>6, <1>7

(* A post of s is loud afterwards only if the source had a healthy run.    *)
LEMMA NewlyLoud ==
    ASSUME Inv, NEW a \in Agents, NEW s \in Sources, NEW found, Commits(a, s, found),
           NEW p \in loud'
    PROVE  /\ SourceOf[p] = s /\ s \notin forgotten => baseline[s] # 0
           /\ p \notin loud => /\ SourceOf[p] = s /\ ~task[a][s].initial
                               /\ task[a][s].seen[p] # NoItem
                               /\ RowsOf(p) = {}
<1>1. PostTypeOK
  BY TypeParts DEF Inv
<1>2. p \in loud \/ /\ p \in Posts /\ task[a][s].seen[p] # NoItem
                    /\ RowsOf(p) = {} /\ ~task[a][s].initial
  BY DEF Commits, Persist
<1>3. SeenOn(s, task[a][s].seen) /\ (~task[a][s].initial => baseline[s] # 0)
  BY WritersTask DEF Commits
<1>4. p \in loud /\ SourceOf[p] = s /\ s \notin forgotten => baseline[s] # 0
  BY DEF Inv, PaceInv
<1>. QED BY <1>2, <1>3, <1>4 DEF SeenOn

LEMMA PersistPace ==
    ASSUME Inv, NEW a \in Agents, NEW s \in Sources, NEW found, Commits(a, s, found)
    PROVE  PaceInv' /\ IdleIsEarned'
<1>. DEFINE t == task[a][s]
            ins == Inserts(t.seen, found)
<1>1. PaceTypeOK /\ RunTypeOK
  BY TypeParts DEF Inv
<1>2. /\ t.initial \in BOOLEAN /\ t.healthy \in BOOLEAN /\ t.unchanged = unchanged[s]
      /\ ~t.initial => baseline[s] # 0
      /\ t.initial /\ s \notin forgotten => baseline[s] = 0
  BY WritersTask DEF Commits
<1>3. /\ forgotten' = forgotten
      /\ loud' = loud \cup {p \in Posts : t.seen[p] # NoItem /\ RowsOf(p) = {} /\ ~t.initial}
      /\ quiet' = [quiet EXCEPT ![s] =
                      IF ~t.healthy THEN quiet[s] ELSE IF ins THEN 0 ELSE quiet[s] + 1]
      /\ unchanged' = [unchanged EXCEPT ![s] = NextUnchanged(t, ins)]
      /\ pace' = [pace EXCEPT ![s] = NextPace(t, ins)]
  BY DEF Commits, Persist
<1>4. /\ t.healthy => baseline'[s] # 0
      /\ baseline[s] # 0 => baseline'[s] = baseline[s]
      /\ \A r \in Sources : r # s => baseline'[r] = baseline[r]
  BY PersistRuns
<1>. HIDE DEF t, ins
<1>5. /\ unchanged'[s] = NextUnchanged(t, ins) /\ pace'[s] = NextPace(t, ins)
      /\ quiet'[s] = IF ~t.healthy THEN quiet[s] ELSE IF ins THEN 0 ELSE quiet[s] + 1
      /\ \A r \in Sources : r # s => /\ unchanged'[r] = unchanged[r]
                                     /\ pace'[r] = pace[r] /\ quiet'[r] = quiet[r]
  BY <1>1, <1>3 DEF PaceTypeOK, RunTypeOK
<1>6. unchanged[s] \in Nat /\ quiet[s] \in Nat
  BY <1>1 DEF PaceTypeOK, RunTypeOK
<1>7. s \notin forgotten => /\ unchanged[s] <= quiet[s]
                            /\ baseline[s] = 0 => unchanged[s] = 0
                            /\ pace[s] = "idle" => quiet[s] >= IdleAfter
  BY DEF Inv, PaceInv, IdleIsEarned
<1>8. s \notin forgotten => unchanged'[s] <= quiet'[s]
  <2>1. CASE ~t.healthy
    BY <2>1, <1>2, <1>5, <1>7 DEF NextUnchanged
  <2>2. CASE t.healthy /\ t.initial
    BY <2>2, <1>2, <1>5, <1>6, <1>7 DEF NextUnchanged
  <2>3. CASE t.healthy /\ ~t.initial
    BY <2>3, <1>2, <1>5, <1>6, <1>7 DEF NextUnchanged
  <2>. QED BY <1>2, <2>1, <2>2, <2>3
<1>9. ASSUME s \notin forgotten, baseline'[s] = 0
      PROVE  unchanged'[s] = 0 /\ \A p \in loud' : SourceOf[p] # s
  <2>1. ~t.healthy /\ baseline[s] = 0
    BY <1>2, <1>4, <1>9
  <2>2. unchanged'[s] = 0
    BY <2>1, <1>2, <1>5, <1>7, <1>9 DEF NextUnchanged
  <2>. QED BY <2>1, <2>2, <1>9, NewlyLoud
<1>10. s \notin forgotten /\ pace'[s] = "idle" => quiet'[s] >= IdleAfter
  <2>. SUFFICES ASSUME s \notin forgotten, pace'[s] = "idle" PROVE quiet'[s] >= IdleAfter
    OBVIOUS
  <2>1. t.healthy /\ ~t.initial /\ ~(NextUnchanged(t, ins) < IdleAfter)
    BY <1>2, <1>5 DEF NextPace
  <2>2. ~ins /\ NextUnchanged(t, ins) = unchanged[s] + 1
    BY <2>1, <1>2, CrawlAssumption DEF NextUnchanged
  <2>. QED BY <2>1, <2>2, <1>5, <1>6, <1>7, CrawlAssumption
<1>11. ASSUME NEW r \in Sources \ forgotten, r # s, baseline[r] = 0, NEW p \in loud'
       PROVE  SourceOf[p] # r
  <2>1. CASE p \in loud
    BY <2>1, <1>11 DEF Inv, PaceInv
  <2>2. CASE p \notin loud
    <3>1. t.seen[p] # NoItem /\ p \in Posts /\ SeenOn(s, t.seen)
      BY <2>2, <1>3, WritersTask DEF Commits, t
    <3>. QED BY <3>1, <1>11 DEF SeenOn
  <2>. QED BY <2>1, <2>2
<1>12. PaceInv'
  <2>1. ASSUME NEW r \in Sources \ forgotten
        PROVE  /\ unchanged'[r] <= quiet'[r]
               /\ baseline'[r] = 0 => unchanged'[r] = 0 /\ \A p \in loud' : SourceOf[p] # r
    <3>1. CASE r = s
      BY <3>1, <1>8, <1>9
    <3>2. CASE r # s
      BY <3>2, <1>4, <1>5, <1>11 DEF Inv, PaceInv
    <3>. QED BY <3>1, <3>2
  <2>. QED BY <1>3, <2>1 DEF PaceInv
<1>13. IdleIsEarned'
  <2>1. ASSUME NEW r \in Sources \ forgotten, pace'[r] = "idle"
        PROVE  quiet'[r] >= IdleAfter
    <3>1. CASE r = s
      BY <2>1, <3>1, <1>10
    <3>2. CASE r # s
      BY <2>1, <3>2, <1>5 DEF Inv, IdleIsEarned
    <3>. QED BY <3>1, <3>2
  <2>. QED BY <1>3, <2>1 DEF IdleIsEarned
<1>. QED BY <1>12, <1>13

(* What a row of the report's posts becomes.                               *)
LEMMA PersistRow ==
    ASSUME Inv, NEW a \in Agents, NEW s \in Sources, NEW found, Commits(a, s, found),
           NEW i \in Ids, row'[i] # NoRow
    PROVE  LET item == task[a][s].seen[PostOf[i]] IN
           \/ row'[i] = row[i] /\ row[i] # NoRow
           \/ item # NoItem /\ item.id = i /\ row'[i].hash = item.hash
<1>1. row'[i] = StoredRow(i, task[a][s].seen, found)
  BY DEF Commits, Persist
<1>. QED BY <1>1 DEF StoredRow

LEMMA PersistRows ==
    ASSUME Inv, NEW a \in Agents, NEW s \in Sources, NEW found, Commits(a, s, found)
    PROVE  RowInv'
<1>1. published' = published
  BY DEF Commits, Persist, pageVars
<1>2. SeenOn(s, task[a][s].seen)
  BY WritersTask DEF Commits
<1>3. ASSUME NEW i \in Ids, row'[i] # NoRow PROVE published[PostOf[i]] # 0
  BY <1>2, <1>3, PersistRow, CrawlAssumption DEF SeenOn, Inv, RowInv
<1>. QED BY <1>1, <1>3 DEF RowInv

(* Whatever a crawl announces was published after the first healthy run,   *)
(* the cutoff being a time of that run or of a later one.                  *)
LEMMA EmittedIsNews ==
    ASSUME Inv, NEW a \in Agents, NEW s \in Sources, NEW found, Commits(a, s, found),
           ~NotifyExisting, NEW p \in Emitted(s, task[a][s], found)
    PROVE  /\ SourceOf[p] = s
           /\ baseline[s] # 0 /\ baseline'[s] = baseline[s]
           /\ published[p] > baseline[s]
<1>. DEFINE t == task[a][s]
<1>1. /\ t.at \in Nat /\ baseline[s] <= t.at /\ SeenOn(s, t.seen)
      /\ ~t.initial => baseline[s] # 0
  BY WritersTask DEF Commits
<1>2. /\ p \in Posts /\ t.seen[p] # NoItem /\ ~t.initial
      /\ AfterCutoff(s, p, t)
  BY DEF Emitted, Changed
<1>3. SourceOf[p] = s /\ baseline[s] # 0
  BY <1>1, <1>2 DEF SeenOn
<1>4. RunTypeOK /\ PageTypeOK
  BY TypeParts DEF Inv
<1>5. published[p] > baseline[s]
  <2>1. ASSUME NEW k \in Healthy(s), published[p] > runs[s][k].at
        PROVE  published[p] > baseline[s]
    <3>1. runs[s] \in Seq(Runs) /\ k \in DOMAIN runs[s]
      BY <1>4 DEF RunTypeOK, Healthy
    <3>2. runs[s][k] \in Runs
      BY <3>1, ElementOfSeq, LenProperties
    <3>3. baseline[s] <= runs[s][k].at
      BY DEF Inv, RunInv
    <3>. QED BY <2>1, <3>2, <3>3, <1>2, <1>4 DEF Runs, RunTypeOK, PageTypeOK
  <2>2. ASSUME published[p] > t.at PROVE published[p] > baseline[s]
    BY <2>2, <1>1, <1>2, <1>4 DEF RunTypeOK, PageTypeOK
  <2>. QED BY <1>2, <2>1, <2>2 DEF AfterCutoff
<1>. QED BY <1>3, <1>5, PersistRuns

LEMMA PersistEvents ==
    ASSUME Inv, NEW a \in Agents, NEW s \in Sources, NEW found, Commits(a, s, found)
    PROVE  OnlyNewsAnnounced'
<1>. DEFINE t == task[a][s]
<1>1. /\ published' = published
      /\ events' = events \cup {EventKey(t.seen[p]) : p \in Emitted(s, t, found)}
  BY DEF Commits, Persist, pageVars
<1>2. t \in Task /\ SeenOn(s, t.seen)
  BY WritersTask DEF Commits
<1>. SUFFICES ASSUME ~NotifyExisting, NEW e \in events'
              PROVE  /\ baseline'[SourceOf[PostOf[e[1]]]] # 0
                     /\ published[PostOf[e[1]]] > baseline'[SourceOf[PostOf[e[1]]]]
  BY <1>1 DEF OnlyNewsAnnounced
<1>3. CASE e \in events
  <2>1. SourceOf[PostOf[e[1]]] \in Sources
    BY <1>3, TypeParts, CrawlAssumption DEF Inv, PostTypeOK
  <2>2. /\ baseline[SourceOf[PostOf[e[1]]]] # 0
        /\ published[PostOf[e[1]]] > baseline[SourceOf[PostOf[e[1]]]]
    BY <1>3 DEF Inv, OnlyNewsAnnounced
  <2>. QED BY <2>1, <2>2, PersistRuns
<1>4. CASE e \notin events
  <2>1. PICK p \in Emitted(s, t, found) : e = EventKey(t.seen[p])
    BY <1>1, <1>4
  <2>2. PostOf[e[1]] = p
    BY <1>2, <2>1, KeyType DEF SeenOn
  <2>. QED BY <2>1, <2>2, EmittedIsNews
<1>. QED BY <1>3, <1>4

(* A post that is stored with another text is announced, unless it is an   *)
(* old one: the first healthy run is still there to measure it by.         *)
LEMMA PersistNews ==
    ASSUME Inv, NEW a \in Agents, NEW s \in Sources, NEW found, Commits(a, s, found)
    PROVE  NewsAnnounced'
<1>. DEFINE t == task[a][s]
            Told(p, hash) == \E e \in events' : PostOf[e[1]] = p /\ TextOf[e[2]] = TextOf[hash]
<1>1. /\ published' = published /\ forgotten' = forgotten
      /\ events' = events \cup {EventKey(t.seen[p]) : p \in Emitted(s, t, found)}
      /\ Found(t.seen, found)
      /\ found \in SUBSET {i \in Ids : row[i] # NoRow}
  BY DEF Commits, Persist, pageVars
<1>2. /\ t \in Task /\ SeenOn(s, t.seen) /\ t.initial \in BOOLEAN
      /\ t.initial /\ s \notin forgotten => baseline[s] = 0
  BY WritersTask DEF Commits
<1>. SUFFICES ASSUME NEW i \in Ids, row'[i] # NoRow, PostOf[i] \in loud',
                     SourceOf[PostOf[i]] \notin forgotten,
                     published[PostOf[i]] > baseline'[SourceOf[PostOf[i]]]
              PROVE  Told(PostOf[i], row'[i].hash)
  BY <1>1 DEF NewsAnnounced
<1>. DEFINE p == PostOf[i]
<1>3. p \in Posts /\ SourceOf[p] \in Sources
  BY CrawlAssumption
<1>4. baseline'[SourceOf[p]] = baseline[SourceOf[p]]
  <2>1. CASE SourceOf[p] = s
    <3>1. baseline[s] # 0
      BY <2>1, NewlyLoud
    <3>. QED BY <2>1, <3>1, PersistRuns
  <2>2. CASE SourceOf[p] # s
    BY <1>3, <2>2, PersistRuns
  <2>. QED BY <2>1, <2>2
<1>5. ASSUME NEW j \in Ids, PostOf[j] = p, row[j] # NoRow PROVE Told(p, row[j].hash)
  <2>1. RowsOf(p) # {}
    BY <1>5 DEF RowsOf
  <2>2. p \in loud
    BY <2>1, NewlyLoud
  <2>3. published[p] > baseline[SourceOf[p]]
    BY <1>4
  <2>4. \E e \in events : PostOf[e[1]] = p /\ TextOf[e[2]] = TextOf[row[j].hash]
    BY <1>5, <2>2, <2>3 DEF Inv, NewsAnnounced
  <2>. QED BY <1>1, <2>4
<1>6. CASE row'[i] = row[i] /\ row[i] # NoRow
  BY <1>5, <1>6
<1>7. CASE /\ t.seen[p] # NoItem /\ t.seen[p].id = i
           /\ row'[i].hash = t.seen[p].hash
  <2>1. SourceOf[p] = s
    BY <1>2, <1>3, <1>7 DEF SeenOn
  <2>2. s \notin forgotten /\ baseline[s] # 0 /\ published[p] > baseline[s]
    BY <1>4, <2>1, NewlyLoud
  <2>3. CASE Changed(p, t.seen, found)
    <3>1. PICK k \in Healthy(s) : runs[s][k].at = baseline[s]
      BY <2>2 DEF Inv, RunInv
    <3>2. AfterCutoff(s, p, t)
      BY <2>2, <3>1 DEF AfterCutoff
    <3>3. ~t.initial
      BY <1>2, <2>2
    <3>4. p \in Emitted(s, t, found)
      BY <1>3, <2>3, <3>2, <3>3 DEF Emitted
    <3>5. EventKey(t.seen[p]) \in events'
      BY <1>1, <3>4
    <3>6. EventKey(t.seen[p])[1] = i /\ EventKey(t.seen[p])[2] = row'[i].hash
      BY <1>2, <1>7, <3>4, KeyType
    <3>. QED BY <3>5, <3>6
  <2>4. CASE ~Changed(p, t.seen, found)
    <3>1. PICK j \in found : PostOf[j] = p /\ TextOf[row[j].hash] = TextOf[t.seen[p].hash]
      BY <1>7, <2>4 DEF Changed
    <3>2. j \in Ids /\ row[j] # NoRow
      BY <1>1
    <3>. QED BY <1>5, <1>7, <3>1, <3>2
  <2>. QED BY <2>3, <2>4
<1>. QED BY <1>6, <1>7, PersistRow

LEMMA CommitStep ==
    ASSUME Inv, NEW a \in Agents, NEW s \in Sources, PersistCommit(a, s)
    PROVE  Inv'
<1>1. PICK found \in SUBSET {i \in Ids : row[i] # NoRow} : Persist(a, s, found)
  BY DEF PersistCommit
<1>2. Commits(a, s, found)
  BY <1>1 DEF PersistCommit, Commits
<1>3. now' = now
  BY <1>1 DEF Persist, pageVars
<1>4. TypeOK' /\ ClaimInv' /\ TaskInv'
  BY <1>2, PersistType, PersistTasks DEF Inv
<1>5. RunInv' /\ PaceInv' /\ IdleIsEarned' /\ RowInv'
  BY <1>2, PersistRuns, PersistPace, PersistRows
<1>6. OnlyNewsAnnounced' /\ NewsAnnounced'
  BY <1>2, PersistEvents, PersistNews
<1>. QED BY <1>3, <1>4, <1>5, <1>6 DEF Inv

-----------------------------------------------------------------------------
LEMMA Stutter == ASSUME Inv, UNCHANGED vars PROVE Inv'
<1>1. TypeOK'
  BY TypeStep DEF Inv
<1>. QED BY <1>1, LeaseStep DEF vars, leaseVars, TasksEnd

LEMMA NextInv == ASSUME DistinctOwners, Inv, [Next]_vars PROVE Inv'
<1>1. CASE \E p \in Posts : Publish(p) \/ \E h \in Hashes : Edit(p, h)
  BY <1>1, PublishStep, EditStep
<1>2. CASE \E a \in Agents : \E batch \in SUBSET Sources : \E recent \in BOOLEAN :
              Claim(a, batch, recent)
  BY <1>2, ClaimStep
<1>3. CASE \E a \in Agents, s \in Sources :
              PersistBegin(a, s) \/ PersistCommit(a, s)
  BY <1>3, BeginStep, CommitStep
<1>4. CASE \E a \in Agents, s \in Sources :
              PersistRefused(a, s) \/ PersistRollback(a, s) \/ DatabaseFails(a, s)
  BY <1>4, DropStep
<1>5. CASE \E a \in Agents, s \in Sources : \E n \in 1 .. Len(runs[s]) - 1 :
              ApplyRetention(a, s, n)
  BY <1>5, RetentionStep
<1>6. CASE \E a \in Agents : Shutdown(a) \/ Crash(a)
  BY <1>6, ProcessStep
<1>7. CASE \E s \in Sources : LeaseExpires(s) \/ ComesDue(s)
  BY <1>7, ClockStep
<1>8. CASE UNCHANGED vars
  BY <1>8, Stutter
<1>. QED BY <1>1, <1>2, <1>3, <1>4, <1>5, <1>6, <1>7, <1>8 DEF Next

(* Nothing is announced that was there before the first healthy crawl of   *)
(* its source: events_suppressed and the cutoff of persist_post, whatever  *)
(* leases end, tasks are late and runs are deleted in between.             *)
THEOREM OldPostsStaySilent == ASSUME DistinctOwners PROVE Spec => []OnlyNewsAnnounced
<1>0. Inv /\ [Next]_vars => Inv'
  BY NextInv, DistinctOwners
<1>1. Inv => OnlyNewsAnnounced
  BY DEF Inv
<1>. QED BY <1>0, <1>1, InitInv, PTL DEF Spec

(* What was published after it and stored by a later crawl is announced    *)
(* with the text that is stored, under whatever id and URL it comes.       *)
THEOREM NewPostsAreAnnounced == ASSUME DistinctOwners PROVE Spec => []NewsAnnounced
<1>0. Inv /\ [Next]_vars => Inv'
  BY NextInv, DistinctOwners
<1>1. Inv => NewsAnnounced
  BY DEF Inv
<1>. QED BY <1>0, <1>1, InitInv, PTL DEF Spec

(* A source is crawled at the idle pace only after as many healthy crawls  *)
(* without a new post as the configuration asks for.                       *)
THEOREM IdlePaceIsEarned == ASSUME DistinctOwners PROVE Spec => []IdleIsEarned
<1>0. Inv /\ [Next]_vars => Inv'
  BY NextInv, DistinctOwners
<1>1. Inv => IdleIsEarned
  BY DEF Inv
<1>. QED BY <1>0, <1>1, InitInv, PTL DEF Spec

-----------------------------------------------------------------------------
Stores(s) ==
    Len(runs'[s]) > Len(runs[s]) =>
        \E a \in Agents : /\ task[a][s].phase = "writing"
                          /\ task[a][s].claim = claims[s]
                          /\ task'[a][s] = NoTask

LEMMA CommitStores ==
    ASSUME Inv, NEW a \in Agents, NEW s \in Sources, PersistCommit(a, s),
           NEW r \in Sources
    PROVE  Stores(r)
<1>1. PICK found \in SUBSET {i \in Ids : row[i] # NoRow} : Persist(a, s, found)
  BY DEF PersistCommit
<1>2. task[a][s].phase = "writing" /\ StillOwner(a, s)
  BY DEF PersistCommit
<1>3. task[a][s].claim = claims[s]
  BY <1>2, WritersTask
<1>4. SetTask(a, s, NoTask) /\ runs' = [runs EXCEPT ![s] = Append(runs[s], RunOf(task[a][s]))]
  BY <1>1 DEF Persist, EndTask, SetTask
<1>5. task'[a][s] = NoTask
  BY <1>4, TypeParts, IdleTask, OneTask DEF Inv
<1>6. CASE r = s
  BY <1>2, <1>3, <1>5, <1>6 DEF Stores
<1>7. CASE r # s
  <2>1. runs'[r] = runs[r] /\ Len(runs[r]) \in Nat
    BY <1>4, <1>7, TypeParts, LenProperties DEF Inv, RunTypeOK
  <2>. QED BY <2>1 DEF Stores
<1>. QED BY <1>6, <1>7

LEMMA RetentionStores ==
    ASSUME Inv, NEW a \in Agents, NEW s \in Sources, NEW n \in 1 .. Len(runs[s]) - 1,
           ApplyRetention(a, s, n), NEW r \in Sources
    PROVE  Stores(r)
<1>1. /\ runs \in [Sources -> Seq(Runs)]
      /\ runs' = [runs EXCEPT ![s] = SubSeq(runs[s], n + 1, Len(runs[s]))]
  BY TypeParts DEF Inv, RunTypeOK, ApplyRetention
<1>2. runs[s] \in Seq(Runs) /\ Len(runs[s]) \in Nat /\ Len(runs[r]) \in Nat /\ n \in Nat
  BY <1>1, LenProperties
<1>3. CASE r = s
  <2>1. \A k \in n + 1 .. Len(runs[s]) : runs[s][k] \in Runs
    BY <1>2, ElementOfSeq
  <2>2. Len(SubSeq(runs[s], n + 1, Len(runs[s]))) =
           IF n + 1 <= Len(runs[s]) THEN Len(runs[s]) - (n + 1) + 1 ELSE 0
    BY <1>2, <2>1, SubSeqProperties
  <2>3. runs'[s] = SubSeq(runs[s], n + 1, Len(runs[s]))
    BY <1>1
  <2>. QED BY <1>2, <1>3, <2>2, <2>3 DEF Stores
<1>4. CASE r # s
  BY <1>1, <1>2, <1>4 DEF Stores
<1>. QED BY <1>3, <1>4

LEMMA OthersStoreNothing ==
    ASSUME Inv, UNCHANGED runs, NEW r \in Sources
    PROVE  Stores(r)
<1>1. Len(runs[r]) \in Nat
  BY TypeParts, LenProperties DEF Inv, RunTypeOK
<1>. QED BY <1>1 DEF Stores

LEMMA NextStores == ASSUME Inv, [Next]_vars, NEW r \in Sources PROVE Stores(r)
<1>1. CASE \E a \in Agents, s \in Sources : PersistCommit(a, s)
  BY <1>1, CommitStores
<1>2. CASE \E a \in Agents, s \in Sources : \E n \in 1 .. Len(runs[s]) - 1 :
              ApplyRetention(a, s, n)
  BY <1>2, RetentionStores
<1>3. CASE \E p \in Posts : Publish(p) \/ \E h \in Hashes : Edit(p, h)
  BY <1>3, OthersStoreNothing DEF Publish, Edit, runVars
<1>4. CASE \/ \E a \in Agents : \E batch \in SUBSET Sources : \E recent \in BOOLEAN :
                 Claim(a, batch, recent)
           \/ \E a \in Agents, s \in Sources : PersistBegin(a, s)
  BY <1>4, OthersStoreNothing DEF Claim, PersistBegin, runVars
<1>5. CASE \E a \in Agents, s \in Sources :
              PersistRefused(a, s) \/ PersistRollback(a, s) \/ DatabaseFails(a, s)
  BY <1>5, OthersStoreNothing DEF PersistRefused, PersistRollback, DatabaseFails, runVars
<1>6. CASE \/ \E a \in Agents : Shutdown(a) \/ Crash(a)
           \/ \E s \in Sources : LeaseExpires(s) \/ ComesDue(s)
  BY <1>6, OthersStoreNothing DEF Shutdown, Crash, LeaseExpires, ComesDue, runVars
<1>7. CASE UNCHANGED vars
  BY <1>7, OthersStoreNothing DEF vars, runVars
<1>. QED BY <1>1, <1>2, <1>3, <1>4, <1>5, <1>6, <1>7 DEF Next

(* A run is stored by the agent of the last claim and for that claim,      *)
(* although ensure_lease locks nothing and a lease may end and be taken at *)
(* any moment: finish_source's look at the owner is enough, an agent having*)
(* no second task for a source.                                            *)
THEOREM OnlyTheLastClaimStores == ASSUME DistinctOwners PROVE Spec => LastClaimPersists
<1>0. Inv /\ [Next]_vars => Inv'
  BY NextInv, DistinctOwners
<1>1. Inv /\ [Next]_vars => \A s \in Sources : Stores(s)
  BY NextStores
<1>2. [\A s \in Sources : Stores(s)]_vars
      <=> [\A s \in Sources :
              Len(runs'[s]) > Len(runs[s]) =>
                 \E a \in Agents : /\ task[a][s].phase = "writing"
                                  /\ task[a][s].claim = claims[s]
                                  /\ task'[a][s] = NoTask]_vars
  BY DEF Stores
<1>. QED BY <1>0, <1>1, <1>2, InitInv, PTL DEF Spec, LastClaimPersists
=============================================================================
