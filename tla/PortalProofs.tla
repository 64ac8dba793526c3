---------------------------- MODULE PortalProofs ----------------------------
(***************************************************************************)
(* Proofs about PortalPoll, for every number of notices, every size and    *)
(* number of pages, any workers, and every change of the Portal's list.    *)
(***************************************************************************)
EXTENDS PortalPoll, TLAPS

(* What InsertAt and RemoveAt make of a sequence.                          *)
LEMMA SubSeqFacts ==
    ASSUME NEW S, NEW s \in Seq(S), NEW a \in 1 .. Len(s) + 1, NEW b \in a - 1 .. Len(s)
    PROVE  /\ SubSeq(s, a, b) \in Seq(S)
           /\ Len(SubSeq(s, a, b)) = b - a + 1
           /\ \A k \in 1 .. b - a + 1 : SubSeq(s, a, b)[k] = s[a + k - 1]
  OBVIOUS

LEMMA ConcatFacts ==
    ASSUME NEW S, NEW s \in Seq(S), NEW t \in Seq(S)
    PROVE  /\ s \o t \in Seq(S)
           /\ Len(s \o t) = Len(s) + Len(t)
           /\ \A k \in 1 .. Len(s) + Len(t) :
                 (s \o t)[k] = IF k <= Len(s) THEN s[k] ELSE t[k - Len(s)]
  OBVIOUS

LEMMA RemoveFacts ==
    ASSUME NEW S, NEW s \in Seq(S), NEW i \in 1 .. Len(s)
    PROVE  /\ RemoveAt(s, i) \in Seq(S)
           /\ Len(RemoveAt(s, i)) = Len(s) - 1
           /\ \A k \in 1 .. Len(s) - 1 :
                 RemoveAt(s, i)[k] = IF k < i THEN s[k] ELSE s[k + 1]
<1>. DEFINE before == SubSeq(s, 1, i - 1)
            after == SubSeq(s, i + 1, Len(s))
<1>0. Len(s) \in Nat
  OBVIOUS
<1>1. before \in Seq(S) /\ Len(before) = i - 1 /\ \A k \in 1 .. i - 1 : before[k] = s[k]
  <2>1. 1 \in 1 .. Len(s) + 1 /\ i - 1 \in 1 - 1 .. Len(s)
    BY <1>0
  <2>. QED BY <2>1, SubSeqFacts
<1>2. /\ after \in Seq(S) /\ Len(after) = Len(s) - i
      /\ \A k \in 1 .. Len(s) - i : after[k] = s[(i + 1) + k - 1]
  <2>1. /\ i + 1 \in 1 .. Len(s) + 1 /\ Len(s) \in (i + 1) - 1 .. Len(s)
        /\ Len(s) - (i + 1) + 1 = Len(s) - i
    BY <1>0
  <2>. QED BY <2>1, SubSeqFacts
<1>3. RemoveAt(s, i) = before \o after
  BY DEF RemoveAt
<1>. HIDE DEF before, after
<1>4. /\ before \o after \in Seq(S)
      /\ Len(before \o after) = Len(before) + Len(after)
      /\ \A k \in 1 .. Len(before) + Len(after) :
            (before \o after)[k] = IF k <= Len(before) THEN before[k] ELSE after[k - Len(before)]
  BY <1>1, <1>2, ConcatFacts
<1>5. Len(before) + Len(after) = Len(s) - 1
  BY <1>0, <1>1, <1>2
<1>6. ASSUME NEW k \in 1 .. Len(s) - 1
      PROVE  (before \o after)[k] = IF k < i THEN s[k] ELSE s[k + 1]
  <2>1. CASE k < i
    <3>1. k \in 1 .. i - 1 /\ k <= Len(before)
      BY <1>0, <1>1, <2>1
    <3>. QED BY <1>1, <1>4, <1>5, <2>1, <3>1
  <2>2. CASE ~(k < i)
    <3>1. /\ k - (i - 1) \in 1 .. Len(s) - i /\ ~(k <= Len(before))
          /\ (i + 1) + (k - (i - 1)) - 1 = k + 1
      BY <1>0, <1>1, <2>2
    <3>2. (before \o after)[k] = after[k - (i - 1)]
      BY <1>1, <1>4, <1>5, <3>1
    <3>. QED BY <1>2, <2>2, <3>1, <3>2
  <2>. QED BY <2>1, <2>2
<1>. QED BY <1>3, <1>4, <1>5, <1>6

LEMMA InsertFacts ==
    ASSUME NEW S, NEW s \in Seq(S), NEW n \in S, NEW i \in 1 .. Len(s) + 1
    PROVE  /\ InsertAt(s, i, n) \in Seq(S)
           /\ Len(InsertAt(s, i, n)) = Len(s) + 1
           /\ \A k \in 1 .. Len(s) + 1 :
                 InsertAt(s, i, n)[k] = IF k < i THEN s[k] ELSE IF k = i THEN n ELSE s[k - 1]
<1>. DEFINE before == SubSeq(s, 1, i - 1)
            after == SubSeq(s, i, Len(s))
            until == before \o <<n>>
<1>0. Len(s) \in Nat
  OBVIOUS
<1>1. before \in Seq(S) /\ Len(before) = i - 1 /\ \A k \in 1 .. i - 1 : before[k] = s[k]
  <2>1. 1 \in 1 .. Len(s) + 1 /\ i - 1 \in 1 - 1 .. Len(s)
    BY <1>0
  <2>. QED BY <2>1, SubSeqFacts
<1>2. /\ after \in Seq(S) /\ Len(after) = Len(s) - i + 1
      /\ \A k \in 1 .. Len(s) - i + 1 : after[k] = s[i + k - 1]
  <2>1. Len(s) \in i - 1 .. Len(s)
    BY <1>0
  <2>. QED BY <2>1, SubSeqFacts
<1>3. InsertAt(s, i, n) = until \o after
  BY DEF InsertAt
<1>. HIDE DEF before, after
<1>4. until \in Seq(S) /\ Len(until) = i
      /\ \A k \in 1 .. i : until[k] = IF k < i THEN before[k] ELSE n
  BY <1>1
<1>. HIDE DEF until
<1>5. /\ until \o after \in Seq(S)
      /\ Len(until \o after) = Len(s) + 1
      /\ \A k \in 1 .. Len(s) + 1 :
            (until \o after)[k] = IF k <= i THEN until[k] ELSE after[k - i]
  BY <1>0, <1>2, <1>4, ConcatFacts
<1>6. \A k \in i + 1 .. Len(s) + 1 : after[k - i] = s[k - 1]
  <2>1. \A k \in i + 1 .. Len(s) + 1 : k - i \in 1 .. Len(s) - i + 1 /\ i + (k - i) - 1 = k - 1
    BY <1>0
  <2>. QED BY <1>2, <2>1
<1>7. ASSUME NEW k \in 1 .. Len(s) + 1
      PROVE  (until \o after)[k] = IF k < i THEN s[k] ELSE IF k = i THEN n ELSE s[k - 1]
  <2>1. CASE k < i
    <3>1. k \in 1 .. i - 1 /\ k \in 1 .. i /\ k <= i
      BY <2>1
    <3>. QED BY <1>1, <1>4, <1>5, <2>1, <3>1
  <2>2. CASE k = i
    BY <1>4, <1>5, <2>2
  <2>3. CASE i < k
    <3>1. k \in i + 1 .. Len(s) + 1 /\ ~(k <= i) /\ ~(k < i) /\ k # i
      BY <1>0, <2>3
    <3>2. (until \o after)[k] = after[k - i]
      BY <1>5, <3>1
    <3>3. after[k - i] = s[k - 1]
      BY <1>6, <3>1
    <3>. QED BY <3>1, <3>2, <3>3
  <2>4. k < i \/ k = i \/ i < k
    BY <1>0
  <2>. QED BY <2>1, <2>2, <2>3, <2>4
<1>. QED BY <1>3, <1>5, <1>7

-----------------------------------------------------------------------------
(* The conjuncts of TypeOK, by the groups of variables.                    *)
ListTypeOK ==
    /\ list \in Seq(Notices)
    /\ \A i, j \in DOMAIN list : list[i] = list[j] => i = j

NoticeTypeOK ==
    /\ stored \in [Notices -> {"none", "archived", "planned"}]
    /\ campaigns \in [Notices -> Nat]
    /\ bodiless \in SUBSET Notices
    /\ tries \in [Notices -> 0 .. BodyTries]

PollTypeOK ==
    /\ baseline \in BOOLEAN
    /\ saved \in Modes
    /\ holder \in Workers \cup {NoWorker}
    /\ poll \in [Workers -> Poll]

PastTypeOK ==
    /\ excused \in SUBSET Notices
    /\ faults \in 0 .. MaxFaults

TaskTypeOK == task \in [Workers -> Task]

LEMMA TypeParts ==
    /\ TypeOK => ListTypeOK /\ NoticeTypeOK /\ PollTypeOK /\ PastTypeOK /\ TaskTypeOK
    /\ ListTypeOK' /\ NoticeTypeOK' /\ PollTypeOK' /\ PastTypeOK' /\ TaskTypeOK' => TypeOK'
  BY DEF TypeOK, ListTypeOK, NoticeTypeOK, PollTypeOK, PastTypeOK, TaskTypeOK

LEMMA NoticeUnchanged == ASSUME NoticeTypeOK, UNCHANGED noticeVars PROVE NoticeTypeOK'
  BY DEF NoticeTypeOK, noticeVars

LEMMA PollUnchanged == ASSUME PollTypeOK, UNCHANGED pollVars PROVE PollTypeOK'
  BY DEF PollTypeOK, pollVars

LEMMA PastUnchanged ==
    ASSUME PastTypeOK, excused' = excused, Fault \/ faults' = faults
    PROVE  PastTypeOK'
  BY PortalAssumption DEF PastTypeOK, Fault

LEMMA FaultType == ASSUME PastTypeOK, Fault \/ faults' = faults PROVE faults' \in 0 .. MaxFaults
  BY PortalAssumption DEF PastTypeOK, Fault

LEMMA CycleType ==
    ASSUME NEW phase \in Phases, NEW todo \in SUBSET Notices,
           NEW outcome \in {"unchanged", "new_notices", "error"}
    PROVE  /\ Cycle(phase, todo, outcome) \in Task
           /\ Cycle(phase, todo, outcome).phase = phase
           /\ Cycle(phase, todo, outcome).todo = todo
  BY DEF Cycle, Task

LEMMA ScanType ==
    ASSUME NEW phase \in Phases, NEW shift \in Nat, NEW page \in SUBSET Notices,
           NEW last \in BOOLEAN, NEW todo \in SUBSET Notices
    PROVE  /\ Scan(phase, shift, page, last, todo) \in Task
           /\ Scan(phase, shift, page, last, todo).phase = phase
           /\ Scan(phase, shift, page, last, todo).shift = shift
           /\ Scan(phase, shift, page, last, todo).page = page
           /\ Scan(phase, shift, page, last, todo).last = last
           /\ Scan(phase, shift, page, last, todo).todo = todo
  BY DEF Scan, Task

LEMMA TaskParts ==
    ASSUME TaskTypeOK, NEW w \in Workers
    PROVE  /\ task[w] \in Task
           /\ task[w].phase \in Phases
           /\ task[w].shift \in Nat
           /\ task[w].page \in SUBSET Notices
           /\ task[w].last \in BOOLEAN
           /\ task[w].todo \in SUBSET Notices
           /\ task[w].outcome \in {"unchanged", "new_notices", "error"}
<1>1. task[w] \in Task
  BY DEF TaskTypeOK
<1>. QED BY <1>1 DEF Task

LEMMA ListParts ==
    ASSUME ListTypeOK
    PROVE  /\ Len(list) \in Nat /\ DOMAIN list = 1 .. Len(list)
           /\ \A j \in DOMAIN list : list[j] \in Notices
           /\ Listed = {list[j] : j \in DOMAIN list}
           /\ Listed \in SUBSET Notices
  BY DEF ListTypeOK, Listed, Range

-----------------------------------------------------------------------------
(* The notices that the scan must still find.                              *)
Unsettled == {n \in Notices : n \notin excused /\ stored[n] = "none"}

(* The places in the list l behind one of the notices in G.                *)
Behind(G, l) == {j \in DOMAIN l : \E h \in DOMAIN l : h < j /\ l[h] \in G}

(* What a cycle t has gathered from the list l, while the notices in U are *)
(* unsettled: it leaves out none that is listed behind another, except     *)
(* those on the pages that it has yet to list.                             *)
TaskOK(t, l, U) ==
    /\ t.phase = "archiving" => \A j \in Behind(t.todo, l) : l[j] \notin U
    /\ t.phase = "listing" =>
          /\ t.page = {}
          /\ \A j \in Behind(t.todo, l) : l[j] \in U /\ l[j] \notin t.todo => t.shift < j
    /\ t.phase = "checking" =>
          \A j \in Behind(t.todo \cup t.page, l) :
             l[j] \in U /\ l[j] \notin t.todo \cup t.page =>
                /\ t.shift + PageSize < j /\ ~t.last
                /\ \A m \in t.page : \E h \in DOMAIN l : h < j /\ l[h] = m
    /\ t.phase = "planning" =>
          \A j \in Behind(t.todo, l) : l[j] \in U => l[j] \in t.todo

ScanInv == \A w \in Workers : TaskOK(task[w], list, Unsettled)

(* Those before an unsettled notice are newer, and not stored.             *)
Order ==
    \A i, j \in DOMAIN list :
        i < j /\ list[j] \in Unsettled => stored[list[i]] = "none" /\ list[j] < list[i]

Inv == TypeOK /\ OneFate /\ Order /\ ScanInv

(* The three kinds of cycles that work on what they gathered.              *)
LEMMA ArchivingOK ==
    ASSUME NEW todo \in SUBSET Notices, NEW U,
           \A j \in Behind(todo, list) : list[j] \notin U
    PROVE  /\ Cycle("archiving", todo, "unchanged") \in Task
           /\ TaskOK(Cycle("archiving", todo, "unchanged"), list, U)
<1>. DEFINE t == Cycle("archiving", todo, "unchanged")
<1>1. t \in Task /\ t.phase = "archiving" /\ t.todo = todo
  BY CycleType DEF Phases
<1>. HIDE DEF t
<1>2. TaskOK(t, list, U)
  BY <1>1 DEF TaskOK
<1>. QED BY <1>1, <1>2 DEF t

LEMMA PlanningOK ==
    ASSUME NEW todo \in SUBSET Notices, NEW U,
           NEW outcome \in {"unchanged", "new_notices", "error"},
           \A j \in Behind(todo, list) : list[j] \in U => list[j] \in todo
    PROVE  /\ Cycle("planning", todo, outcome) \in Task
           /\ TaskOK(Cycle("planning", todo, outcome), list, U)
<1>. DEFINE t == Cycle("planning", todo, outcome)
<1>1. t \in Task /\ t.phase = "planning" /\ t.todo = todo
  BY CycleType DEF Phases
<1>. HIDE DEF t
<1>2. TaskOK(t, list, U)
  BY <1>1 DEF TaskOK
<1>. QED BY <1>1, <1>2 DEF t

LEMMA ListingOK ==
    ASSUME NEW todo \in SUBSET Notices, NEW shift \in Nat, NEW U,
           \A j \in Behind(todo, list) : list[j] \in U /\ list[j] \notin todo => shift < j
    PROVE  /\ Scan("listing", shift, {}, FALSE, todo) \in Task
           /\ TaskOK(Scan("listing", shift, {}, FALSE, todo), list, U)
<1>. DEFINE t == Scan("listing", shift, {}, FALSE, todo)
<1>1. "listing" \in Phases /\ {} \in SUBSET Notices /\ FALSE \in BOOLEAN
  BY DEF Phases
<1>2. t \in Task /\ t.phase = "listing" /\ t.shift = shift /\ t.page = {} /\ t.todo = todo
  BY <1>1 DEF Scan, Task
<1>. HIDE DEF t
<1>3. TaskOK(t, list, U)
  BY <1>2 DEF TaskOK
<1>. QED BY <1>2, <1>3 DEF t

(* Less is unsettled: the same cycle is as right as before.                *)
LEMMA TaskStays ==
    ASSUME NEW t \in Task, NEW U, NEW V \in SUBSET U, TaskOK(t, list, U)
    PROVE  TaskOK(t, list, V)
  BY DEF TaskOK

LEMMA TaskMoves ==
    ASSUME Inv, NEW w \in Workers, NEW t \in Task, SetTask(w, t), list' = list,
           Unsettled' \in SUBSET Unsettled, TaskOK(t, list, Unsettled')
    PROVE  TaskTypeOK' /\ ScanInv'
<1>1. TaskTypeOK
  BY TypeParts DEF Inv
<1>2. TaskTypeOK' /\ \A v \in Workers : task'[v] = IF v = w THEN t ELSE task[v]
  BY <1>1 DEF TaskTypeOK, SetTask
<1>3. ASSUME NEW v \in Workers, v # w PROVE TaskOK(task[v], list, Unsettled')
  <2>1. task[v] \in Task /\ TaskOK(task[v], list, Unsettled)
    BY <1>1 DEF Inv, ScanInv, TaskTypeOK
  <2>. QED BY <2>1, TaskStays
<1>4. ASSUME NEW v \in Workers PROVE TaskOK(task'[v], list', Unsettled')
  BY <1>2, <1>3
<1>. QED BY <1>2, <1>4 DEF ScanInv

LEMMA TasksStay ==
    ASSUME Inv, task' = task, list' = list, Unsettled' \in SUBSET Unsettled
    PROVE  TaskTypeOK' /\ ScanInv'
<1>1. TaskTypeOK
  BY TypeParts DEF Inv
<1>2. ASSUME NEW v \in Workers PROVE TaskOK(task[v], list, Unsettled')
  <2>1. task[v] \in Task /\ TaskOK(task[v], list, Unsettled)
    BY <1>1 DEF Inv, ScanInv, TaskTypeOK
  <2>. QED BY <2>1, TaskStays
<1>. QED BY <1>1, <1>2 DEF ScanInv, TaskTypeOK

(* What a step leaves alone when it stores nothing.                        *)
LEMMA NothingStored ==
    ASSUME Inv, UNCHANGED <<list, stored, campaigns>>, excused \in SUBSET excused'
    PROVE  ListTypeOK' /\ Unsettled' \in SUBSET Unsettled /\ OneFate' /\ Order'
<1>1. Unsettled' \in SUBSET Unsettled
  BY DEF Unsettled
<1>2. OneFate' /\ Order'
  BY <1>1 DEF Inv, OneFate, Order
<1>3. ListTypeOK'
  BY TypeParts DEF Inv, ListTypeOK
<1>. QED BY <1>1, <1>2, <1>3

(* A step that stores a notice with nothing unsettled behind it.           *)
LEMMA OneStored ==
    ASSUME Inv, NEW n \in Notices, Archive(n) \/ Plan(n), UNCHANGED <<list, excused>>,
           \A j \in Behind({n}, list) : list[j] \notin Unsettled
    PROVE  /\ ListTypeOK' /\ NoticeTypeOK'
           /\ Unsettled' = Unsettled \ {n}
           /\ OneFate' /\ Order'
<1>1. ListTypeOK /\ NoticeTypeOK
  BY TypeParts DEF Inv
<1>2. /\ stored' \in [Notices -> {"none", "archived", "planned"}]
      /\ stored'[n] # "none"
      /\ \A m \in Notices : m # n => stored'[m] = stored[m]
  BY <1>1 DEF Archive, Plan, NoticeTypeOK
<1>3. /\ NoticeTypeOK' /\ OneFate'
  <2>1. CASE stored[n] = "none" /\ Plan(n)
    BY <2>1, <1>1 DEF Inv, Plan, NoticeTypeOK, OneFate
  <2>2. CASE stored[n] # "none" \/ Archive(n)
    BY <2>2, <1>1 DEF Inv, Plan, Archive, NoticeTypeOK, OneFate
  <2>. QED BY <2>1, <2>2
<1>4. Unsettled' = Unsettled \ {n}
  BY <1>2 DEF Unsettled
<1>5. ASSUME NEW i \in DOMAIN list, NEW j \in DOMAIN list, i < j, list[j] \in Unsettled'
      PROVE  stored'[list[i]] = "none" /\ list[j] < list[i]
  <2>1. list[j] \in Unsettled /\ stored[list[i]] = "none" /\ list[j] < list[i]
    BY <1>4, <1>5 DEF Inv, Order
  <2>2. list[i] # n
    BY <1>5, <2>1 DEF Behind
  <2>. QED BY <1>1, <1>2, <2>1, <2>2, ListParts
<1>6. Order' /\ ListTypeOK'
  BY <1>1, <1>5 DEF Order, ListTypeOK
<1>. QED BY <1>3, <1>4, <1>6

-----------------------------------------------------------------------------
(* The list when n is put at place i, and what is behind G in it: it was   *)
(* behind G before, or is excused.                                         *)
LEMMA PublishPlaces ==
    ASSUME ListTypeOK, NEW n \in Notices, NEW i \in 1 .. Len(list) + 1, Publish(n, i)
    PROVE  /\ ListTypeOK'
           /\ i \in DOMAIN list' /\ list'[i] = n
           /\ \A k \in DOMAIN list' : k < i => k \in DOMAIN list /\ list'[k] = list[k]
           /\ \A k \in DOMAIN list' : i < k => k - 1 \in DOMAIN list /\ list'[k] = list[k - 1]
           /\ \A k \in DOMAIN list : k < i => k \in DOMAIN list' /\ list'[k] = list[k]
           /\ \A k \in DOMAIN list : i <= k => k + 1 \in DOMAIN list' /\ list'[k + 1] = list[k]
<1>1. /\ Len(list) \in Nat /\ DOMAIN list = 1 .. Len(list) /\ list \in Seq(Notices)
      /\ \A k \in DOMAIN list : list[k] # n
      /\ list' = InsertAt(list, i, n)
  BY ListParts DEF ListTypeOK, Publish
<1>2. /\ list' \in Seq(Notices) /\ Len(list') = Len(list) + 1
      /\ \A k \in 1 .. Len(list) + 1 :
            list'[k] = IF k < i THEN list[k] ELSE IF k = i THEN n ELSE list[k - 1]
  <2>1. list \in Seq(Notices)
    BY <1>1
  <2>2. InsertAt(list, i, n) \in Seq(Notices) /\ Len(InsertAt(list, i, n)) = Len(list) + 1
    BY <2>1, InsertFacts
  <2>3. ASSUME NEW k \in 1 .. Len(list) + 1
        PROVE  InsertAt(list, i, n)[k]
                  = IF k < i THEN list[k] ELSE IF k = i THEN n ELSE list[k - 1]
    BY <2>1, InsertFacts, SMTT(30)
  <2>. QED BY <1>1, <2>2, <2>3
<1>3. DOMAIN list' = 1 .. Len(list) + 1
  BY <1>2
<1>4. /\ i \in DOMAIN list' /\ list'[i] = n
      /\ \A k \in DOMAIN list' : k < i => k \in DOMAIN list /\ list'[k] = list[k]
      /\ \A k \in DOMAIN list' : i < k => k - 1 \in DOMAIN list /\ list'[k] = list[k - 1]
      /\ \A k \in DOMAIN list : k < i => k \in DOMAIN list' /\ list'[k] = list[k]
      /\ \A k \in DOMAIN list : i <= k => k + 1 \in DOMAIN list' /\ list'[k + 1] = list[k]
  BY <1>1, <1>2, <1>3
<1>5. ASSUME NEW a \in DOMAIN list', NEW b \in DOMAIN list', list'[a] = list'[b] PROVE a = b
  <2>1. a \in Nat /\ b \in Nat
    BY <1>1, <1>3
  <2>2. CASE a = i \/ b = i
    BY <1>1, <1>4, <1>5, <2>1, <2>2
  <2>3. CASE a # i /\ b # i
    <3>1. DEFINE Was(k) == IF k < i THEN k ELSE k - 1
    <3>2. Was(a) \in DOMAIN list /\ Was(b) \in DOMAIN list /\ list[Was(a)] = list[Was(b)]
      BY <1>4, <1>5, <2>1, <2>3
    <3>3. Was(a) = Was(b)
      BY <3>2 DEF ListTypeOK
    <3>. QED BY <2>1, <2>3, <3>3
  <2>. QED BY <2>2, <2>3
<1>. QED BY <1>2, <1>4, <1>5 DEF ListTypeOK

LEMMA PublishBehind ==
    ASSUME ListTypeOK, TaskTypeOK, NEW n \in Notices, NEW i \in 1 .. Len(list) + 1,
           Publish(n, i), NEW w \in Workers,
           NEW G \in SUBSET (task[w].todo \cup task[w].page),
           NEW j \in Behind(G, list'), list'[j] \notin excused'
    PROVE  \E k \in Behind(G, list) :
              /\ k <= j /\ list'[j] = list[k]
              /\ \A h \in DOMAIN list :
                    h < k => \E g \in DOMAIN list' : g < j /\ list'[g] = list[h]
<1>1. /\ Len(list) \in Nat /\ DOMAIN list = 1 .. Len(list) /\ i \in Nat
      /\ DOMAIN list' \in SUBSET Nat
  <2>1. DOMAIN list' = 1 .. Len(list')
    BY PublishPlaces DEF ListTypeOK
  <2>. QED BY <2>1, ListParts
<1>2. PICK h \in DOMAIN list' : h < j /\ list'[h] \in G
  BY DEF Behind
<1>3. j \in DOMAIN list' /\ j \in Nat /\ h \in Nat
  BY <1>1 DEF Behind
<1>4. /\ i \in DOMAIN list' /\ list'[i] = n
      /\ \A k \in DOMAIN list' : k < i => k \in DOMAIN list /\ list'[k] = list[k]
      /\ \A k \in DOMAIN list' : i < k => k - 1 \in DOMAIN list /\ list'[k] = list[k - 1]
      /\ \A k \in DOMAIN list : k < i => k \in DOMAIN list' /\ list'[k] = list[k]
      /\ \A k \in DOMAIN list : i <= k => k + 1 \in DOMAIN list' /\ list'[k + 1] = list[k]
  BY PublishPlaces
<1>5. j # i
  <2>1. SUFFICES ASSUME j = i PROVE FALSE
    OBVIOUS
  <2>2. h \in 1 .. i - 1 /\ list[h] \in G
    BY <1>1, <1>2, <1>3, <1>4, <2>1
  <2>3. Precedes(list[h], n)
    BY <2>2 DEF Precedes
  <2>. QED BY <1>4, <2>1, <2>2, <2>3 DEF Publish
<1>6. h # i
  <2>1. SUFFICES ASSUME h = i PROVE FALSE
    OBVIOUS
  <2>2. j - 1 \in i .. Len(list) /\ list'[j] = list[j - 1]
    BY <1>1, <1>2, <1>3, <1>4, <2>1
  <2>3. Precedes(n, list[j - 1])
    BY <1>2, <1>4, <2>1 DEF Precedes
  <2>. QED BY <2>2, <2>3 DEF Publish
<1>. DEFINE k == IF j < i THEN j ELSE j - 1
            l == IF h < i THEN h ELSE h - 1
<1>7. k \in DOMAIN list /\ l \in DOMAIN list /\ l < k /\ k <= j /\ list'[j] = list[k] /\ list[l] \in G
  BY <1>1, <1>2, <1>3, <1>4, <1>5, <1>6
<1>8. k \in Behind(G, list)
  BY <1>7 DEF Behind
<1>9. ASSUME NEW g \in DOMAIN list, g < k
      PROVE  \E m \in DOMAIN list' : m < j /\ list'[m] = list[g]
  <2>1. CASE g < i
    BY <1>1, <1>3, <1>4, <1>7, <1>9, <2>1
  <2>2. CASE i <= g
    <3>1. g + 1 \in DOMAIN list' /\ list'[g + 1] = list[g] /\ g + 1 < j
      BY <1>1, <1>3, <1>4, <1>5, <1>9, <2>2
    <3>. QED BY <3>1
  <2>. QED BY <1>1, <2>1, <2>2
<1>. HIDE DEF k
<1>. QED BY <1>7, <1>8, <1>9

LEMMA PublishOrder ==
    ASSUME Inv, NEW n \in Notices, NEW i \in 1 .. Len(list) + 1, Publish(n, i)
    PROVE  Order'
<1>1. /\ ListTypeOK /\ Len(list) \in Nat /\ DOMAIN list = 1 .. Len(list) /\ i \in Nat
      /\ \A k \in DOMAIN list : list[k] \in Notices
      /\ \A k \in DOMAIN list : list[k] # n
      /\ DOMAIN list' \in SUBSET Nat /\ Notices \in SUBSET Nat
  <2>1. ListTypeOK
    BY TypeParts DEF Inv
  <2>2. DOMAIN list' = 1 .. Len(list')
    BY <2>1, PublishPlaces DEF ListTypeOK
  <2>3. \A k \in DOMAIN list : list[k] # n
    BY <2>1, ListParts DEF Publish
  <2>. QED BY <2>1, <2>2, <2>3, ListParts, PortalAssumption DEF Notices
<1>2. /\ i \in DOMAIN list' /\ list'[i] = n
      /\ \A k \in DOMAIN list' : k < i => k \in DOMAIN list /\ list'[k] = list[k]
      /\ \A k \in DOMAIN list' : i < k => k - 1 \in DOMAIN list /\ list'[k] = list[k - 1]
  BY <1>1, PublishPlaces
<1>3. stored' = stored /\ excused \in SUBSET excused' /\ Unsettled' \in SUBSET Unsettled
  BY DEF Publish, noticeVars, Unsettled
<1>4. SUFFICES ASSUME NEW a \in DOMAIN list', NEW b \in DOMAIN list', a < b,
                      list'[b] \in Unsettled'
               PROVE  stored[list'[a]] = "none" /\ list'[b] < list'[a]
  BY <1>3 DEF Order
<1>5. a \in Nat /\ b \in Nat /\ list'[b] \notin excused' /\ stored[list'[b]] = "none"
  BY <1>1, <1>3, <1>4 DEF Unsettled
<1>6. CASE b = i
  <2>0. a \in 1 .. i - 1 /\ a \in DOMAIN list /\ list'[a] = list[a]
    BY <1>1, <1>2, <1>4, <1>5, <1>6
  <2>1. /\ a \in 1 .. i - 1 /\ list'[a] = list[a] /\ list[a] # n
        /\ list[a] \in Nat /\ n \in Nat
    BY <1>1, <2>0
  <2>2. ~Precedes(list[a], n)
    BY <1>2, <1>5, <1>6, <2>1 DEF Publish
  <2>. QED BY <1>2, <1>6, <2>1, <2>2 DEF Precedes
<1>7. CASE a = i
  <2>0. i < b /\ b - 1 \in DOMAIN list /\ list'[b] = list[b - 1]
    BY <1>1, <1>2, <1>4, <1>5, <1>7
  <2>1. /\ b - 1 \in i .. Len(list) /\ list'[b] = list[b - 1]
        /\ list[b - 1] # n /\ list[b - 1] \in Nat /\ n \in Nat
    <3>1. list[b - 1] # n /\ list[b - 1] \in Notices
      BY <1>1, <2>0
    <3>2. b - 1 \in i .. Len(list)
      BY <1>1, <1>5, <2>0
    <3>. QED BY <1>1, <2>0, <3>1, <3>2
  <2>2. ~Precedes(n, list[b - 1])
    BY <1>5, <2>1 DEF Publish
  <2>. QED BY <1>2, <1>7, <2>1, <2>2 DEF Precedes
<1>8. CASE a # i /\ b # i
  <2>. DEFINE Was(k) == IF k < i THEN k ELSE k - 1
  <2>1. /\ Was(a) \in DOMAIN list /\ Was(b) \in DOMAIN list /\ Was(a) < Was(b)
        /\ list'[a] = list[Was(a)] /\ list'[b] = list[Was(b)]
    BY <1>1, <1>2, <1>4, <1>5, <1>8
  <2>. HIDE DEF Was
  <2>. QED BY <1>3, <1>4, <2>1 DEF Inv, Order
<1>. QED BY <1>6, <1>7, <1>8

LEMMA PublishStep ==
    ASSUME Inv, NEW n \in Notices, NEW i \in 1 .. Len(list) + 1, Publish(n, i)
    PROVE  Inv'
<1>1. /\ ListTypeOK /\ NoticeTypeOK /\ PollTypeOK /\ PastTypeOK /\ TaskTypeOK
      /\ UNCHANGED <<noticeVars, pollVars, task>>
  BY TypeParts DEF Inv, Publish
<1>2. PastTypeOK'
  <2>1. faults' \in 0 .. MaxFaults
    BY <1>1, FaultType DEF Publish
  <2>2. excused' \in SUBSET Notices
    BY <1>1, ListParts DEF Publish, PastTypeOK
  <2>. QED BY <2>1, <2>2 DEF PastTypeOK
<1>3. ListTypeOK' /\ Order'
  BY <1>1, PublishPlaces, PublishOrder
<1>4. OneFate' /\ TaskTypeOK'
  BY <1>1 DEF Inv, OneFate, TaskTypeOK, noticeVars
<1>5. ASSUME NEW w \in Workers PROVE TaskOK(task[w], list', Unsettled')
  <2>. DEFINE t == task[w]
  <2>1. /\ TaskOK(t, list, Unsettled) /\ Unsettled' \in SUBSET Unsettled
        /\ \A m \in Unsettled' : m \notin excused'
    BY <1>1 DEF Inv, ScanInv, Unsettled, noticeVars, Publish
  <2>2. \A G \in SUBSET (t.todo \cup t.page) : \A j \in Behind(G, list') :
           list'[j] \in Unsettled' =>
              \E k \in Behind(G, list) :
                 /\ k <= j /\ list'[j] = list[k]
                 /\ \A h \in DOMAIN list :
                       h < k => \E g \in DOMAIN list' : g < j /\ list'[g] = list[h]
    BY <1>1, <2>1, PublishBehind
  <2>3. /\ t.shift \in Nat /\ PageSize \in Nat
        /\ \A G : Behind(G, list) \in SUBSET Nat /\ Behind(G, list') \in SUBSET Nat
    <3>1. DOMAIN list \in SUBSET Nat /\ DOMAIN list' \in SUBSET Nat
      BY <1>1, <1>3 DEF ListTypeOK
    <3>. QED BY <1>1, <3>1, TaskParts, PortalAssumption DEF Behind
  <2>. HIDE DEF t
  <2>4. ASSUME t.phase = "archiving", NEW j \in Behind(t.todo, list'), list'[j] \in Unsettled'
        PROVE  FALSE
    BY <2>1, <2>2, <2>4 DEF TaskOK
  <2>5. ASSUME t.phase = "listing", NEW j \in Behind(t.todo, list'), list'[j] \in Unsettled',
               list'[j] \notin t.todo
        PROVE  t.shift < j
    <3>1. PICK k \in Behind(t.todo, list) : k <= j /\ list'[j] = list[k]
      BY <2>2, <2>5
    <3>2. t.shift < k
      BY <2>1, <2>5, <3>1 DEF TaskOK
    <3>. QED BY <2>3, <3>1, <3>2
  <2>6. ASSUME t.phase = "checking", NEW j \in Behind(t.todo \cup t.page, list'),
               list'[j] \in Unsettled', list'[j] \notin t.todo \cup t.page
        PROVE  /\ t.shift + PageSize < j /\ ~t.last
               /\ \A m \in t.page : \E h \in DOMAIN list' : h < j /\ list'[h] = m
    <3>1. PICK k \in Behind(t.todo \cup t.page, list) :
             /\ k <= j /\ list'[j] = list[k]
             /\ \A h \in DOMAIN list :
                   h < k => \E g \in DOMAIN list' : g < j /\ list'[g] = list[h]
      BY <2>2, <2>6
    <3>2. /\ t.shift + PageSize < k /\ ~t.last
          /\ \A m \in t.page : \E h \in DOMAIN list : h < k /\ list[h] = m
      BY <2>1, <2>6, <3>1 DEF TaskOK
    <3>3. t.shift + PageSize < j
      BY <2>3, <3>1, <3>2
    <3>. QED BY <3>1, <3>2, <3>3
  <2>7. ASSUME t.phase = "planning", NEW j \in Behind(t.todo, list'), list'[j] \in Unsettled'
        PROVE  list'[j] \in t.todo
    BY <2>1, <2>2, <2>7 DEF TaskOK
  <2>8. TaskOK(t, list', Unsettled')
    BY <2>1, <2>4, <2>5, <2>6, <2>7 DEF TaskOK
  <2>. QED BY <2>8 DEF t
<1>6. ScanInv'
  BY <1>1, <1>5 DEF ScanInv
<1>. QED BY <1>1, <1>2, <1>3, <1>4, <1>6, NoticeUnchanged, PollUnchanged, TypeParts DEF Inv

-----------------------------------------------------------------------------
(* The list without the notice at place i.                                 *)
LEMMA WithdrawPlaces ==
    ASSUME ListTypeOK, NEW i \in DOMAIN list, Withdraw(i)
    PROVE  /\ ListTypeOK' /\ DOMAIN list' \in SUBSET Nat
           /\ \A k \in DOMAIN list' : k < i => k \in DOMAIN list /\ list'[k] = list[k]
           /\ \A k \in DOMAIN list' : i <= k => k + 1 \in DOMAIN list /\ list'[k] = list[k + 1]
           /\ \A k \in DOMAIN list : k < i => k \in DOMAIN list'
<1>1. /\ Len(list) \in Nat /\ DOMAIN list = 1 .. Len(list) /\ list \in Seq(Notices)
      /\ list' = RemoveAt(list, i) /\ i \in 1 .. Len(list)
  BY ListParts DEF ListTypeOK, Withdraw
<1>2. /\ list' \in Seq(Notices) /\ Len(list') = Len(list) - 1
      /\ \A k \in 1 .. Len(list) - 1 : list'[k] = IF k < i THEN list[k] ELSE list[k + 1]
  BY <1>1, RemoveFacts
<1>3. DOMAIN list' = 1 .. Len(list) - 1
  BY <1>2
<1>4. /\ DOMAIN list' \in SUBSET Nat
      /\ \A k \in DOMAIN list' : k < i => k \in DOMAIN list /\ list'[k] = list[k]
      /\ \A k \in DOMAIN list' : i <= k => k + 1 \in DOMAIN list /\ list'[k] = list[k + 1]
      /\ \A k \in DOMAIN list : k < i => k \in DOMAIN list'
  BY <1>1, <1>2, <1>3
<1>5. ASSUME NEW a \in DOMAIN list', NEW b \in DOMAIN list', list'[a] = list'[b] PROVE a = b
  <2>. DEFINE Was(k) == IF k < i THEN k ELSE k + 1
  <2>1. a \in Nat /\ b \in Nat /\ i \in Nat
    BY <1>1, <1>4
  <2>2. Was(a) \in DOMAIN list /\ Was(b) \in DOMAIN list /\ list[Was(a)] = list[Was(b)]
    BY <1>4, <1>5, <2>1
  <2>3. Was(a) = Was(b)
    BY <2>2 DEF ListTypeOK
  <2>. QED BY <2>1, <2>3
<1>. QED BY <1>2, <1>4, <1>5 DEF ListTypeOK

(* What is behind G was behind G before.                                   *)
LEMMA WithdrawBehind ==
    ASSUME ListTypeOK, NEW i \in DOMAIN list, Withdraw(i), NEW G, NEW j \in Behind(G, list')
    PROVE  /\ j \in Nat
           /\ j < i => j \in Behind(G, list) /\ list'[j] = list[j]
           /\ i <= j => j + 1 \in Behind(G, list) /\ list'[j] = list[j + 1]
<1>1. /\ DOMAIN list' \in SUBSET Nat /\ i \in Nat
      /\ \A k \in DOMAIN list' : k < i => k \in DOMAIN list /\ list'[k] = list[k]
      /\ \A k \in DOMAIN list' : i <= k => k + 1 \in DOMAIN list /\ list'[k] = list[k + 1]
  BY WithdrawPlaces, ListParts
<1>2. PICK h \in DOMAIN list' : h < j /\ list'[h] \in G
  BY DEF Behind
<1>3. j \in DOMAIN list' /\ j \in Nat /\ h \in Nat
  BY <1>1 DEF Behind
<1>4. ASSUME j < i PROVE j \in Behind(G, list) /\ list'[j] = list[j]
  <2>1. j \in DOMAIN list /\ h \in DOMAIN list /\ list[h] \in G /\ list'[j] = list[j]
    BY <1>1, <1>2, <1>3, <1>4
  <2>. QED BY <1>2, <2>1 DEF Behind
<1>5. ASSUME i <= j PROVE j + 1 \in Behind(G, list) /\ list'[j] = list[j + 1]
  <2>1. j + 1 \in DOMAIN list /\ list'[j] = list[j + 1]
    BY <1>1, <1>3, <1>5
  <2>. DEFINE l == IF h < i THEN h ELSE h + 1
  <2>2. l \in DOMAIN list /\ list[l] \in G /\ l < j + 1
    BY <1>1, <1>2, <1>3, <1>5
  <2>. QED BY <2>1, <2>2 DEF Behind
<1>. QED BY <1>3, <1>4, <1>5

LEMMA WithdrawStep == ASSUME Inv, NEW i \in DOMAIN list, Withdraw(i) PROVE Inv'
<1>1. /\ ListTypeOK /\ NoticeTypeOK /\ PollTypeOK /\ PastTypeOK /\ TaskTypeOK
      /\ UNCHANGED <<noticeVars, pollVars, task>>
      /\ stored' = stored /\ excused \in SUBSET excused' /\ Unsettled' \in SUBSET Unsettled
  BY TypeParts DEF Inv, Withdraw, noticeVars, Unsettled
<1>2. /\ ListTypeOK' /\ DOMAIN list' \in SUBSET Nat /\ i \in Nat
      /\ \A k \in DOMAIN list' : k < i => k \in DOMAIN list /\ list'[k] = list[k]
      /\ \A k \in DOMAIN list' : i <= k => k + 1 \in DOMAIN list /\ list'[k] = list[k + 1]
      /\ \A k \in DOMAIN list : k < i => k \in DOMAIN list'
      /\ DOMAIN list = 1 .. Len(list) /\ Len(list) \in Nat
      /\ \A k \in DOMAIN list : list[k] \in Notices
  BY <1>1, WithdrawPlaces, ListParts
<1>3. PastTypeOK'
  <2>1. faults' \in 0 .. MaxFaults
    BY <1>1, FaultType DEF Withdraw
  <2>2. \A k \in i + 1 .. Len(list) : list[k] \in Notices
    BY <1>2
  <2>3. excused' \in SUBSET Notices
    BY <1>1, <2>2 DEF Withdraw, PastTypeOK
  <2>. QED BY <2>1, <2>3 DEF PastTypeOK
<1>4. OneFate' /\ TaskTypeOK'
  BY <1>1 DEF Inv, OneFate, TaskTypeOK, noticeVars
<1>5. Order'
  <2>1. SUFFICES ASSUME NEW a \in DOMAIN list', NEW b \in DOMAIN list', a < b,
                        list'[b] \in Unsettled'
                 PROVE  stored[list'[a]] = "none" /\ list'[b] < list'[a]
    BY <1>1 DEF Order
  <2>. DEFINE Was(k) == IF k < i THEN k ELSE k + 1
  <2>2. /\ Was(a) \in DOMAIN list /\ Was(b) \in DOMAIN list /\ Was(a) < Was(b)
        /\ list'[a] = list[Was(a)] /\ list'[b] = list[Was(b)]
    BY <1>2, <2>1
  <2>. HIDE DEF Was
  <2>. QED BY <1>1, <2>1, <2>2 DEF Inv, Order
<1>6. ASSUME NEW w \in Workers PROVE TaskOK(task[w], list', Unsettled')
  <2>. DEFINE t == task[w]
  <2>1. TaskOK(t, list, Unsettled)
    BY DEF Inv, ScanInv
  <2>2. \A G : \A j \in Behind(G, list') :
           /\ j \in Nat
           /\ j < i => j \in Behind(G, list) /\ list'[j] = list[j]
           /\ i <= j => j + 1 \in Behind(G, list) /\ list'[j] = list[j + 1]
    BY <1>1, WithdrawBehind
  <2>3. ASSUME Scanning(w), NEW G, NEW j \in Behind(G, list'), list'[j] \in Unsettled',
               list'[j] \notin t.todo \cup t.page
        PROVE  j < i
    <3>1. SUFFICES ASSUME i <= j PROVE FALSE
      BY <1>2, <2>2
    <3>2. j \in Nat /\ j + 1 \in DOMAIN list /\ list'[j] = list[j + 1]
      BY <2>2, <3>1 DEF Behind
    <3>3. j + 1 \in i + 1 .. Len(list)
      BY <1>2, <3>1, <3>2
    <3>4. list[j + 1] \in excused'
      BY <2>3, <3>2, <3>3 DEF Withdraw
    <3>. QED BY <2>3, <3>2, <3>4 DEF Unsettled
  <2>4. Scanning(w) <=> t.phase \in {"listing", "checking"}
    BY DEF Scanning
  <2>5. t.todo \in SUBSET (t.todo \cup t.page)
    OBVIOUS
  <2>. HIDE DEF t
  <2>6. ASSUME t.phase = "archiving", NEW j \in Behind(t.todo, list'), list'[j] \in Unsettled'
        PROVE  FALSE
    BY <1>1, <1>2, <2>1, <2>2, <2>6 DEF TaskOK
  <2>7. ASSUME t.phase = "planning", NEW j \in Behind(t.todo, list'), list'[j] \in Unsettled'
        PROVE  list'[j] \in t.todo
    BY <1>1, <1>2, <2>1, <2>2, <2>7 DEF TaskOK
  <2>8. ASSUME t.phase = "checking", NEW j \in Behind(t.todo \cup t.page, list'),
               list'[j] \in Unsettled', list'[j] \notin t.todo \cup t.page
        PROVE  /\ t.shift + PageSize < j /\ ~t.last
               /\ \A m \in t.page : \E h \in DOMAIN list' : h < j /\ list'[h] = m
    <3>1. j < i /\ j \in Nat /\ j \in Behind(t.todo \cup t.page, list) /\ list'[j] = list[j]
      BY <2>2, <2>3, <2>4, <2>8
    <3>2. /\ t.shift + PageSize < j /\ ~t.last
          /\ \A m \in t.page : \E h \in DOMAIN list : h < j /\ list[h] = m
      BY <1>1, <2>1, <2>8, <3>1 DEF TaskOK
    <3>3. \A h \in DOMAIN list : h < j => h \in DOMAIN list' /\ list'[h] = list[h]
      BY <1>2, <3>1
    <3>. QED BY <3>2, <3>3
  <2>9. ASSUME t.phase = "listing", NEW j \in Behind(t.todo, list'), list'[j] \in Unsettled',
               list'[j] \notin t.todo
        PROVE  t.shift < j
    <3>0. t.page = {}
      BY <2>1, <2>9 DEF TaskOK
    <3>1. j < i /\ j \in Nat /\ j \in Behind(t.todo, list) /\ list'[j] = list[j]
      BY <2>2, <2>3, <2>4, <2>9, <3>0
    <3>. QED BY <1>1, <2>1, <2>9, <3>1 DEF TaskOK
  <2>10. t.phase = "listing" => t.page = {}
    BY <2>1 DEF TaskOK
  <2>11. TaskOK(t, list', Unsettled')
    BY <2>6, <2>7, <2>8, <2>9, <2>10 DEF TaskOK
  <2>. QED BY <2>11 DEF t
<1>7. ScanInv'
  BY <1>1, <1>6 DEF ScanInv
<1>. QED BY <1>1, <1>2, <1>3, <1>4, <1>5, <1>7, NoticeUnchanged, PollUnchanged, TypeParts DEF Inv

-----------------------------------------------------------------------------
LEMMA InitInv == Init => Inv
<1>1. SUFFICES ASSUME Init PROVE Inv
  OBVIOUS
<1>2. NoTask \in Task /\ NoTask.phase = "idle"
  BY CycleType DEF NoTask, Phases
<1>3. FirstPoll \in Poll
  BY DEF FirstPoll, PollState, Poll, Modes
<1>4. bodiless \in SUBSET Notices /\ Notices \in SUBSET Nat
  <2>1. Legacy \in SUBSET Notices
    BY PortalAssumption DEF Notices
  <2>2. bodiless \in SUBSET Notices
    BY <1>1, <2>1 DEF Init
  <2>. QED BY <2>2, PortalAssumption DEF Notices
<1>5. NoticeTypeOK
  BY <1>1, <1>4, PortalAssumption DEF Init, NoticeTypeOK
<1>6. PollTypeOK /\ PastTypeOK /\ TaskTypeOK
  BY <1>1, <1>2, <1>3, PortalAssumption DEF Init, PollTypeOK, PastTypeOK, TaskTypeOK, Modes
<1>7. /\ list \in Seq(Notices) /\ DOMAIN list = 1 .. First
      /\ \A k \in 1 .. First : list[k] = First + 1 - k
  BY <1>1, PortalAssumption DEF Init, Notices
<1>8. ListTypeOK
  BY <1>7, PortalAssumption DEF ListTypeOK
<1>9. OneFate /\ ScanInv
  BY <1>1, <1>2 DEF Init, OneFate, ScanInv, TaskOK
<1>10. Order
  <2>1. SUFFICES ASSUME NEW i \in 1 .. First, NEW j \in 1 .. First, i < j,
                        list[j] \in Unsettled
                 PROVE  stored[list[i]] = "none" /\ list[j] < list[i]
    BY <1>7 DEF Order
  <2>2. /\ list[i] = First + 1 - i /\ list[j] = First + 1 - j /\ list[j] < list[i]
        /\ list[i] \in Notices /\ list[j] \in 1 .. list[i]
    BY <1>7, <2>1, PortalAssumption DEF Notices
  <2>3. list[j] \notin bodiless
    BY <1>1, <2>1 DEF Init, Unsettled
  <2>4. list[i] \notin bodiless
    <3>1. SUFFICES ASSUME list[i] \in Legacy, bodiless = Legacy PROVE FALSE
      BY <1>1 DEF Init
    <3>2. 1 .. list[i] \subseteq Legacy
      BY <3>1, PortalAssumption
    <3>. QED BY <2>2, <2>3, <3>1, <3>2
  <2>. QED BY <1>1, <2>2, <2>4 DEF Init
<1>. QED BY <1>5, <1>6, <1>8, <1>9, <1>10
         DEF Inv, TypeOK, ListTypeOK, NoticeTypeOK, PollTypeOK, PastTypeOK, TaskTypeOK

(* A step of the worker w that stores nothing, and goes on with t.         *)
LEMMA QuietStep ==
    ASSUME Inv, NEW w \in Workers, NEW t \in Task, SetTask(w, t),
           UNCHANGED <<list, stored, campaigns>>, excused \in SUBSET excused',
           NoticeTypeOK', PollTypeOK', PastTypeOK', TaskOK(t, list, Unsettled')
    PROVE  Inv'
<1>1. ListTypeOK' /\ Unsettled' \in SUBSET Unsettled /\ OneFate' /\ Order'
  BY NothingStored
<1>2. TaskTypeOK' /\ ScanInv'
  BY <1>1, TaskMoves
<1>. QED BY <1>1, <1>2, TypeParts DEF Inv

(* The same, when what is unsettled stays so.                              *)
LEMMA ScanStep ==
    ASSUME Inv, NEW w \in Workers, NEW t \in Task, SetTask(w, t),
           UNCHANGED <<list, stored, campaigns, excused>>,
           NoticeTypeOK', PollTypeOK', PastTypeOK', TaskOK(t, list, Unsettled)
    PROVE  Inv'
<1>1. Unsettled' = Unsettled
  BY DEF Unsettled
<1>. QED BY <1>1, QuietStep

(* A step that touches neither the notices nor a cycle.                    *)
LEMMA PollStep ==
    ASSUME Inv, PollTypeOK', UNCHANGED <<list, noticeVars, task, excused>>,
           Fault \/ faults' = faults
    PROVE  Inv'
<1>1. NoticeTypeOK /\ PastTypeOK
  BY TypeParts DEF Inv
<1>2. PastTypeOK' /\ NoticeTypeOK'
  BY <1>1, PastUnchanged, NoticeUnchanged
<1>3. ListTypeOK' /\ Unsettled' \in SUBSET Unsettled /\ OneFate' /\ Order'
  BY NothingStored DEF noticeVars
<1>4. TaskTypeOK' /\ ScanInv'
  BY <1>3, TasksStay
<1>. QED BY <1>2, <1>3, <1>4, TypeParts DEF Inv

LEMMA EndStep ==
    ASSUME Inv, NEW w \in Workers, NEW outcome \in {"unchanged", "new_notices", "error"},
           End(w, outcome), UNCHANGED <<list, noticeVars, excused>>, PollTypeOK',
           Fault \/ faults' = faults
    PROVE  Inv'
<1>1. NoticeTypeOK /\ PastTypeOK
  BY TypeParts DEF Inv
<1>2. PastTypeOK' /\ NoticeTypeOK'
  BY <1>1, PastUnchanged, NoticeUnchanged
<1>3. /\ Cycle("ended", {}, outcome) \in Task
      /\ TaskOK(Cycle("ended", {}, outcome), list, Unsettled)
  BY CycleType DEF Phases, TaskOK
<1>. QED BY <1>2, <1>3, ScanStep DEF End, noticeVars

LEMMA StartStep == ASSUME Inv, NEW w \in Workers, StartCycle(w) PROVE Inv'
<1>1. NoticeTypeOK /\ PollTypeOK /\ PastTypeOK
  BY TypeParts DEF Inv
<1>2. AtPoll(poll[w]) \in Poll
  BY <1>1 DEF AtPoll, PollTypeOK, PollState, Poll, Modes
<1>3. PollTypeOK' /\ NoticeTypeOK' /\ PastTypeOK'
  BY <1>1, <1>2, NoticeUnchanged, PastUnchanged DEF StartCycle, PollTypeOK
<1>4. /\ Cycle("history", {}, "unchanged") \in Task
      /\ TaskOK(Cycle("history", {}, "unchanged"), list, Unsettled)
  BY CycleType DEF Phases, TaskOK
<1>. QED BY <1>3, <1>4, ScanStep DEF StartCycle, noticeVars

LEMMA CycleFailsStep == ASSUME Inv, NEW w \in Workers, CycleFails(w) PROVE Inv'
<1>1. PollTypeOK'
  BY TypeParts, PollUnchanged DEF Inv, CycleFails
<1>. QED BY <1>1, EndStep DEF CycleFails

LEMMA LookForHistoryStep == ASSUME Inv, NEW w \in Workers, LookForHistory(w) PROVE Inv'
<1>1. NoticeTypeOK /\ PollTypeOK /\ PastTypeOK
  BY TypeParts DEF Inv
<1>2. NoticeTypeOK' /\ PollTypeOK' /\ PastTypeOK'
  BY <1>1, NoticeUnchanged, PollUnchanged, PastUnchanged DEF LookForHistory
<1>3. PICK phase \in {"baseline", "recent"} : SetTask(w, Cycle(phase, {}, "unchanged"))
  BY DEF LookForHistory
<1>4. /\ Cycle(phase, {}, "unchanged") \in Task
      /\ TaskOK(Cycle(phase, {}, "unchanged"), list, Unsettled)
  BY CycleType DEF Phases, TaskOK
<1>. QED BY <1>2, <1>3, <1>4, ScanStep DEF LookForHistory, noticeVars

LEMMA HistoryFetchedStep ==
    ASSUME Inv, NEW w \in Workers, NEW unreadable \in SUBSET Notices,
           HistoryFetched(w, unreadable)
    PROVE  Inv'
<1>1. ListTypeOK /\ NoticeTypeOK /\ PollTypeOK /\ PastTypeOK
  BY TypeParts DEF Inv
<1>2. NoticeTypeOK' /\ PollTypeOK' /\ PastTypeOK'
  <2>1. faults' \in 0 .. MaxFaults
    BY <1>1, FaultType DEF HistoryFetched
  <2>2. excused' \in SUBSET Notices
    BY <1>1, ListParts DEF HistoryFetched, PastTypeOK
  <2>. QED BY <1>1, <2>1, <2>2, NoticeUnchanged, PollUnchanged DEF HistoryFetched, PastTypeOK
<1>. DEFINE todo == Recent \ unreadable
<1>3. todo \in SUBSET Notices
  BY <1>1, ListParts DEF Recent, Between
<1>4. \A j \in DOMAIN list : list[j] \notin Unsettled'
  BY <1>1, ListParts DEF HistoryFetched, Unsettled
<1>5. SetTask(w, Cycle("archiving", todo, "unchanged"))
  BY DEF HistoryFetched
<1>. HIDE DEF todo
<1>6. /\ Cycle("archiving", todo, "unchanged") \in Task
      /\ TaskOK(Cycle("archiving", todo, "unchanged"), list, Unsettled')
  BY <1>3, <1>4, CycleType DEF Phases, TaskOK, Behind
<1>7. UNCHANGED <<list, stored, campaigns>> /\ excused \in SUBSET excused'
  BY DEF HistoryFetched, noticeVars
<1>. QED BY <1>2, <1>5, <1>6, <1>7, QuietStep

(* Nothing unsettled is listed behind the first history.                   *)
LEMMA ArchiveHistoryStep == ASSUME Inv, NEW w \in Workers, ArchiveHistory(w) PROVE Inv'
<1>1. /\ NoticeTypeOK /\ PollTypeOK /\ PastTypeOK /\ TaskTypeOK
      /\ task[w].todo \in SUBSET Notices
      /\ \A j \in Behind(task[w].todo, list) : list[j] \notin Unsettled
  BY TypeParts, TaskParts DEF Inv, ScanInv, TaskOK, ArchiveHistory
<1>2. PollTypeOK' /\ PastTypeOK' /\ list' = list /\ excused' = excused
  BY <1>1, PollUnchanged, PastUnchanged DEF ArchiveHistory
<1>3. ASSUME NEW n \in Newest(task[w].todo), Archive(n),
             SetTask(w, Cycle("archiving", task[w].todo \ {n}, "unchanged"))
      PROVE  Inv'
  <2>1. n \in Notices /\ n \in task[w].todo
    BY <1>1 DEF Newest
  <2>2. /\ Behind({n}, list) \in SUBSET Behind(task[w].todo, list)
        /\ Behind(task[w].todo \ {n}, list) \in SUBSET Behind(task[w].todo, list)
    BY <2>1 DEF Behind
  <2>3. /\ ListTypeOK' /\ NoticeTypeOK' /\ Unsettled' = Unsettled \ {n}
        /\ OneFate' /\ Order'
    BY <1>1, <1>2, <1>3, <2>1, <2>2, OneStored
  <2>4. /\ Cycle("archiving", task[w].todo \ {n}, "unchanged") \in Task
        /\ TaskOK(Cycle("archiving", task[w].todo \ {n}, "unchanged"), list, Unsettled')
    BY <1>1, <2>2, <2>3, ArchivingOK
  <2>5. TaskTypeOK' /\ ScanInv'
    BY <1>2, <1>3, <2>3, <2>4, TaskMoves
  <2>. QED BY <1>2, <2>3, <2>5, TypeParts DEF Inv
<1>4. ASSUME SetTask(w, Cycle("baseline", {}, "unchanged")), UNCHANGED noticeVars
      PROVE  Inv'
  <2>1. /\ Cycle("baseline", {}, "unchanged") \in Task
        /\ TaskOK(Cycle("baseline", {}, "unchanged"), list, Unsettled)
    BY CycleType DEF Phases, TaskOK
  <2>. QED BY <1>1, <1>2, <1>4, <2>1, NoticeUnchanged, ScanStep DEF noticeVars
<1>. QED BY <1>3, <1>4 DEF ArchiveHistory

LEMMA LookForBaselineStep == ASSUME Inv, NEW w \in Workers, LookForBaseline(w) PROVE Inv'
<1>1. NoticeTypeOK /\ PollTypeOK /\ PastTypeOK
  BY TypeParts DEF Inv
<1>2. NoticeTypeOK' /\ PollTypeOK' /\ PastTypeOK'
  BY <1>1, NoticeUnchanged, PollUnchanged, PastUnchanged DEF LookForBaseline
<1>3. /\ Cycle("initializing", {}, "unchanged") \in Task
      /\ TaskOK(Cycle("initializing", {}, "unchanged"), list, Unsettled)
  BY CycleType DEF Phases, TaskOK
<1>4. /\ Scan("listing", 0, {}, FALSE, {}) \in Task
      /\ TaskOK(Scan("listing", 0, {}, FALSE, {}), list, Unsettled)
  BY ListingOK DEF Behind
<1>5. PICK t \in {Cycle("initializing", {}, "unchanged"), Scan("listing", 0, {}, FALSE, {})} :
         SetTask(w, t)
  BY DEF LookForBaseline
<1>. QED BY <1>2, <1>3, <1>4, <1>5, ScanStep DEF LookForBaseline, noticeVars

LEMMA SetBaselineStep == ASSUME Inv, NEW w \in Workers, SetBaseline(w) PROVE Inv'
<1>1. PollTypeOK'
  BY TypeParts DEF Inv, PollTypeOK, SetBaseline, Modes
<1>. QED BY <1>1, EndStep DEF SetBaseline

(* What is unsettled behind the page, or behind what was gathered before,  *)
(* and not on it, is listed after it.                                      *)
LEMMA ListPageStep == ASSUME Inv, NEW w \in Workers, ListPage(w) PROVE Inv'
<1>1. /\ ListTypeOK /\ NoticeTypeOK /\ PollTypeOK /\ PastTypeOK
      /\ task[w].shift \in Nat /\ task[w].todo \in SUBSET Notices
      /\ task[w].phase = "listing" /\ PageSize \in Nat
      /\ Len(list) \in Nat /\ DOMAIN list = 1 .. Len(list)
      /\ \A j \in DOMAIN list : list[j] \in Notices
  BY TypeParts, TaskParts, ListParts, PortalAssumption DEF Inv, ListPage
<1>2. NoticeTypeOK' /\ PollTypeOK' /\ PastTypeOK'
  BY <1>1, NoticeUnchanged, PollUnchanged, PastUnchanged DEF ListPage
<1>. DEFINE page == Page(task[w].shift)
            last == LastPage(task[w].shift)
            t == Scan("checking", task[w].shift, page, last, task[w].todo)
<1>3. /\ page = {list[i] : i \in {j \in DOMAIN list :
                                    task[w].shift + 1 <= j /\ j <= task[w].shift + PageSize}}
      /\ page \in SUBSET Notices
      /\ last = (Len(list) <= task[w].shift + PageSize)
      /\ last \in BOOLEAN
  BY <1>1 DEF Page, LastPage, Between
<1>. HIDE DEF page, last
<1>4. /\ t \in Task /\ t.phase = "checking" /\ t.shift = task[w].shift /\ t.page = page
      /\ t.last = last /\ t.todo = task[w].todo
  <2>1. page \in SUBSET Notices /\ last \in BOOLEAN /\ "checking" \in Phases
    BY <1>3 DEF Phases
  <2>2. task[w].shift \in Nat /\ task[w].todo \in SUBSET Notices
    BY <1>1
  <2>. QED BY <2>1, <2>2 DEF Scan, Task
<1>5. SetTask(w, t)
  BY DEF ListPage, page, last
<1>. HIDE DEF t
<1>6. ASSUME NEW j \in Behind(task[w].todo \cup page, list), list[j] \in Unsettled,
             list[j] \notin task[w].todo \cup page
      PROVE  /\ task[w].shift + PageSize < j /\ ~last
             /\ \A m \in page : \E h \in DOMAIN list : h < j /\ list[h] = m
  <2>1. PICK h \in DOMAIN list : h < j /\ list[h] \in task[w].todo \cup page
    BY DEF Behind
  <2>2. j \in 1 .. Len(list) /\ j \in DOMAIN list /\ j \in Nat /\ h \in Nat
    BY <1>1, <2>1 DEF Behind
  <2>3. task[w].shift < j
    <3>1. CASE list[h] \in task[w].todo
      <4>1. j \in Behind(task[w].todo, list)
        BY <2>1, <2>2, <3>1 DEF Behind
      <4>. QED BY <1>1, <1>6, <4>1 DEF Inv, ScanInv, TaskOK
    <3>2. CASE list[h] \in page
      <4>1. PICK i \in DOMAIN list : task[w].shift + 1 <= i /\ list[i] = list[h]
        BY <1>3, <3>2
      <4>2. i = h
        BY <1>1, <2>1, <4>1 DEF ListTypeOK
      <4>. QED BY <1>1, <2>1, <2>2, <4>1, <4>2
    <3>. QED BY <2>1, <3>1, <3>2
  <2>4. task[w].shift + PageSize < j
    <3>1. ~(task[w].shift + 1 <= j /\ j <= task[w].shift + PageSize)
      <4>1. \A i \in DOMAIN list :
               task[w].shift + 1 <= i /\ i <= task[w].shift + PageSize => list[i] \in page
        BY <1>3
      <4>. QED BY <1>6, <2>2, <4>1
    <3>. QED BY <1>1, <2>2, <2>3, <3>1
  <2>5. ~last
    BY <1>1, <2>2, <2>4 DEF last, LastPage
  <2>6. ASSUME NEW m \in page PROVE \E i \in DOMAIN list : i < j /\ list[i] = m
    <3>1. PICK i \in DOMAIN list : i <= task[w].shift + PageSize /\ list[i] = m
      BY <1>3, <2>6
    <3>2. i < j
      BY <1>1, <2>2, <2>4, <3>1
    <3>. QED BY <3>1, <3>2
  <2>. QED BY <2>4, <2>5, <2>6
<1>7. TaskOK(t, list, Unsettled)
  BY <1>4, <1>6 DEF TaskOK
<1>. QED BY <1>2, <1>4, <1>5, <1>7, ScanStep DEF ListPage, noticeVars

(* After the page what is unsettled was gathered, or is on a later page.   *)
LEMMA PageGathered ==
    ASSUME Inv, NEW w \in Workers, task[w].phase = "checking",
           NEW j \in Behind(Gathered(task[w].todo, task[w].page), list),
           list[j] \in Unsettled, list[j] \notin Gathered(task[w].todo, task[w].page)
    PROVE  /\ task[w].shift + PageSize < j /\ ~task[w].last
           /\ \A m \in task[w].page : \E h \in DOMAIN list : h < j /\ list[h] = m
<1>1. j \in Behind(task[w].todo \cup task[w].page, list)
  BY DEF Behind, Gathered, Unobserved
<1>2. list[j] \notin task[w].todo \cup task[w].page
  BY DEF Gathered, Unobserved, Unsettled
<1>. QED BY <1>1, <1>2 DEF Inv, ScanInv, TaskOK

LEMMA CheckPageStep == ASSUME Inv, NEW w \in Workers, CheckPage(w) PROVE Inv'
<1>1. /\ ListTypeOK /\ NoticeTypeOK /\ PollTypeOK /\ PastTypeOK
      /\ task[w].shift \in Nat /\ task[w].todo \in SUBSET Notices
      /\ task[w].page \in SUBSET Notices /\ task[w].phase = "checking"
  BY TypeParts, TaskParts DEF Inv, CheckPage
<1>2. NoticeTypeOK' /\ PollTypeOK' /\ PastTypeOK'
  BY <1>1, NoticeUnchanged, PollUnchanged, PastUnchanged DEF CheckPage
<1>. DEFINE found == Gathered(task[w].todo, task[w].page)
<1>3. found \in SUBSET Notices
  BY <1>1 DEF Gathered, Unobserved
<1>4. \A j \in Behind(found, list) : list[j] \in Unsettled /\ list[j] \notin found =>
         /\ task[w].shift + PageSize < j /\ ~task[w].last
         /\ \A m \in task[w].page : \E h \in DOMAIN list : h < j /\ list[h] = m
  BY <1>1, PageGathered
<1>5. ASSUME Unobserved(task[w].page) # task[w].page \/ task[w].last,
             SetTask(w, Cycle("planning", found, "unchanged"))
      PROVE  Inv'
  <2>. HIDE DEF found
  <2>1. ASSUME NEW j \in Behind(found, list), list[j] \in Unsettled, list[j] \notin found
        PROVE  FALSE
    <3>1. PICK m \in task[w].page : stored[m] # "none"
      BY <1>4, <1>5, <2>1 DEF Unobserved
    <3>2. PICK h \in DOMAIN list : h < j /\ list[h] = m
      BY <1>4, <2>1
    <3>. QED BY <2>1, <3>1, <3>2 DEF Inv, Order, Behind
  <2>2. /\ Cycle("planning", found, "unchanged") \in Task
        /\ TaskOK(Cycle("planning", found, "unchanged"), list, Unsettled)
    BY <1>3, <2>1, PlanningOK
  <2>. QED BY <1>2, <1>5, <2>2, ScanStep DEF CheckPage, noticeVars
<1>6. ASSUME SetTask(w, Scan("listing", task[w].shift + PageSize, {}, FALSE, found))
      PROVE  Inv'
  <2>. HIDE DEF found
  <2>1. task[w].shift + PageSize \in Nat
    BY <1>1, PortalAssumption
  <2>2. /\ Scan("listing", task[w].shift + PageSize, {}, FALSE, found) \in Task
        /\ TaskOK(Scan("listing", task[w].shift + PageSize, {}, FALSE, found), list, Unsettled)
    BY <1>3, <1>4, <2>1, ListingOK
  <2>. QED BY <1>2, <1>6, <2>2, ScanStep DEF CheckPage, noticeVars
<1>7. ASSUME End(w, "error") PROVE Inv'
  BY <1>2, <1>7, EndStep DEF CheckPage
<1>. QED BY <1>5, <1>6, <1>7 DEF CheckPage

(* The oldest of what was gathered: nothing unsettled is listed behind it. *)
LEMMA OldestFirst ==
    ASSUME Inv, NEW w \in Workers, task[w].phase = "planning",
           NEW n \in Oldest(task[w].todo)
    PROVE  /\ n \in Notices
           /\ \A j \in Behind({n}, list) : list[j] \notin Unsettled
           /\ task[w].todo \ {n} \in SUBSET Notices
           /\ \A j \in Behind(task[w].todo \ {n}, list) :
                 list[j] \in Unsettled \ {n} => list[j] \in task[w].todo \ {n}
<1>1. task[w].todo \in SUBSET Notices /\ Notices \in SUBSET Nat
  BY TypeParts, TaskParts, PortalAssumption DEF Inv, Notices
<1>2. \A j \in Behind(task[w].todo, list) : list[j] \in Unsettled => list[j] \in task[w].todo
  BY DEF Inv, ScanInv, TaskOK
<1>3. n \in task[w].todo /\ \A k \in task[w].todo : n <= k
  BY DEF Oldest
<1>4. ASSUME NEW G \in SUBSET task[w].todo PROVE Behind(G, list) \in SUBSET Behind(task[w].todo, list)
  BY DEF Behind
<1>5. ASSUME NEW j \in Behind({n}, list), list[j] \in Unsettled PROVE FALSE
  <2>1. list[j] \in task[w].todo /\ list[j] \in Nat /\ n \in Nat
    BY <1>1, <1>2, <1>3, <1>4, <1>5
  <2>2. PICK h \in DOMAIN list : h < j /\ list[h] = n
    BY DEF Behind
  <2>3. list[j] < n
    BY <1>5, <2>2 DEF Inv, Order, Behind
  <2>. QED BY <1>3, <2>1, <2>3
<1>6. Behind(task[w].todo \ {n}, list) \in SUBSET Behind(task[w].todo, list)
  BY <1>4
<1>. QED BY <1>1, <1>2, <1>3, <1>5, <1>6

LEMMA PlanNextStep == ASSUME Inv, NEW w \in Workers, PlanNext(w) PROVE Inv'
<1>1. PollTypeOK /\ PastTypeOK
  BY TypeParts DEF Inv
<1>2. PollTypeOK' /\ PastTypeOK' /\ list' = list /\ excused' = excused
  BY <1>1, PollUnchanged, PastUnchanged DEF PlanNext
<1>3. PICK n \in Oldest(task[w].todo) :
         /\ Archive(n) \/ Plan(n)
         /\ SetTask(w, Cycle("planning", task[w].todo \ {n}, "new_notices"))
  BY DEF PlanNext
<1>4. /\ n \in Notices
      /\ \A j \in Behind({n}, list) : list[j] \notin Unsettled
      /\ task[w].todo \ {n} \in SUBSET Notices
      /\ \A j \in Behind(task[w].todo \ {n}, list) :
            list[j] \in Unsettled \ {n} => list[j] \in task[w].todo \ {n}
  BY OldestFirst DEF PlanNext
<1>5. /\ ListTypeOK' /\ NoticeTypeOK' /\ Unsettled' = Unsettled \ {n} /\ OneFate' /\ Order'
  BY <1>2, <1>3, <1>4, OneStored
<1>6. /\ Cycle("planning", task[w].todo \ {n}, "new_notices") \in Task
      /\ TaskOK(Cycle("planning", task[w].todo \ {n}, "new_notices"), list, Unsettled')
  BY <1>4, <1>5, PlanningOK
<1>7. TaskTypeOK' /\ ScanInv'
  BY <1>2, <1>3, <1>5, <1>6, TaskMoves
<1>. QED BY <1>2, <1>5, <1>7, TypeParts DEF Inv

LEMMA SkipNoticeStep ==
    ASSUME Inv, NEW w \in Workers, NEW failure, SkipNotice(w, failure) PROVE Inv'
<1>1. /\ NoticeTypeOK /\ PollTypeOK /\ PastTypeOK
      /\ task[w].outcome \in {"unchanged", "new_notices", "error"}
  BY TypeParts, TaskParts DEF Inv
<1>2. PICK n \in Oldest(task[w].todo) :
         /\ SetTask(w, Cycle("planning", task[w].todo \ {n}, task[w].outcome))
         /\ excused' = excused \cup {n}
         /\ Fault \/ faults' = faults
  BY DEF SkipNotice
<1>3. /\ n \in Notices
      /\ task[w].todo \ {n} \in SUBSET Notices
      /\ \A j \in Behind(task[w].todo \ {n}, list) :
            list[j] \in Unsettled \ {n} => list[j] \in task[w].todo \ {n}
  BY OldestFirst DEF SkipNotice
<1>4. NoticeTypeOK' /\ PollTypeOK' /\ PastTypeOK'
  <2>1. faults' \in 0 .. MaxFaults
    BY <1>1, <1>2, FaultType
  <2>. QED BY <1>1, <1>2, <1>3, <2>1, NoticeUnchanged, PollUnchanged DEF SkipNotice, PastTypeOK
<1>5. UNCHANGED <<list, stored, campaigns>> /\ Unsettled' = Unsettled \ {n}
  BY <1>2 DEF SkipNotice, noticeVars, Unsettled
<1>6. /\ Cycle("planning", task[w].todo \ {n}, task[w].outcome) \in Task
      /\ TaskOK(Cycle("planning", task[w].todo \ {n}, task[w].outcome), list, Unsettled')
  BY <1>1, <1>3, <1>5, PlanningOK
<1>7. excused \in SUBSET excused'
  BY <1>2
<1>. QED BY <1>2, <1>4, <1>5, <1>6, <1>7, QuietStep

LEMMA PlanningDoneStep == ASSUME Inv, NEW w \in Workers, PlanningDone(w) PROVE Inv'
<1>1. /\ NoticeTypeOK /\ PollTypeOK /\ PastTypeOK
      /\ task[w].outcome \in {"unchanged", "new_notices", "error"}
  BY TypeParts, TaskParts DEF Inv
<1>2. NoticeTypeOK' /\ PollTypeOK' /\ PastTypeOK'
  BY <1>1, NoticeUnchanged, PollUnchanged, PastUnchanged DEF PlanningDone
<1>3. ToBackfill \in SUBSET Notices
  BY <1>1 DEF ToBackfill, NoticeTypeOK
<1>4. /\ Cycle("bodies", ToBackfill, task[w].outcome) \in Task
      /\ TaskOK(Cycle("bodies", ToBackfill, task[w].outcome), list, Unsettled)
  BY <1>1, <1>3, CycleType DEF Phases, TaskOK
<1>. QED BY <1>2, <1>4, ScanStep DEF PlanningDone, noticeVars

LEMMA BackfillNextStep == ASSUME Inv, NEW w \in Workers, BackfillNext(w) PROVE Inv'
<1>1. /\ NoticeTypeOK /\ PollTypeOK /\ PastTypeOK
      /\ task[w].todo \in SUBSET Notices
      /\ task[w].outcome \in {"unchanged", "new_notices", "error"}
  BY TypeParts, TaskParts DEF Inv
<1>2. PollTypeOK' /\ PastTypeOK'
  BY <1>1, PollUnchanged, PastUnchanged DEF BackfillNext
<1>3. PICK n \in Newest(task[w].todo) :
         \/ /\ bodiless' = bodiless \ {n}
            /\ SetTask(w, Cycle("bodies", task[w].todo \ {n}, task[w].outcome))
            /\ UNCHANGED <<stored, campaigns, tries>>
         \/ /\ BodyFailed(n)
            /\ \/ SetTask(w, Cycle("bodies", task[w].todo \ {n}, task[w].outcome))
               \/ End(w, "error")
  BY DEF BackfillNext
<1>4. NoticeTypeOK' /\ UNCHANGED <<stored, campaigns>>
  <2>1. CASE bodiless' = bodiless \ {n} /\ UNCHANGED <<stored, campaigns, tries>>
    BY <1>1, <2>1 DEF NoticeTypeOK
  <2>2. CASE BodyFailed(n)
    <3>1. \A m \in Notices : MoreTries(m) \in 0 .. BodyTries
      BY <1>1, PortalAssumption DEF MoreTries, NoticeTypeOK
    <3>2. tries' \in [Notices -> 0 .. BodyTries]
      BY <1>1, <2>2, <3>1 DEF BodyFailed, NoticeTypeOK
    <3>. QED BY <1>1, <2>2, <3>2 DEF BodyFailed, NoticeTypeOK
  <2>. QED BY <1>3, <2>1, <2>2
<1>5. PICK t \in {Cycle("bodies", task[w].todo \ {n}, task[w].outcome),
                  Cycle("ended", {}, "error")} : SetTask(w, t)
  BY <1>3 DEF End
<1>6. t \in Task /\ TaskOK(t, list, Unsettled)
  BY <1>1, <1>5, CycleType DEF Phases, TaskOK
<1>. QED BY <1>2, <1>4, <1>5, <1>6, ScanStep DEF BackfillNext

LEMMA CycleDoneStep == ASSUME Inv, NEW w \in Workers, CycleDone(w) PROVE Inv'
<1>1. PollTypeOK' /\ task[w].outcome \in {"unchanged", "new_notices", "error"}
  BY TypeParts, TaskParts, PollUnchanged DEF Inv, CycleDone
<1>. QED BY <1>1, EndStep DEF CycleDone

LEMMA IdleTask == NoTask \in Task /\ TaskOK(NoTask, list, Unsettled)
  BY CycleType DEF NoTask, Phases, TaskOK

LEMMA EndCycleStep == ASSUME Inv, NEW w \in Workers, EndCycle(w) PROVE Inv'
<1>1. NoticeTypeOK /\ PollTypeOK /\ PastTypeOK
  BY TypeParts DEF Inv
<1>2. NextPoll(poll[w], task[w].outcome) \in Poll
  BY <1>1 DEF NextPoll, PollTypeOK, PollState, Poll, Modes
<1>3. NoticeTypeOK' /\ PollTypeOK' /\ PastTypeOK'
  <2>1. NextPoll(poll[w], task[w].outcome).mode \in Modes
    BY <1>2 DEF Poll
  <2>. QED BY <1>1, <1>2, <2>1, NoticeUnchanged, PastUnchanged DEF EndCycle, PollTypeOK
<1>. QED BY <1>3, IdleTask, ScanStep DEF EndCycle, noticeVars

LEMMA RestartStep == ASSUME Inv, NEW w \in Workers, Restart(w) PROVE Inv'
<1>1. NoticeTypeOK /\ PollTypeOK /\ PastTypeOK
  BY TypeParts DEF Inv
<1>2. PollState(saved, FALSE, saved = "burst") \in Poll /\ FirstPoll \in Poll
  BY <1>1 DEF PollTypeOK, PollState, FirstPoll, Poll, Modes
<1>3. NoticeTypeOK' /\ PollTypeOK' /\ PastTypeOK'
  <2>1. faults' \in 0 .. MaxFaults
    BY <1>1, FaultType DEF Restart
  <2>. QED BY <1>1, <1>2, <2>1, NoticeUnchanged DEF Restart, PollTypeOK, PastTypeOK
<1>. QED BY <1>3, IdleTask, ScanStep DEF Restart, noticeVars

LEMMA TimeStep ==
    ASSUME Inv, NEW w \in Workers, ComesDue(w) \/ BurstEnds(w) \/ LeaseEnds
    PROVE  Inv'
<1>1. PollTypeOK
  BY TypeParts DEF Inv
<1>2. PollState(poll[w].mode, TRUE, poll[w].burst) \in Poll
      /\ PollState(poll[w].mode, poll[w].due, FALSE) \in Poll
  BY <1>1 DEF PollTypeOK, PollState, Poll
<1>3. PollTypeOK'
  BY <1>1, <1>2 DEF PollTypeOK, ComesDue, BurstEnds, LeaseEnds
<1>. QED BY <1>3, PollStep DEF ComesDue, BurstEnds, LeaseEnds

LEMMA LeaseEndsStep == ASSUME Inv, LeaseEnds PROVE Inv'
<1>1. PollTypeOK'
  BY TypeParts DEF Inv, PollTypeOK, LeaseEnds
<1>. QED BY <1>1, PollStep DEF LeaseEnds

LEMMA InvStep == Inv /\ [Next]_vars => Inv'
<1>. SUFFICES ASSUME Inv, [Next]_vars PROVE Inv'
  OBVIOUS
<1>1. ASSUME NEW w \in Workers, Step(w) PROVE Inv'
  <2>1. CASE LookForHistory(w) \/ HistoryFetched(w, {}) \/ ArchiveHistory(w)
    BY <2>1, LookForHistoryStep, HistoryFetchedStep, ArchiveHistoryStep
  <2>2. CASE LookForBaseline(w) \/ SetBaseline(w) \/ ListPage(w) \/ CheckPage(w)
    BY <2>2, LookForBaselineStep, SetBaselineStep, ListPageStep, CheckPageStep
  <2>3. CASE PlanNext(w) \/ PlanningDone(w) \/ BackfillNext(w) \/ CycleDone(w) \/ EndCycle(w)
    BY <2>3, PlanNextStep, PlanningDoneStep, BackfillNextStep, CycleDoneStep, EndCycleStep
  <2>. QED BY <1>1, <2>1, <2>2, <2>3 DEF Step
<1>2. ASSUME NEW w \in Workers, StartCycle(w) \/ CycleFails(w) \/ Restart(w) PROVE Inv'
  BY <1>2, StartStep, CycleFailsStep, RestartStep
<1>3. ASSUME NEW w \in Workers, NEW unreadable \in SUBSET Notices,
             HistoryFetched(w, unreadable)
      PROVE  Inv'
  BY <1>3, HistoryFetchedStep
<1>4. ASSUME NEW w \in Workers, NEW failure \in Failures, SkipNotice(w, failure) PROVE Inv'
  BY <1>4, SkipNoticeStep
<1>5. ASSUME NEW w \in Workers, ComesDue(w) \/ BurstEnds(w) PROVE Inv'
  BY <1>5, TimeStep
<1>6. ASSUME NEW n \in Notices, NEW i \in 1 .. Len(list) + 1, Publish(n, i) PROVE Inv'
  BY <1>6, PublishStep
<1>8. ASSUME NEW i \in DOMAIN list, Withdraw(i) PROVE Inv'
  BY <1>8, WithdrawStep
<1>9. CASE LeaseEnds
  BY <1>9, LeaseEndsStep
<1>7. CASE UNCHANGED vars
  <2>1. PollTypeOK'
    BY <1>7, TypeParts, PollUnchanged DEF Inv, vars
  <2>. QED BY <1>7, <2>1, PollStep DEF vars
<1>. QED BY <1>1, <1>2, <1>3, <1>4, <1>5, <1>6, <1>7, <1>8, <1>9 DEF Next

-----------------------------------------------------------------------------
(* Every variable of the poller keeps its type.                            *)
THEOREM TypeCorrect == Spec => []TypeOK
<1>1. Inv => TypeOK
  BY DEF Inv
<1>. QED BY InitInv, InvStep, <1>1, PTL DEF Spec

(* For any number of overlapping workers, a notice has one campaign if it  *)
(* was planned and none if it was archived (OneFate).                      *)
THEOREM NoticesHaveOneFate == Spec => []OneFate
<1>1. Inv => OneFate
  BY DEF Inv
<1>. QED BY InitInv, InvStep, <1>1, PTL DEF Spec

(* However the Portal changes its list, pages shift, workers overlap and   *)
(* cycles break off: no notice is stored while one that is listed behind   *)
(* it is still to be found, but for those that NoHole names.               *)
THEOREM NoticesAreStoredInOrder == Spec => []NoHole
<1>1. Inv => NoHole
  <2>1. Inv => \A j \in DOMAIN list : list[j] \in Notices
    BY TypeParts, ListParts DEF Inv
  <2>. QED BY <2>1 DEF Inv, Order, NoHole, Unsettled
<1>. QED BY InitInv, InvStep, <1>1, PTL DEF Spec
=============================================================================
