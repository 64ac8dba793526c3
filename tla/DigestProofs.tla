----------------------------- MODULE DigestProofs -----------------------------
(***************************************************************************)
(* Proofs about Digest, for every set of subscribers and workers, every    *)
(* number of campaigns, every assignment of posts to campaigns and every   *)
(* limit.                                                                  *)
(***************************************************************************)
EXTENDS Digest, FiniteSetTheorems, TLAPS

(* A row of digest_batches as the transactions leave it.                   *)
GoodRow(row) ==
    /\ row \in Batch
    /\ row.owner # NoOwner <=> row.status = "sending"
    /\ row.live => row.status = "sending"
    /\ row.news # {}

SameNews(old, new) == new.of = old.of /\ new.news = old.news

LEMMA ClaimedRow ==
    ASSUME NEW row, GoodRow(row), NEW w \in Workers
    PROVE  /\ GoodRow(Claimed(row, w)) /\ SameNews(row, Claimed(row, w))
           /\ Claimed(row, w).attempts \in Nat \ {0}
           /\ Claimed(row, w).status = "sending"
<1>1. row \in Batch /\ row.attempts \in Nat
  BY DEF GoodRow, Batch
<1>2. /\ Claimed(row, w).of = row.of /\ Claimed(row, w).news = row.news
      /\ Claimed(row, w).owner = OwnerOf[w] /\ Claimed(row, w).status = "sending"
  BY <1>1 DEF Claimed, Batch
<1>3. Claimed(row, w).attempts = row.attempts + 1
  BY <1>1 DEF Claimed, Batch
<1>4. Claimed(row, w) \in Batch
  <2>. DEFINE n == row.attempts + 1
  <2>1. n \in Nat
    BY <1>1
  <2>. HIDE DEF n
  <2>2. [row EXCEPT !.status = "sending", !.owner = OwnerOf[w], !.live = TRUE, !.attempts = n] \in Batch
    BY <1>1, <2>1, DigestAssumption DEF Batch, Open
  <2>. QED BY <2>2 DEF Claimed, n
<1>5. OwnerOf[w] # NoOwner
  BY DigestAssumption
<1>. HIDE DEF Claimed
<1>. QED BY <1>1, <1>2, <1>3, <1>4, <1>5 DEF GoodRow, SameNews

LEMMA ClosedRow ==
    ASSUME NEW row, GoodRow(row), NEW status \in {"sent", "retry", "failed"}
    PROVE  /\ GoodRow(Closed(row, status)) /\ SameNews(row, Closed(row, status))
           /\ Closed(row, status).status = status
  BY DEF GoodRow, SameNews, Closed, Batch, Open, Ended

LEMMA DeletedRow ==
    ASSUME NEW row, GoodRow(row), ~row.live
    PROVE  GoodRow(Deleted(row)) /\ SameNews(row, Deleted(row))
  BY DEF GoodRow, SameNews, Deleted, Batch, Open, Ended

LEMMA ExpiredRow ==
    ASSUME NEW row, GoodRow(row)
    PROVE  /\ GoodRow([row EXCEPT !.live = FALSE])
           /\ SameNews(row, [row EXCEPT !.live = FALSE])
           /\ [row EXCEPT !.live = FALSE].status = row.status
  BY DEF GoodRow, SameNews, Batch

LEMMA AvailableRow ==
    ASSUME NEW row, GoodRow(row)
    PROVE  /\ GoodRow([row EXCEPT !.available = TRUE])
           /\ SameNews(row, [row EXCEPT !.available = TRUE])
           /\ [row EXCEPT !.available = TRUE].status = row.status
  BY DEF GoodRow, SameNews, Batch

LEMMA NewRow ==
    ASSUME NEW s \in Subscribers, NEW news \in SUBSET Campaigns, news # {}
    PROVE  GoodRow(NewBatch(s, news))
  BY DigestAssumption DEF GoodRow, NewBatch, Batch, Open, Ended

LEMMA GoodRows ==
    BatchesTypeOK <=> batches \in Seq(Batch) /\ \A b \in DOMAIN batches : GoodRow(batches[b])
  BY DEF BatchesTypeOK, GoodRow

(* Every row stays, and stays what it is about.                            *)
RowsKept ==
    \A b \in DOMAIN batches : b \in DOMAIN batches' /\ SameNews(batches[b], batches'[b])

(* Some rows are written anew.                                             *)
LEMMA RowsWritten ==
    ASSUME BatchesTypeOK, batches' = [b \in DOMAIN batches |-> batches'[b]],
           \A b \in DOMAIN batches : /\ GoodRow(batches'[b])
                                     /\ SameNews(batches[b], batches'[b])
    PROVE  BatchesTypeOK' /\ RowsKept
<1>1. batches \in Seq(Batch)
  BY DEF BatchesTypeOK
<1>2. Len(batches) \in Nat /\ DOMAIN batches = 1 .. Len(batches)
  BY <1>1
<1>3. \A b \in DOMAIN batches : batches'[b] \in Batch
  BY DEF GoodRow
<1>4. batches' \in [1 .. Len(batches) -> Batch]
  BY <1>2, <1>3
<1>5. batches' \in Seq(Batch) /\ DOMAIN batches' = DOMAIN batches
  BY <1>2, <1>4
<1>. QED BY <1>5 DEF GoodRow, BatchesTypeOK, RowsKept

LEMMA RowSet ==
    ASSUME BatchesTypeOK, NEW b \in DOMAIN batches, NEW row,
           GoodRow(row), SameNews(batches[b], row), SetBatch(b, row)
    PROVE  /\ BatchesTypeOK' /\ RowsKept /\ batches'[b] = row
           /\ \A x \in DOMAIN batches \ {b} : batches'[x] = batches[x]
<1>1. batches' = [batches EXCEPT ![b] = row]
  BY DEF SetBatch
<1>2. batches = [x \in DOMAIN batches |-> batches[x]]
  BY DEF BatchesTypeOK
<1>3. /\ batches'[b] = row
      /\ \A x \in DOMAIN batches \ {b} : batches'[x] = batches[x]
      /\ batches' = [x \in DOMAIN batches |-> batches'[x]]
  BY <1>1, <1>2
<1>4. \A x \in DOMAIN batches : GoodRow(batches'[x]) /\ SameNews(batches[x], batches'[x])
  BY <1>3, GoodRows DEF SameNews
<1>. QED BY <1>3, <1>4, RowsWritten

LEMMA RowAppended ==
    ASSUME BatchesTypeOK, NEW row, GoodRow(row), batches' = Append(batches, row)
    PROVE  /\ BatchesTypeOK' /\ RowsKept
           /\ Len(batches) + 1 \in DOMAIN batches' /\ Len(batches) + 1 # 0
           /\ batches'[Len(batches) + 1] = row
           /\ \A b \in DOMAIN batches : batches'[b] = batches[b]
<1>1. batches \in Seq(Batch) /\ row \in Batch
  BY DEF BatchesTypeOK, GoodRow
<1>2. /\ batches' \in Seq(Batch) /\ Len(batches') = Len(batches) + 1
      /\ batches'[Len(batches) + 1] = row
      /\ \A b \in 1 .. Len(batches) : batches'[b] = batches[b]
      /\ DOMAIN batches = 1 .. Len(batches) /\ Len(batches) \in Nat
      /\ DOMAIN batches' = 1 .. Len(batches')
  BY <1>1
<1>3. \A b \in DOMAIN batches' : GoodRow(batches'[b])
  BY <1>2, GoodRows
<1>4. BatchesTypeOK'
  BY <1>2, <1>3 DEF GoodRow, BatchesTypeOK
<1>. QED BY <1>2, <1>4 DEF RowsKept, SameNews

LEMMA RowsUnchanged ==
    ASSUME BatchesTypeOK, batches' = batches
    PROVE  BatchesTypeOK' /\ RowsKept
  BY DEF BatchesTypeOK, RowsKept, SameNews

-----------------------------------------------------------------------------
(* The other parts of the type invariant.                                  *)
LEMMA ItemsUnchanged ==
    ASSUME ItemsTypeOK, RowsKept, UNCHANGED <<planned, items, batchOf>>
    PROVE  ItemsTypeOK'
  BY DEF ItemsTypeOK, RowsKept

LEMMA CycleUnchanged ==
    ASSUME CycleTypeOK, RowsKept, cycle' = cycle
    PROVE  CycleTypeOK'
  BY DEF CycleTypeOK, RowsKept, Stands

LEMMA CycleSet ==
    ASSUME CycleTypeOK, RowsKept, NEW w \in Workers, NEW t, SetCycle(w, t),
           t \in Stands', t.sending # 0 <=> t.answer # "none"
    PROVE  /\ CycleTypeOK' /\ cycle'[w] = t
           /\ \A v \in Workers \ {w} : cycle'[v] = cycle[v]
<1>1. cycle \in [Workers -> Stands]
  BY DEF CycleTypeOK
<1>2. \A v \in Workers : cycle'[v] = IF v = w THEN t ELSE cycle[v]
  BY <1>1 DEF SetCycle
<1>3. \A x \in Stands : x \in Stands'
  BY DEF Stands, RowsKept
<1>4. cycle' \in [Workers -> Stands']
  BY <1>1, <1>3 DEF SetCycle
<1>. QED BY <1>2, <1>4 DEF CycleTypeOK

(* The places of a worker that sends nothing.                              *)
LEMMA StandType ==
    ASSUME NEW at \in {"idle", "prepare", "send"}, NEW list \in SUBSET Subscribers,
           NEW claims \in SUBSET ((DOMAIN batches') \X (Nat \ {0}))
    PROVE  /\ Stand(at, list, claims, 0, "none") \in Stands'
           /\ Stand(at, list, claims, 0, "none").sending = 0
           /\ Stand(at, list, claims, 0, "none").answer = "none"
  BY DEF Stand, Stands

LEMMA SendsType ==
    ASSUME NEW claims \in SUBSET ((DOMAIN batches') \X (Nat \ {0}))
    PROVE  /\ Sends(claims) \in Stands'
           /\ Sends(claims).sending = 0 /\ Sends(claims).answer = "none"
<1>1. CASE claims = {}
  BY <1>1, StandType DEF Sends, Idle
<1>2. CASE claims # {}
  BY <1>2, StandType DEF Sends
<1>. QED BY <1>1, <1>2

LEMMA IdleType ==
    /\ Idle \in Stands'
    /\ Idle.sending = 0 /\ Idle.answer = "none"
  BY StandType DEF Idle

LEMMA CountedType ==
    ASSUME faults \in 0 .. MaxFaults, Fault \/ faults' = faults
    PROVE  faults' \in 0 .. MaxFaults
  BY DigestAssumption DEF Fault

-----------------------------------------------------------------------------
(* What a digest consists of.                                              *)
LEMMA LeastNumber ==
    ASSUME NEW T \in SUBSET Nat, T # {}
    PROVE  \E m \in T : \A k \in T : ~(k < m)
<1>. DEFINE R == {ss \in Nat \X Nat : ss[1] < ss[2]}
<1>1. IsWellFoundedOn(R, Nat)
  BY NatLessThanWellFounded DEF OpToRel
<1>. HIDE DEF R
<1>2. \E m \in T : \A k \in T : ~(<<k, m>> \in R)
  BY <1>1, WFMin
<1>3. \A k, m \in Nat : k < m => <<k, m>> \in R
  BY DEF R
<1>. QED BY <1>2, <1>3

LEMMA PostsFinite ==
    ASSUME NEW C, IsFiniteSet(C)
    PROVE  IsFiniteSet(PostsOf(C))
<1>. DEFINE f == [c \in C |-> PostOf[c]]
<1>1. f \in Surjection(C, PostsOf(C))
  BY DEF Surjection, PostsOf
<1>. HIDE DEF f
<1>. QED BY <1>1, FS_Surjection

(* A digest that is prepared has an entry, the subscriber's oldest one,    *)
(* and only entries that no batch has.                                     *)
LEMMA NewsType ==
    ASSUME NEW s \in Subscribers, Unbatched(s) # {},
           NEW fit \in 1 .. Cardinality(PostsOf(Candidates(s)))
    PROVE  /\ FirstEntries(Candidates(s), fit) \in SUBSET Unbatched(s)
           /\ FirstEntries(Candidates(s), fit) # {}
<1>1. Unbatched(s) \in SUBSET Nat
  BY DigestAssumption DEF Unbatched, Campaigns
<1>2. PICK m \in Unbatched(s) : \A k \in Unbatched(s) : ~(k < m)
  BY <1>1, LeastNumber
<1>3. m \in Candidates(s)
  <2>1. {d \in Unbatched(s) : d < m} = {}
    BY <1>2
  <2>. QED BY <2>1, FS_EmptySet, DigestAssumption DEF Candidates
<1>4. Candidates(s) \subseteq Unbatched(s)
  BY DEF Candidates
<1>5. {d \in Candidates(s) : d <= m} = {m}
  BY <1>1, <1>2, <1>3, <1>4
<1>6. PostsOf({m}) = {PostOf[m]}
  BY DEF PostsOf
<1>7. Cardinality(PostsOf({m})) <= fit
  <2>1. Cardinality(PostsOf({m})) = 1
    BY <1>6, FS_Singleton
  <2>2. IsFiniteSet(Candidates(s))
    <3>1. IsFiniteSet(1 .. LastCampaign)
      BY DigestAssumption, FS_Interval
    <3>2. Candidates(s) \in SUBSET (1 .. LastCampaign)
      BY <1>4 DEF Unbatched, Campaigns
    <3>. QED BY <3>1, <3>2, FS_Subset
  <2>3. Cardinality(PostsOf(Candidates(s))) \in Nat
    BY <2>2, PostsFinite, FS_CardinalityType
  <2>. QED BY <2>1, <2>3
<1>8. m \in FirstEntries(Candidates(s), fit)
  BY <1>3, <1>5, <1>6, <1>7 DEF FirstEntries
<1>. QED BY <1>4, <1>8 DEF FirstEntries

-----------------------------------------------------------------------------
(* The inductive invariant.  The message of a batch has the entries whose  *)
(* items point to the batch, and an answer "sent" came for a message that  *)
(* Telegram took.                                                          *)
ItemsMatch == \A e \in Entries : batchOf[e] # 0 => e \in EntriesOf(batchOf[e])

ToldWhatIsSent ==
    \A w \in Workers : cycle[w].answer = "sent" => EntriesOf(cycle[w].sending) \subseteq told

DigestInv == TypeOK /\ ItemsMatch /\ ToldWhatIsSent

LEMMA ItemsMatchKept ==
    ASSUME ItemsTypeOK, ItemsMatch, RowsKept,
           \A e \in Entries : batchOf'[e] \in {0, batchOf[e]}
    PROVE  ItemsMatch'
<1>. SUFFICES ASSUME NEW e \in Entries, batchOf'[e] # 0
              PROVE  e \in EntriesOf(batchOf[e])'
  BY DEF ItemsMatch
<1>1. batchOf'[e] = batchOf[e] /\ batchOf[e] \in DOMAIN batches
  BY DEF ItemsTypeOK
<1>. QED BY <1>1 DEF ItemsMatch, EntriesOf, RowsKept, SameNews

LEMMA ToldKept ==
    ASSUME CycleTypeOK, ToldWhatIsSent, RowsKept, told \subseteq told',
           \A w \in Workers : cycle'[w] = cycle[w] \/ cycle'[w].answer = "none"
    PROVE  ToldWhatIsSent'
<1>. SUFFICES ASSUME NEW w \in Workers, cycle'[w].answer = "sent"
              PROVE  EntriesOf(cycle[w].sending)' \subseteq told'
  BY DEF ToldWhatIsSent
<1>1. cycle'[w] = cycle[w] /\ cycle[w].sending \in DOMAIN batches
  BY DEF CycleTypeOK, Stands
<1>2. EntriesOf(cycle[w].sending)' = EntriesOf(cycle[w].sending)
  BY <1>1 DEF EntriesOf, RowsKept, SameNews
<1>. QED BY <1>1, <1>2 DEF ToldWhatIsSent

(* Steps that neither write a batch nor move a worker.                     *)
LEMMA QuietInv ==
    ASSUME DigestInv, UNCHANGED <<batchOf, batches, cycle, told, retained, faults>>,
           ItemsTypeOK', {active', daily', due'} \subseteq [Subscribers -> BOOLEAN]
    PROVE  DigestInv'
<1>1. BatchesTypeOK' /\ RowsKept
  BY RowsUnchanged DEF DigestInv, TypeOK
<1>2. CycleTypeOK'
  BY <1>1, CycleUnchanged DEF DigestInv, TypeOK
<1>3. ItemsMatch' /\ ToldWhatIsSent'
  BY <1>1, ItemsMatchKept, ToldKept DEF DigestInv, TypeOK
<1>. QED BY <1>1, <1>2, <1>3 DEF DigestInv, TypeOK

LEMMA PlanInv ==
    ASSUME DigestInv, PlanNotification
    PROVE  DigestInv'
<1>1. /\ planned' = planned + 1 /\ planned < LastCampaign /\ planned \in 0 .. LastCampaign
      /\ items' = items \cup ({s \in Subscribers : active[s] /\ daily[s]} \X {planned'})
      /\ items \in SUBSET (Subscribers \X (1 .. planned))
      /\ UNCHANGED <<users, batchOf, batches, cycle, told, retained, faults>>
  BY DEF PlanNotification, DigestInv, TypeOK, ItemsTypeOK
<1>2. planned' \in 0 .. LastCampaign /\ 1 .. planned \subseteq 1 .. planned' /\ planned' \in 1 .. planned'
  BY <1>1, DigestAssumption
<1>3. items' \in SUBSET (Subscribers \X (1 .. planned'))
  BY <1>1, <1>2
<1>4. ItemsTypeOK'
  BY <1>1, <1>2, <1>3 DEF DigestInv, TypeOK, ItemsTypeOK
<1>. QED BY <1>1, <1>4, QuietInv DEF users, DigestInv, TypeOK

LEMMA UserInv ==
    ASSUME DigestInv, NEW s \in Subscribers,
           UpdatePreferences(s) \/ StopOrStart(s) \/ HourComes(s)
    PROVE  DigestInv'
<1>1. {active, daily, due} \subseteq [Subscribers -> BOOLEAN]
  BY DEF DigestInv, TypeOK
<1>2. {active', daily', due'} \subseteq [Subscribers -> BOOLEAN]
  <2>1. CASE UpdatePreferences(s)
    BY <1>1, <2>1 DEF UpdatePreferences
  <2>2. CASE StopOrStart(s)
    BY <1>1, <2>2 DEF StopOrStart
  <2>3. CASE HourComes(s)
    BY <1>1, <2>3 DEF HourComes
  <2>. QED BY <2>1, <2>2, <2>3
<1>3. UNCHANGED <<planned, items, batchOf, batches, cycle, told, retained, faults>>
  BY DEF UpdatePreferences, StopOrStart, HourComes
<1>4. ItemsTypeOK'
  BY <1>3 DEF ItemsTypeOK, DigestInv, TypeOK
<1>. QED BY <1>2, <1>3, <1>4, QuietInv

(* Steps of a worker that does not send: its list, its claims.             *)
LEMMA WorkerInv ==
    ASSUME DigestInv, NEW w \in Workers, NEW t, SetCycle(w, t), BatchesTypeOK', RowsKept,
           t \in Stands', t.sending = 0, t.answer = "none",
           UNCHANGED <<planned, items, batchOf, told, retained>>,
           {active', daily', due'} \subseteq [Subscribers -> BOOLEAN],
           Fault \/ faults' = faults
    PROVE  DigestInv'
<1>1. /\ CycleTypeOK' /\ cycle'[w] = t
      /\ \A v \in Workers \ {w} : cycle'[v] = cycle[v]
  BY CycleSet DEF DigestInv, TypeOK
<1>2. ItemsTypeOK'
  BY ItemsUnchanged DEF DigestInv, TypeOK
<1>3. ItemsMatch'
  BY ItemsMatchKept DEF DigestInv, TypeOK
<1>4. ToldWhatIsSent'
  BY <1>1, ToldKept DEF DigestInv, TypeOK
<1>5. faults' \in 0 .. MaxFaults
  BY CountedType DEF DigestInv, TypeOK
<1>. QED BY <1>1, <1>2, <1>3, <1>4, <1>5 DEF DigestInv, TypeOK

LEMMA ListInv ==
    ASSUME DigestInv, NEW w \in Workers,
           ListDue(w) \/ PreparationFails(w) \/ Unauthorized(w) \/ Crash(w)
    PROVE  DigestInv'
<1>1. /\ UNCHANGED <<users, planned, items, batchOf, batches, told, retained>>
      /\ Fault \/ faults' = faults
      /\ \/ \E L \in SUBSET Subscribers : SetCycle(w, Stand("prepare", L, {}, 0, "none"))
         \/ SetCycle(w, Idle)
  <2>1. DueSubscribers \subseteq Subscribers
    BY DEF DueSubscribers
  <2>. QED BY <2>1 DEF ListDue, SomeOf, PreparationFails, Unauthorized, Crash, Dies
<1>2. BatchesTypeOK' /\ RowsKept
  BY <1>1, RowsUnchanged DEF DigestInv, TypeOK
<1>3. {active', daily', due'} \subseteq [Subscribers -> BOOLEAN]
  BY <1>1 DEF users, DigestInv, TypeOK
<1>4. ASSUME NEW L \in SUBSET Subscribers, SetCycle(w, Stand("prepare", L, {}, 0, "none"))
      PROVE  DigestInv'
  <2>1. Stand("prepare", L, {}, 0, "none") \in Stands'
    BY StandType
  <2>2. /\ Stand("prepare", L, {}, 0, "none").sending = 0
        /\ Stand("prepare", L, {}, 0, "none").answer = "none"
    BY DEF Stand
  <2>. QED BY <1>1, <1>2, <1>3, <1>4, <2>1, <2>2, WorkerInv
<1>5. ASSUME SetCycle(w, Idle) PROVE DigestInv'
  BY <1>1, <1>2, <1>3, <1>5, IdleType, WorkerInv
<1>. QED BY <1>1, <1>4, <1>5

LEMMA PrepareInv ==
    ASSUME DigestInv, NEW w \in Workers, NEW s \in Subscribers, PrepareDigest(w, s)
    PROVE  DigestInv'
<1>. DEFINE t == Stand("prepare", cycle[w].list \ {s}, {}, 0, "none")
<1>1. /\ SetCycle(w, t)
      /\ UNCHANGED <<active, daily, planned, items, told, retained, faults>>
  BY DEF PrepareDigest
<1>2. cycle[w].list \in SUBSET Subscribers
  BY DEF DigestInv, TypeOK, CycleTypeOK, Stands
<1>3. t \in Stands' /\ t.sending = 0 /\ t.answer = "none"
  BY <1>2, StandType
<1>. HIDE DEF t
<1>4. CASE Unbatched(s) = {}
  <2>1. UNCHANGED <<batchOf, batches, due>>
    BY <1>4 DEF PrepareDigest
  <2>2. BatchesTypeOK' /\ RowsKept
    BY <2>1, RowsUnchanged DEF DigestInv, TypeOK
  <2>3. {active', daily', due'} \subseteq [Subscribers -> BOOLEAN]
    BY <1>1, <2>1 DEF DigestInv, TypeOK
  <2>. QED BY <1>1, <1>3, <2>1, <2>2, <2>3, WorkerInv
<1>5. CASE Unbatched(s) # {}
  <2>1. PICK fit \in 1 .. Cardinality(PostsOf(Candidates(s))) :
          /\ batches' = Append(batches, NewBatch(s, FirstEntries(Candidates(s), fit)))
          /\ batchOf' = Batched(s, FirstEntries(Candidates(s), fit), Len(batches) + 1)
          /\ due' = [due EXCEPT ![s] = FALSE]
    BY <1>5 DEF PrepareDigest
  <2>. DEFINE news == FirstEntries(Candidates(s), fit)
              b == Len(batches) + 1
  <2>2. news \in SUBSET Unbatched(s) /\ news # {}
    BY <1>5, NewsType
  <2>. HIDE DEF news
  <2>3. news \in SUBSET Campaigns
    BY <2>2 DEF Unbatched
  <2>4. /\ GoodRow(NewBatch(s, news))
        /\ NewBatch(s, news).of = s /\ NewBatch(s, news).news = news
    BY <2>2, <2>3, NewRow DEF NewBatch
  <2>5. batches' = Append(batches, NewBatch(s, news)) /\ batchOf' = Batched(s, news, b)
    BY <2>1 DEF news
  <2>6. /\ BatchesTypeOK' /\ RowsKept /\ b \in DOMAIN batches' /\ b # 0
        /\ batches'[b] = NewBatch(s, news)
    BY <2>4, <2>5, RowAppended DEF DigestInv, TypeOK
  <2>. HIDE DEF b
  <2>7. /\ batchOf \in [Entries -> {0} \cup (DOMAIN batches)]
        /\ \A e \in Entries : batchOf[e] # 0 => e \in items
    BY DEF DigestInv, TypeOK, ItemsTypeOK
  <2>8. \A e \in Entries : batchOf'[e] = IF e \in {s} \X news THEN b ELSE batchOf[e]
    BY <2>5 DEF Batched
  <2>9. batchOf' \in [Entries -> {0} \cup (DOMAIN batches')]
    BY <2>5, <2>6, <2>7 DEF Batched, RowsKept
  <2>10. \A e \in {s} \X news : e \in items
    BY <2>2 DEF Unbatched
  <2>11. ItemsTypeOK'
    BY <1>1, <2>7, <2>8, <2>9, <2>10 DEF DigestInv, TypeOK, ItemsTypeOK
  <2>12. ItemsMatch'
    <3>. SUFFICES ASSUME NEW e \in Entries, batchOf'[e] # 0
                  PROVE  e \in EntriesOf(batchOf[e])'
      BY DEF ItemsMatch
    <3>1. CASE e \in {s} \X news
      BY <2>4, <2>6, <2>8, <3>1 DEF EntriesOf
    <3>2. CASE e \notin {s} \X news
      <4>1. batchOf'[e] = batchOf[e] /\ batchOf[e] \in DOMAIN batches
        BY <2>7, <2>8, <3>2
      <4>2. e \in EntriesOf(batchOf[e])
        BY <4>1 DEF DigestInv, ItemsMatch
      <4>3. SameNews(batches[batchOf[e]], batches'[batchOf[e]])
        BY <2>6, <4>1 DEF RowsKept
      <4>. QED BY <4>1, <4>2, <4>3 DEF EntriesOf, SameNews
    <3>. QED BY <3>1, <3>2
  <2>13. /\ CycleTypeOK' /\ cycle'[w] = t
         /\ \A v \in Workers \ {w} : cycle'[v] = cycle[v]
    BY <1>1, <1>3, <2>6, CycleSet DEF DigestInv, TypeOK
  <2>14. ToldWhatIsSent'
    BY <1>1, <1>3, <2>6, <2>13, ToldKept DEF DigestInv, TypeOK
  <2>15. {active', daily', due'} \subseteq [Subscribers -> BOOLEAN]
    BY <1>1, <2>1 DEF DigestInv, TypeOK
  <2>. QED BY <1>1, <2>6, <2>11, <2>12, <2>13, <2>14, <2>15 DEF DigestInv, TypeOK
<1>. QED BY <1>4, <1>5

LEMMA ClaimInv ==
    ASSUME DigestInv, NEW w \in Workers, ClaimDigests(w)
    PROVE  DigestInv'
<1>1. PICK B \in SomeOf(Claimable, ClaimLimit) :
        /\ batches' = [b \in DOMAIN batches |->
               IF b \in B THEN Claimed(batches[b], w) ELSE batches[b]]
        /\ SetCycle(w, Sends({<<b, batches'[b].attempts>> : b \in B}))
  BY DEF ClaimDigests
<1>2. B \in SUBSET DOMAIN batches
  BY DEF SomeOf, Claimable
<1>3. \A b \in DOMAIN batches : GoodRow(batches[b])
  BY GoodRows DEF DigestInv, TypeOK
<1>4. \A b \in B : /\ GoodRow(batches'[b]) /\ SameNews(batches[b], batches'[b])
                   /\ batches'[b].attempts \in Nat \ {0}
  BY <1>1, <1>2, <1>3, ClaimedRow
<1>5. \A b \in DOMAIN batches : GoodRow(batches'[b]) /\ SameNews(batches[b], batches'[b])
  BY <1>1, <1>3, <1>4 DEF SameNews
<1>6. BatchesTypeOK' /\ RowsKept
  BY <1>1, <1>5, RowsWritten DEF DigestInv, TypeOK
<1>. DEFINE claims == {<<b, batches'[b].attempts>> : b \in B}
<1>7. claims \in SUBSET ((DOMAIN batches') \X (Nat \ {0}))
  BY <1>2, <1>4, <1>6 DEF RowsKept
<1>8. SetCycle(w, Sends(claims))
  BY <1>1
<1>. HIDE DEF claims
<1>9. /\ Sends(claims) \in Stands'
      /\ Sends(claims).sending = 0 /\ Sends(claims).answer = "none"
  BY <1>7, SendsType
<1>10. {active', daily', due'} \subseteq [Subscribers -> BOOLEAN]
  BY DEF ClaimDigests, users, DigestInv, TypeOK
<1>. QED BY <1>6, <1>8, <1>9, <1>10, WorkerInv DEF ClaimDigests

LEMMA SendInv ==
    ASSUME DigestInv, NEW w \in Workers, SendDigest(w)
    PROVE  DigestInv'
<1>1. PICK claim \in cycle[w].claims, answer \in Answers, took \in BOOLEAN :
        /\ answer = "sent" => took
        /\ told' = IF took THEN told \cup EntriesOf(claim[1]) ELSE told
        /\ SetCycle(w, Stand("send", {}, cycle[w].claims, claim[1], answer))
  BY DEF SendDigest
<1>. DEFINE t == Stand("send", {}, cycle[w].claims, claim[1], answer)
<1>2. UNCHANGED <<users, planned, items, batchOf, batches, retained, faults>>
  BY DEF SendDigest
<1>3. BatchesTypeOK' /\ RowsKept
  BY <1>2, RowsUnchanged DEF DigestInv, TypeOK
<1>4. /\ cycle[w].claims \in SUBSET ((DOMAIN batches) \X (Nat \ {0}))
      /\ claim[1] \in DOMAIN batches
  BY DEF DigestInv, TypeOK, CycleTypeOK, Stands
<1>5. claim[1] # 0 /\ answer # "none"
  BY <1>4 DEF DigestInv, TypeOK, BatchesTypeOK, Answers
<1>6. t \in Stands' /\ t.sending = claim[1] /\ t.answer = answer
  BY <1>2, <1>4 DEF Stand, Stands
<1>7. SetCycle(w, t)
  BY <1>1
<1>. HIDE DEF t
<1>8. /\ CycleTypeOK' /\ cycle'[w] = t
      /\ \A v \in Workers \ {w} : cycle'[v] = cycle[v]
  BY <1>3, <1>5, <1>6, <1>7, CycleSet DEF DigestInv, TypeOK
<1>9. EntriesOf(claim[1]) \in SUBSET Entries
  <2>1. batches[claim[1]] \in Batch
    BY <1>4, GoodRows DEF GoodRow, DigestInv, TypeOK
  <2>. QED BY <2>1 DEF Batch, EntriesOf, Entries
<1>10. told' \in SUBSET Entries /\ told \subseteq told'
  BY <1>1, <1>9 DEF DigestInv, TypeOK
<1>11. ToldWhatIsSent'
  <2>. SUFFICES ASSUME NEW v \in Workers, cycle'[v].answer = "sent"
                PROVE  EntriesOf(cycle[v].sending)' \subseteq told'
    BY DEF ToldWhatIsSent
  <2>1. \A b \in DOMAIN batches : batches'[b] = batches[b]
    BY <1>2
  <2>2. CASE v = w
    BY <1>1, <1>4, <1>6, <1>8, <2>1, <2>2 DEF EntriesOf
  <2>3. CASE v # w
    <3>1. cycle'[v] = cycle[v]
      BY <1>8, <2>3
    <3>2. EntriesOf(cycle[v].sending) \subseteq told
      BY <3>1 DEF DigestInv, ToldWhatIsSent
    <3>3. EntriesOf(cycle[v].sending)' = EntriesOf(cycle[v].sending)
      BY <1>2, <3>1 DEF EntriesOf
    <3>. QED BY <1>10, <3>2, <3>3
  <2>. QED BY <2>2, <2>3
<1>12. ItemsTypeOK' /\ ItemsMatch'
  BY <1>2, <1>3, ItemsUnchanged, ItemsMatchKept DEF DigestInv, TypeOK
<1>. QED BY <1>2, <1>3, <1>8, <1>10, <1>11, <1>12 DEF DigestInv, TypeOK, users

(* The batch whose answer a worker has.                                    *)
LEMMA ReportedBatch ==
    ASSUME DigestInv, NEW w \in Workers, cycle[w].sending # 0
    PROVE  /\ cycle[w].sending \in DOMAIN batches
           /\ GoodRow(batches[cycle[w].sending])
           /\ Owns(w, cycle[w].sending) => batches[cycle[w].sending].status = "sending"
<1>1. cycle[w].sending \in DOMAIN batches
  BY DEF DigestInv, TypeOK, CycleTypeOK, Stands
<1>2. GoodRow(batches[cycle[w].sending])
  BY <1>1, GoodRows DEF DigestInv, TypeOK
<1>. QED BY <1>1, <1>2, DigestAssumption DEF GoodRow, Owns

(* What the three reports do to the batch.                                 *)
LEMMA ReportShape ==
    ASSUME DigestInv, NEW w \in Workers,
           CompleteDigest(w) \/ RetryDigest(w) \/ FailDigest(w)
    PROVE  /\ UNCHANGED <<planned, items, batchOf, told, retained, faults>>
           /\ cycle[w].sending \in DOMAIN batches
           /\ \/ batches' = batches
              \/ /\ batches[cycle[w].sending].status = "sending"
                 /\ \E status \in {"sent", "retry", "failed"} :
                       /\ SetBatch(cycle[w].sending, Closed(batches[cycle[w].sending], status))
                       /\ status = "sent" => cycle[w].answer = "sent"
           /\ GoesOn(w) \/ Dies(w)
           /\ {active', daily', due'} \subseteq [Subscribers -> BOOLEAN]
<1>. DEFINE b == cycle[w].sending
<1>1. {active, daily, due} \subseteq [Subscribers -> BOOLEAN]
  BY DEF DigestInv, TypeOK
<1>2. CASE CompleteDigest(w)
  BY <1>1, <1>2, ReportedBatch DEF CompleteDigest, Reporting, users
<1>3. CASE RetryDigest(w)
  BY <1>1, <1>3, ReportedBatch DEF RetryDigest, Reporting, users
<1>4. CASE FailDigest(w)
  <2>1. b \in DOMAIN batches /\ (Owns(w, b) => batches[b].status = "sending")
    BY <1>4, ReportedBatch DEF FailDigest, Reporting
  <2>2. \/ batches' = batches
        \/ Owns(w, b) /\ SetBatch(b, Closed(batches[b], "failed"))
    BY <1>4 DEF FailDigest
  <2>3. active' \in [Subscribers -> BOOLEAN] /\ daily' = daily /\ due' = due
    BY <1>1, <1>4 DEF FailDigest
  <2>4. GoesOn(w) \/ Dies(w)
    BY <1>4 DEF FailDigest
  <2>5. UNCHANGED <<planned, items, batchOf, told, retained, faults>>
    BY <1>4 DEF FailDigest, Reporting
  <2>. QED BY <1>1, <2>1, <2>2, <2>3, <2>4, <2>5
<1>. QED BY <1>2, <1>3, <1>4

LEMMA ReportInv ==
    ASSUME DigestInv, NEW w \in Workers,
           CompleteDigest(w) \/ RetryDigest(w) \/ FailDigest(w)
    PROVE  DigestInv'
<1>. DEFINE b == cycle[w].sending
<1>1. /\ UNCHANGED <<planned, items, batchOf, told, retained, faults>>
      /\ b \in DOMAIN batches
      /\ \/ batches' = batches
         \/ \E status \in {"sent", "retry", "failed"} : SetBatch(b, Closed(batches[b], status))
      /\ GoesOn(w) \/ Dies(w)
      /\ {active', daily', due'} \subseteq [Subscribers -> BOOLEAN]
  BY ReportShape
<1>. HIDE DEF b
<1>2. BatchesTypeOK' /\ RowsKept
  <2>1. CASE batches' = batches
    BY <2>1, RowsUnchanged DEF DigestInv, TypeOK
  <2>2. ASSUME NEW status \in {"sent", "retry", "failed"},
               SetBatch(b, Closed(batches[b], status))
        PROVE  BatchesTypeOK' /\ RowsKept
    <3>1. GoodRow(batches[b])
      BY <1>1, GoodRows DEF DigestInv, TypeOK
    <3>. QED BY <1>1, <2>2, <3>1, ClosedRow, RowSet DEF DigestInv, TypeOK
  <2>. QED BY <1>1, <2>1, <2>2
<1>3. CASE Dies(w)
  BY <1>1, <1>2, <1>3, IdleType, WorkerInv DEF Dies
<1>4. CASE GoesOn(w)
  <2>. DEFINE claims == {claim \in cycle[w].claims : claim[1] # cycle[w].sending}
  <2>1. claims \in SUBSET ((DOMAIN batches) \X (Nat \ {0}))
    BY DEF DigestInv, TypeOK, CycleTypeOK, Stands
  <2>2. claims \in SUBSET ((DOMAIN batches') \X (Nat \ {0}))
    BY <1>2, <2>1 DEF RowsKept
  <2>3. SetCycle(w, Sends(claims))
    BY <1>4 DEF GoesOn
  <2>. HIDE DEF claims
  <2>. QED BY <1>1, <1>2, <2>2, <2>3, SendsType, WorkerInv
<1>. QED BY <1>1, <1>3, <1>4

LEMMA TimeInv ==
    ASSUME DigestInv, NEW b \in DOMAIN batches, LeaseEnds(b) \/ BecomesAvailable(b)
    PROVE  /\ DigestInv'
           /\ UNCHANGED <<batchOf, told, retained>>
           /\ \A x \in DOMAIN batches : batches'[x].status = batches[x].status
<1>1. GoodRow(batches[b])
  BY GoodRows DEF DigestInv, TypeOK
<1>2. PICK row : /\ SetBatch(b, row) /\ GoodRow(row) /\ SameNews(batches[b], row)
                 /\ row.status = batches[b].status
  BY <1>1, ExpiredRow, AvailableRow DEF LeaseEnds, BecomesAvailable
<1>3. /\ BatchesTypeOK' /\ RowsKept /\ batches'[b] = row
      /\ \A x \in DOMAIN batches \ {b} : batches'[x] = batches[x]
  BY <1>2, RowSet DEF DigestInv, TypeOK
<1>4. /\ UNCHANGED <<users, planned, items, batchOf, cycle, told, retained>>
      /\ Fault \/ faults' = faults
  BY DEF LeaseEnds, BecomesAvailable, Counted
<1>5. CycleTypeOK' /\ ItemsTypeOK'
  BY <1>3, <1>4, CycleUnchanged, ItemsUnchanged DEF DigestInv, TypeOK
<1>6. ItemsMatch' /\ ToldWhatIsSent'
  BY <1>3, <1>4, ItemsMatchKept, ToldKept DEF DigestInv, TypeOK
<1>7. faults' \in 0 .. MaxFaults
  BY <1>4, CountedType DEF DigestInv, TypeOK
<1>. QED BY <1>2, <1>3, <1>4, <1>5, <1>6, <1>7 DEF DigestInv, TypeOK, users

(* What retention does to the rows.                                        *)
RetentionShape(s, n, B) ==
    LET old == items \cap ({s} \X (1 .. n))
    IN  /\ B \in SUBSET {b \in DOMAIN batches : batches[b].of = s}
        /\ \A b \in B : ~batches[b].live /\ batches[b].status # "deleted"
        /\ OlderThanBatches(s, n, B)
        /\ Fault
        /\ items' = items \ old
        /\ batchOf' = [e \in Entries |->
              IF e \in old \/ batchOf[e] \in B THEN 0 ELSE batchOf[e]]
        /\ batches' = [b \in DOMAIN batches |->
              IF b \in B THEN Deleted(batches[b]) ELSE batches[b]]
        /\ retained' = [e \in Entries |->
              IF e \notin old THEN retained[e]
              ELSE IF Outcome(e) = "open" THEN "failed" ELSE Outcome(e)]
        /\ UNCHANGED <<users, planned, cycle, told>>

LEMMA OutcomeType ==
    ASSUME TypeOK, NEW e \in Entries
    PROVE  /\ Outcome(e) \in {"open", "sent", "failed"}
           /\ retained[e] # "kept" => Outcome(e) # "open"
  BY DEF TypeOK, Outcome

LEMMA RetentionInv ==
    ASSUME DigestInv, NEW s \in Subscribers, NEW n \in 0 .. planned, NEW B,
           RetentionShape(s, n, B)
    PROVE  DigestInv'
<1>. DEFINE old == items \cap ({s} \X (1 .. n))
<1>1. B \in SUBSET DOMAIN batches /\ \A b \in B : ~batches[b].live
  BY DEF RetentionShape
<1>2. \A b \in DOMAIN batches :
         batches'[b] = IF b \in B THEN Deleted(batches[b]) ELSE batches[b]
  BY DEF RetentionShape
<1>3. \A b \in DOMAIN batches : GoodRow(batches'[b]) /\ SameNews(batches[b], batches'[b])
  <2>. SUFFICES ASSUME NEW b \in DOMAIN batches
                PROVE  GoodRow(batches'[b]) /\ SameNews(batches[b], batches'[b])
    OBVIOUS
  <2>1. GoodRow(batches[b])
    BY GoodRows DEF DigestInv, TypeOK
  <2>2. CASE b \in B
    BY <1>1, <1>2, <2>1, <2>2, DeletedRow
  <2>3. CASE b \notin B
    BY <1>2, <2>1, <2>3 DEF SameNews
  <2>. QED BY <2>2, <2>3
<1>4. batches' = [b \in DOMAIN batches |-> batches'[b]]
  BY DEF RetentionShape
<1>5. BatchesTypeOK' /\ RowsKept
  BY <1>3, <1>4, RowsWritten DEF DigestInv, TypeOK
<1>6. /\ items' = items \ old
      /\ batchOf' \in [Entries -> {0} \cup (DOMAIN batches)]
      /\ \A e \in Entries :
            batchOf'[e] = IF e \in old \/ batchOf[e] \in B THEN 0 ELSE batchOf[e]
  BY DEF RetentionShape, DigestInv, TypeOK, ItemsTypeOK
<1>7. retained' \in [Entries -> {"kept", "sent", "failed"}]
  <2>1. \A e \in Entries : retained[e] \in {"kept", "sent", "failed"}
    BY DEF DigestInv, TypeOK
  <2>2. \A e \in Entries : Outcome(e) \in {"open", "sent", "failed"}
    BY OutcomeType DEF DigestInv
  <2>. QED BY <2>1, <2>2 DEF RetentionShape
<1>. HIDE DEF old
<1>8. UNCHANGED <<users, planned, cycle, told>> /\ Fault
  BY DEF RetentionShape
<1>9. ItemsTypeOK'
  BY <1>5, <1>6, <1>8 DEF DigestInv, TypeOK, ItemsTypeOK, RowsKept
<1>10. CycleTypeOK'
  BY <1>5, <1>8, CycleUnchanged DEF DigestInv, TypeOK
<1>11. ItemsMatch' /\ ToldWhatIsSent'
  BY <1>5, <1>6, <1>8, ItemsMatchKept, ToldKept DEF DigestInv, TypeOK
<1>12. faults' \in 0 .. MaxFaults
  BY <1>8, CountedType DEF DigestInv, TypeOK
<1>. QED BY <1>5, <1>7, <1>8, <1>9, <1>10, <1>11, <1>12 DEF DigestInv, TypeOK, users

LEMMA InitInv == Init => DigestInv
<1>. SUFFICES ASSUME Init PROVE DigestInv
  OBVIOUS
<1>1. BatchesTypeOK
  BY DEF Init, BatchesTypeOK
<1>2. ItemsTypeOK
  BY DigestAssumption DEF Init, ItemsTypeOK
<1>3. Idle \in Stands /\ Idle.sending = 0 /\ Idle.answer = "none"
  BY DEF Idle, Stand, Stands
<1>4. CycleTypeOK
  BY <1>3 DEF Init, CycleTypeOK
<1>5. ItemsMatch /\ ToldWhatIsSent
  BY <1>3 DEF Init, ItemsMatch, ToldWhatIsSent
<1>. QED BY <1>1, <1>2, <1>4, <1>5, DigestAssumption DEF Init, DigestInv, TypeOK

LEMMA NextInv == ASSUME DigestInv, [Next]_vars PROVE DigestInv'
<1>1. ASSUME NEW s \in Subscribers, ApplyRetention(s) PROVE DigestInv'
  <2>1. \E n \in 0 .. planned : \E B : RetentionShape(s, n, B)
    BY <1>1 DEF ApplyRetention, RetentionShape
  <2>. QED BY <2>1, RetentionInv
<1>2. ASSUME NEW w \in Workers, WorkerStep(w) PROVE DigestInv'
  BY <1>2, ListInv, PrepareInv, ClaimInv, SendInv, ReportInv DEF WorkerStep
<1>3. CASE UNCHANGED vars
  <2>1. ItemsTypeOK'
    BY <1>3 DEF vars, users, DigestInv, TypeOK, ItemsTypeOK
  <2>. QED BY <1>3, <2>1, QuietInv DEF vars, users, DigestInv, TypeOK
<1>. QED BY <1>1, <1>2, <1>3, PlanInv, UserInv, ListInv, TimeInv DEF Next

(* The state is well-formed.                                               *)
THEOREM TypeCorrect == Spec => []TypeOK
<1>1. DigestInv => TypeOK
  BY DEF DigestInv
<1>. QED BY <1>1, InitInv, NextInv, PTL DEF Spec

-----------------------------------------------------------------------------
(* How the outcome of an entry may move in a step.                         *)
OutcomeMove(e) ==
    \/ Outcome(e)' = Outcome(e)
    \/ Outcome(e) = "open" /\ Outcome(e)' = "sent" /\ e \in told
    \/ Outcome(e) = "open" /\ Outcome(e)' = "failed"

OutcomesMove == told' = told /\ \A e \in Entries : OutcomeMove(e)

(* Rows that neither reach nor leave an end.                               *)
LEMMA OutcomesStay ==
    ASSUME DigestInv, NEW e \in Entries, UNCHANGED <<batchOf, retained>>,
           \A b \in DOMAIN batches :
               \/ batches'[b].status = batches[b].status
               \/ {batches[b].status, batches'[b].status} \subseteq Open
    PROVE  Outcome(e)' = Outcome(e)
<1>1. batchOf[e] # 0 => batchOf[e] \in DOMAIN batches
  BY DEF DigestInv, TypeOK, ItemsTypeOK
<1>2. ASSUME NEW status \in {"sent", "failed"}
      PROVE  EndedAs(e, status)' <=> EndedAs(e, status)
  BY <1>1 DEF EndedAs, Open
<1>3. EndedAs(e, "sent")' <=> EndedAs(e, "sent")
  BY <1>2
<1>4. EndedAs(e, "failed")' <=> EndedAs(e, "failed")
  BY <1>2
<1>. QED BY <1>3, <1>4 DEF Outcome

LEMMA PrepareMoves ==
    ASSUME DigestInv, NEW w \in Workers, NEW s \in Subscribers, PrepareDigest(w, s)
    PROVE  OutcomesMove
<1>1. UNCHANGED <<told, retained>>
  BY DEF PrepareDigest
<1>2. CASE Unbatched(s) = {}
  <2>1. UNCHANGED <<batchOf, batches>>
    BY <1>2 DEF PrepareDigest
  <2>. QED BY <1>1, <2>1 DEF OutcomesMove, OutcomeMove, Outcome, EndedAs
<1>3. CASE Unbatched(s) # {}
  <2>1. PICK fit \in 1 .. Cardinality(PostsOf(Candidates(s))) :
          /\ batches' = Append(batches, NewBatch(s, FirstEntries(Candidates(s), fit)))
          /\ batchOf' = Batched(s, FirstEntries(Candidates(s), fit), Len(batches) + 1)
    BY <1>3 DEF PrepareDigest
  <2>. DEFINE news == FirstEntries(Candidates(s), fit)
              b == Len(batches) + 1
  <2>2. news \in SUBSET Unbatched(s) /\ news # {}
    BY <1>3, NewsType
  <2>3. batches' = Append(batches, NewBatch(s, news)) /\ batchOf' = Batched(s, news, b)
    BY <2>1
  <2>. HIDE DEF news
  <2>4. news \in SUBSET Campaigns
    BY <2>2 DEF Unbatched
  <2>5. /\ batches'[b] = NewBatch(s, news)
        /\ \A x \in DOMAIN batches : batches'[x] = batches[x]
    BY <2>2, <2>3, <2>4, NewRow, RowAppended DEF DigestInv, TypeOK
  <2>. HIDE DEF b
  <2>6. ASSUME NEW e \in Entries PROVE Outcome(e)' = Outcome(e)
    <3>1. CASE e \in {s} \X news
      <4>1. batchOf[e] = 0
        BY <2>2, <3>1 DEF Unbatched
      <4>2. batchOf'[e] = b
        BY <2>3, <3>1 DEF Batched
      <4>3. batches'[b].status = "pending"
        BY <2>5 DEF NewBatch
      <4>4. ~EndedAs(e, "sent") /\ ~EndedAs(e, "failed")
        BY <4>1 DEF EndedAs
      <4>5. ~EndedAs(e, "sent")' /\ ~EndedAs(e, "failed")'
        BY <4>2, <4>3 DEF EndedAs
      <4>. QED BY <1>1, <4>4, <4>5 DEF Outcome
    <3>2. CASE e \notin {s} \X news
      <4>1. batchOf'[e] = batchOf[e]
        BY <2>3, <3>2 DEF Batched
      <4>2. batchOf[e] # 0 => batches'[batchOf[e]] = batches[batchOf[e]]
        BY <2>5 DEF DigestInv, TypeOK, ItemsTypeOK
      <4>3. EndedAs(e, "sent")' <=> EndedAs(e, "sent")
        BY <4>1, <4>2 DEF EndedAs
      <4>4. EndedAs(e, "failed")' <=> EndedAs(e, "failed")
        BY <4>1, <4>2 DEF EndedAs
      <4>. QED BY <1>1, <4>3, <4>4 DEF Outcome
    <3>. QED BY <3>1, <3>2
  <2>. QED BY <1>1, <2>6 DEF OutcomesMove, OutcomeMove
<1>. QED BY <1>2, <1>3

LEMMA ClaimMoves ==
    ASSUME DigestInv, NEW w \in Workers, ClaimDigests(w)
    PROVE  OutcomesMove
<1>1. PICK B \in SomeOf(Claimable, ClaimLimit) :
        batches' = [b \in DOMAIN batches |->
               IF b \in B THEN Claimed(batches[b], w) ELSE batches[b]]
  BY DEF ClaimDigests
<1>2. \A b \in B : b \in DOMAIN batches /\ batches[b].status \in Open
  BY DEF SomeOf, Claimable
<1>3. \A b \in B : batches'[b].status = "sending"
  <2>1. \A b \in B : GoodRow(batches[b])
    BY <1>2, GoodRows DEF DigestInv, TypeOK
  <2>. QED BY <1>1, <1>2, <2>1, ClaimedRow
<1>4. \A b \in DOMAIN batches :
               \/ batches'[b].status = batches[b].status
               \/ {batches[b].status, batches'[b].status} \subseteq Open
  BY <1>1, <1>2, <1>3 DEF Open
<1>5. UNCHANGED <<batchOf, told, retained>>
  BY DEF ClaimDigests
<1>. QED BY <1>4, <1>5, OutcomesStay DEF OutcomesMove, OutcomeMove

(* A batch is closed as sent only by a worker whose message Telegram took. *)
LEMMA ReportMoves ==
    ASSUME DigestInv, NEW w \in Workers,
           CompleteDigest(w) \/ RetryDigest(w) \/ FailDigest(w)
    PROVE  OutcomesMove
<1>. DEFINE b == cycle[w].sending
<1>1. /\ UNCHANGED <<batchOf, told, retained>>
      /\ b \in DOMAIN batches
      /\ \/ batches' = batches
         \/ /\ batches[b].status = "sending"
            /\ \E status \in {"sent", "retry", "failed"} :
                       /\ SetBatch(b, Closed(batches[b], status))
                       /\ status = "sent" => cycle[w].answer = "sent"
  BY ReportShape
<1>2. cycle[w].answer = "sent" => EntriesOf(b) \subseteq told
  BY DEF DigestInv, ToldWhatIsSent
<1>. HIDE DEF b
<1>3. CASE batches' = batches
  BY <1>1, <1>3, OutcomesStay DEF OutcomesMove, OutcomeMove
<1>4. ASSUME NEW status \in {"sent", "retry", "failed"},
             batches[b].status = "sending", SetBatch(b, Closed(batches[b], status)),
             status = "sent" => cycle[w].answer = "sent"
      PROVE  OutcomesMove
  <2>1. GoodRow(batches[b])
    BY <1>1, GoodRows DEF DigestInv, TypeOK
  <2>2. /\ batches'[b].status = status
        /\ \A x \in DOMAIN batches \ {b} : batches'[x] = batches[x]
    BY <1>1, <1>4, <2>1, ClosedRow, RowSet DEF DigestInv, TypeOK
  <2>3. ASSUME NEW e \in Entries PROVE OutcomeMove(e)
    <3>1. CASE batchOf[e] = b /\ retained[e] = "kept"
      <4>1. b # 0
        BY <1>1 DEF DigestInv, TypeOK, BatchesTypeOK
      <4>2. e \in EntriesOf(b)
        BY <3>1, <4>1 DEF DigestInv, ItemsMatch
      <4>3. Outcome(e) = "open"
        BY <1>4, <3>1 DEF Outcome, EndedAs
      <4>4. Outcome(e)' = IF status \in {"sent", "failed"} THEN status ELSE "open"
        BY <1>1, <2>2, <3>1, <4>1 DEF Outcome, EndedAs
      <4>. QED BY <1>2, <1>4, <4>2, <4>3, <4>4 DEF OutcomeMove
    <3>2. CASE retained[e] # "kept"
      BY <1>1, <3>2 DEF OutcomeMove, Outcome
    <3>3. CASE batchOf[e] # b
      <4>1. batchOf[e] # 0 => batches'[batchOf[e]] = batches[batchOf[e]]
        BY <2>2, <3>3 DEF DigestInv, TypeOK, ItemsTypeOK
      <4>. QED BY <1>1, <4>1 DEF OutcomeMove, Outcome, EndedAs
    <3>. QED BY <3>1, <3>2, <3>3
  <2>. QED BY <1>1, <2>3 DEF OutcomesMove
<1>. QED BY <1>1, <1>3, <1>4

(* An item goes before its batch, and its outcome is kept.                 *)
LEMMA RetentionMoves ==
    ASSUME DigestInv, NEW s \in Subscribers, NEW n \in 0 .. planned, NEW B,
           RetentionShape(s, n, B)
    PROVE  OutcomesMove
<1>. DEFINE old == items \cap ({s} \X (1 .. n))
<1>1. \A b \in B : b \in DOMAIN batches /\ batches[b].of = s
  BY DEF RetentionShape
<1>2. \A e \in Entries :
        /\ batchOf'[e] = IF e \in old \/ batchOf[e] \in B THEN 0 ELSE batchOf[e]
        /\ retained'[e] = IF e \notin old THEN retained[e]
                          ELSE IF Outcome(e) = "open" THEN "failed" ELSE Outcome(e)
  BY DEF RetentionShape
<1>3. \A b \in DOMAIN batches \ B : batches'[b] = batches[b]
  BY DEF RetentionShape
<1>4. \A e \in Entries : batchOf[e] \in B /\ batchOf[e] # 0 => e \in old
  <2>. SUFFICES ASSUME NEW e \in Entries, batchOf[e] \in B, batchOf[e] # 0 PROVE e \in old
    OBVIOUS
  <2>1. e \in items /\ e \in {s} \X Campaigns
    BY <1>1 DEF DigestInv, TypeOK, ItemsTypeOK, ItemsMatch, EntriesOf, Entries
  <2>2. e = <<s, e[2]>> /\ e[2] \in Campaigns
    BY <2>1
  <2>3. e[2] <= n
    BY <2>2 DEF RetentionShape, OlderThanBatches
  <2>4. e[2] \in 1 .. n
    BY <2>2, <2>3, DigestAssumption DEF Campaigns, DigestInv, TypeOK, ItemsTypeOK
  <2>. QED BY <2>1, <2>2, <2>4
<1>5. told' = told
  BY DEF RetentionShape
<1>. HIDE DEF old
<1>6. ASSUME NEW e \in Entries PROVE OutcomeMove(e)
  <2>0. Outcome(e) \in {"open", "sent", "failed"} /\ (retained[e] # "kept" => Outcome(e) # "open")
    BY OutcomeType DEF DigestInv
  <2>1. CASE e \in old
    <3>1. Outcome(e)' = IF Outcome(e) = "open" THEN "failed" ELSE Outcome(e)
      BY <1>2, <2>0, <2>1 DEF Outcome
    <3>. QED BY <3>1 DEF OutcomeMove
  <2>2. CASE e \notin old
    <3>1. retained'[e] = retained[e] /\ batchOf'[e] = batchOf[e]
      BY <1>2, <1>4, <2>2
    <3>2. batchOf[e] # 0 => batches'[batchOf[e]] = batches[batchOf[e]]
      BY <1>3, <1>4, <2>2 DEF DigestInv, TypeOK, ItemsTypeOK
    <3>. QED BY <3>1, <3>2 DEF OutcomeMove, Outcome, EndedAs
  <2>. QED BY <2>1, <2>2
<1>. QED BY <1>5, <1>6 DEF OutcomesMove

(* A step moves the outcomes, or gives Telegram a message and leaves them. *)
LEMMA NextMoves ==
    ASSUME DigestInv, [Next]_vars
    PROVE  \/ OutcomesMove
           \/ told \subseteq told' /\ \A e \in Entries : Outcome(e)' = Outcome(e)
<1>1. ASSUME UNCHANGED <<batchOf, batches, told, retained>> PROVE OutcomesMove
  BY <1>1 DEF OutcomesMove, OutcomeMove, Outcome, EndedAs
<1>2. CASE PlanNotification
  BY <1>1, <1>2 DEF PlanNotification
<1>3. ASSUME NEW s \in Subscribers, UpdatePreferences(s) \/ StopOrStart(s) \/ HourComes(s)
      PROVE  OutcomesMove
  BY <1>1, <1>3 DEF UpdatePreferences, StopOrStart, HourComes
<1>4. ASSUME NEW s \in Subscribers, ApplyRetention(s) PROVE OutcomesMove
  <2>1. \E n \in 0 .. planned : \E B : RetentionShape(s, n, B)
    BY <1>4 DEF ApplyRetention, RetentionShape
  <2>. QED BY <2>1, RetentionMoves
<1>5. ASSUME NEW w \in Workers,
             ListDue(w) \/ PreparationFails(w) \/ Unauthorized(w) \/ Crash(w)
      PROVE  OutcomesMove
  BY <1>1, <1>5 DEF ListDue, PreparationFails, Unauthorized, Crash
<1>6. ASSUME NEW w \in Workers, SendDigest(w)
      PROVE  told \subseteq told' /\ \A e \in Entries : Outcome(e)' = Outcome(e)
  BY <1>6 DEF SendDigest, Outcome, EndedAs
<1>7. ASSUME NEW b \in DOMAIN batches, LeaseEnds(b) \/ BecomesAvailable(b)
      PROVE  OutcomesMove
  BY <1>7, TimeInv, OutcomesStay DEF OutcomesMove, OutcomeMove
<1>8. CASE UNCHANGED vars
  BY <1>1, <1>8 DEF vars
<1>. QED BY <1>2, <1>3, <1>4, <1>5, <1>6, <1>7, <1>8, PrepareMoves, ClaimMoves, ReportMoves
         DEF Next, WorkerStep

(* The steps of AtLeastOnce for one entry.                                 *)
LEMMA PromiseStep ==
    ASSUME NEW e \in Entries,
           \/ OutcomeMove(e) /\ told' = told
           \/ Outcome(e)' = Outcome(e) /\ told \subseteq told'
    PROVE  UNCHANGED <<Outcome(e), e \in told>> \/ Promise(e)!Next
<1>. DEFINE outcome == [entry \in {e} |-> Outcome(entry)]
            taken == [entry \in {e} |-> entry \in told]
<1>1. CASE Outcome(e)' = Outcome(e)
  <2>1. CASE (e \in told') = (e \in told)
    BY <1>1, <2>1
  <2>2. CASE e \in told' /\ e \notin told
    <3>1. outcome' = outcome /\ taken' = [taken EXCEPT ![e] = TRUE]
      BY <1>1, <2>2
    <3>. QED BY <3>1 DEF Promise!Next, Promise!Take
  <2>. QED BY <1>1, <2>1, <2>2
<1>2. CASE Outcome(e) = "open" /\ Outcome(e)' = "sent" /\ e \in told /\ told' = told
  <2>1. outcome[e] = "open" /\ outcome' = [outcome EXCEPT ![e] = "sent"]
    BY <1>2
  <2>2. taken[e]
    BY <1>2
  <2>3. taken' = taken
    BY <1>2
  <2>. QED BY <2>1, <2>2, <2>3 DEF Promise!Next, Promise!EndSent
<1>3. CASE Outcome(e) = "open" /\ Outcome(e)' = "failed" /\ told' = told
  <2>1. /\ outcome[e] = "open"
        /\ outcome' = [outcome EXCEPT ![e] = "failed"] /\ taken' = taken
    BY <1>3
  <2>. QED BY <2>1 DEF Promise!Next, Promise!EndFailed
<1>. QED BY <1>1, <1>2, <1>3 DEF OutcomeMove

(* Every entry is delivered at least once and ends at most once: workers   *)
(* with old lists, late answers, crashes and retention included.           *)
THEOREM DigestsKeepPromise == Spec => ImplementsPromise
<1>. DEFINE Start == \A e \in Entries : Promise(e)!Init
            Step == \A e \in Entries :
                      \/ UNCHANGED <<Outcome(e), e \in told>>
                      \/ Promise(e)!Next
<1>1. Init => Start
  <2>. SUFFICES ASSUME Init, NEW e \in Entries PROVE Promise(e)!Init
    OBVIOUS
  <2>1. Outcome(e) = "open" /\ e \notin told
    BY DEF Init, Outcome, EndedAs
  <2>2. [entry \in {e} |-> Outcome(entry)] = [j \in {e} |-> "open"]
    <3>1. \A entry \in {e} : Outcome(entry) = "open"
      BY <2>1
    <3>. QED BY <3>1
  <2>3. [entry \in {e} |-> entry \in told] = [j \in {e} |-> FALSE]
    <3>1. \A entry \in {e} : (entry \in told) = FALSE
      BY <2>1
    <3>. QED BY <3>1, Zenon
  <2>. QED BY <2>2, <2>3 DEF Promise!Init
<1>2. DigestInv /\ [Next]_vars => [Step]_vars
  BY NextMoves, PromiseStep DEF OutcomesMove
<1>. HIDE DEF Start, Step
<1>3. Spec => /\ Start
              /\ [][Step]_vars
  BY <1>1, <1>2, InitInv, NextInv, PTL DEF Spec
<1>. QED BY <1>3 DEF ImplementsPromise, Start, Step
=============================================================================
