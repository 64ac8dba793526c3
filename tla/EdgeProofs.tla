------------------------------ MODULE EdgeProofs ------------------------------
(***************************************************************************)
(* Proofs about the way of a webhook: EdgeQueue, from Cloudflare to        *)
(* PostgreSQL, then EdgeInbox, from the table to its end.  They hold for   *)
(* every set of events, reconcilers (equal owner strings included), chats, *)
(* workers, and for every limit and bound.                                 *)
(***************************************************************************)
EXTENDS EdgeQueue, EdgeInbox, FiniteSetTheorems, TLAPS

FaultsTypeOK == faults \in 0 .. MaxFaults

LEMMA FaultType == ASSUME FaultsTypeOK, Fault \/ faults' = faults PROVE FaultsTypeOK'
  BY EventsAssumption DEF FaultsTypeOK, Fault

-----------------------------------------------------------------------------
(***************************************************************************)
(* EdgeQueue.                                                              *)
(***************************************************************************)
(* The conjuncts of QueueTypeOK about D1, and those about the inbox.       *)
EdgeTypeOK ==
    /\ edgeState \in [Events -> {"none", "pending", "publishing", "acknowledged"}]
    /\ edgeOwner \in [Events -> Owners \cup {NoOwner}]
    /\ \A e \in Events : edgeState[e] = "publishing" <=> edgeOwner[e] # NoOwner
    /\ edgeExpired \in SUBSET {e \in Events : edgeState[e] = "publishing"}
    /\ edgeOld \in SUBSET {e \in Events : edgeState[e] = "acknowledged"}
    /\ edition \in [Events -> 0 .. MaxEditions]
    /\ forgotten \in SUBSET Events

ImportTypeOK ==
    /\ inbox \in [Events -> {"absent", "open", "closed"}]
    /\ inboxEdition \in [Events -> 0 .. MaxEditions]
    /\ inboxOld \in SUBSET {e \in Events : inbox[e] = "closed"}
    /\ imported \in SUBSET Events

SyncTypeOK == sync \in [Reconcilers -> Sync]

LEMMA QueueTypeParts ==
    /\ QueueTypeOK => EdgeTypeOK /\ ImportTypeOK /\ SyncTypeOK /\ FaultsTypeOK
    /\ EdgeTypeOK' /\ ImportTypeOK' /\ SyncTypeOK' /\ FaultsTypeOK' => QueueTypeOK'
  BY DEF QueueTypeOK, EdgeTypeOK, ImportTypeOK, SyncTypeOK, FaultsTypeOK

(* What a step leaves alone stays typed.                                   *)
LEMMA EdgeUnchanged == ASSUME EdgeTypeOK, UNCHANGED edgeVars PROVE EdgeTypeOK'
  BY DEF EdgeTypeOK, edgeVars

LEMMA ImportUnchanged == ASSUME ImportTypeOK, UNCHANGED importVars PROVE ImportTypeOK'
  BY DEF ImportTypeOK, importVars

LEMMA SyncUnchanged == ASSUME SyncTypeOK, sync' = sync PROVE SyncTypeOK'
  BY DEF SyncTypeOK

LEMMA SetSyncType ==
    ASSUME SyncTypeOK, NEW r \in Reconcilers, NEW s \in Sync, SetSync(r, s)
    PROVE  SyncTypeOK' /\ \A q \in Reconcilers : sync'[q] = IF q = r THEN s ELSE sync[q]
  BY DEF SyncTypeOK, SetSync

LEMMA AtType ==
    \A phase \in {"idle", "pull", "ack"}, todo, got \in SUBSET Events, missed \in BOOLEAN :
        /\ SyncAt(phase, todo, got, missed) \in Sync
        /\ SyncAt(phase, todo, got, missed).phase = phase
        /\ SyncAt(phase, todo, got, missed).todo = todo
  BY DEF SyncAt, Sync

LEMMA NoSyncType == NoSync \in Sync /\ NoSync.phase = "idle"
  BY DEF NoSync, SyncAt, Sync

LEMMA SyncParts ==
    ASSUME SyncTypeOK, NEW r \in Reconcilers
    PROVE  /\ sync[r] \in Sync
           /\ sync[r].todo \in SUBSET Events
           /\ sync[r].got \in SUBSET Events
           /\ sync[r].missed \in BOOLEAN
<1>1. sync[r] \in Sync
  BY DEF SyncTypeOK
<1>. QED BY <1>1 DEF Sync

LEMMA RetentionType == ASSUME ImportTypeOK, ApplyRetention PROVE ImportTypeOK'
  BY DEF ImportTypeOK, ApplyRetention

-----------------------------------------------------------------------------
(* QueueTypeOK is preserved: one lemma per action that writes more than    *)
(* one component's part.                                                   *)
LEMMA PersistType ==
    ASSUME QueueTypeOK, NEW e \in Events, PersistEvent(e)
    PROVE  QueueTypeOK'
<1>1. EdgeTypeOK'
  <2>1. edition' \in [Events -> 0 .. MaxEditions]
    BY QueueAssumption DEF PersistEvent, QueueTypeOK
  <2>2. /\ edgeState' \in [Events -> {"none", "pending", "publishing", "acknowledged"}]
        /\ edgeOwner' \in [Events -> Owners \cup {NoOwner}]
    BY DEF PersistEvent, QueueTypeOK
  <2>3. \A x \in Events : edgeState'[x] = "publishing" <=> edgeOwner'[x] # NoOwner
    BY DEF PersistEvent, QueueTypeOK
  <2>4. /\ edgeExpired' \in SUBSET {x \in Events : edgeState'[x] = "publishing"}
        /\ edgeOld' \in SUBSET {x \in Events : edgeState'[x] = "acknowledged"}
    BY DEF PersistEvent, QueueTypeOK
  <2>5. forgotten' \in SUBSET Events
    BY DEF PersistEvent, QueueTypeOK
  <2>. QED BY <2>1, <2>2, <2>3, <2>4, <2>5 DEF EdgeTypeOK
<1>2. ImportTypeOK' /\ SyncTypeOK' /\ FaultsTypeOK'
  BY QueueTypeParts, ImportUnchanged, SyncUnchanged, FaultType DEF PersistEvent
<1>. QED BY <1>1, <1>2, QueueTypeParts

LEMMA StartPullType ==
    ASSUME QueueTypeOK, NEW r \in Reconcilers, StartPull(r)
    PROVE  QueueTypeOK' /\ \A q \in Reconcilers :
               sync'[q] = sync[q] \/ sync'[q].phase = "pull"
<1>1. PICK B \in FirstBySequence({e \in Events : Available(e)}, PullLimit) :
         SetSync(r, SyncAt("pull", B, {}, FALSE))
  BY DEF StartPull
<1>2. B \in SUBSET Events
  BY DEF FirstBySequence
<1>3. SyncAt("pull", B, {}, FALSE) \in Sync /\ SyncAt("pull", B, {}, FALSE).phase = "pull"
  <2>1. {} \in SUBSET Events /\ FALSE \in BOOLEAN
    OBVIOUS
  <2>. QED BY <1>2, <2>1 DEF SyncAt, Sync
<1>4. SyncTypeOK' /\ \A q \in Reconcilers : sync'[q] = sync[q] \/ sync'[q].phase = "pull"
  BY <1>1, <1>3, SetSyncType, QueueTypeParts
<1>5. EdgeTypeOK'
  <2>1. \A e \in Events : e \in edgeOld => edgeState[e] = "acknowledged"
    BY DEF QueueTypeOK
  <2>2. \A e \in Events : edgeState'[e] = IF e \in edgeOld THEN "none" ELSE edgeState[e]
    BY DEF StartPull
  <2>3. \A e \in Events : edgeState'[e] = "publishing" <=> edgeState[e] = "publishing"
    BY <2>1, <2>2
  <2>4. edgeState' \in [Events -> {"none", "pending", "publishing", "acknowledged"}]
    BY DEF StartPull, QueueTypeOK
  <2>. QED BY <2>3, <2>4 DEF StartPull, QueueTypeOK, EdgeTypeOK
<1>6. ImportTypeOK' /\ FaultsTypeOK'
  BY QueueTypeParts, ImportUnchanged, FaultType DEF StartPull
<1>. QED BY <1>4, <1>5, <1>6, QueueTypeParts

LEMMA LeaseEventType ==
    ASSUME QueueTypeOK, NEW r \in Reconcilers, NEW e \in Events, LeaseEvent(r, e)
    PROVE  QueueTypeOK' /\ \A q \in Reconcilers :
               sync'[q] = sync[q] \/ sync'[q].phase = "pull"
<1>1. ImportTypeOK' /\ FaultsTypeOK'
  BY QueueTypeParts, ImportUnchanged, FaultType DEF LeaseEvent
<1>2. sync[r].todo \ {e} \in SUBSET Events /\ sync[r].got \in SUBSET Events
  BY QueueTypeParts, SyncParts
<1>3. CASE StillAvailable(e)
  <2>1. /\ edgeState' = [edgeState EXCEPT ![e] = "publishing"]
        /\ edgeOwner' = [edgeOwner EXCEPT ![e] = OwnerOf[r]]
        /\ edgeExpired' = edgeExpired \ {e}
        /\ UNCHANGED <<edgeOld, edition, forgotten>>
        /\ SetSync(r, SyncAt("pull", sync[r].todo \ {e}, sync[r].got \cup {e}, FALSE))
    BY <1>3 DEF LeaseEvent
  <2>2. OwnerOf[r] \in Owners /\ OwnerOf[r] # NoOwner
    BY QueueAssumption
  <2>3. edgeState[e] # "acknowledged"
    BY <1>3 DEF StillAvailable, Available, QueueTypeOK
  <2>4. EdgeTypeOK'
    BY <2>1, <2>2, <2>3 DEF QueueTypeOK, EdgeTypeOK
  <2>5. sync[r].got \cup {e} \in SUBSET Events
    BY <1>2
  <2>6. SyncAt("pull", sync[r].todo \ {e}, sync[r].got \cup {e}, FALSE) \in Sync
        /\ SyncAt("pull", sync[r].todo \ {e}, sync[r].got \cup {e}, FALSE).phase = "pull"
    BY <1>2, <2>5 DEF SyncAt, Sync
  <2>. QED BY <1>1, <2>1, <2>4, <2>6, SetSyncType, QueueTypeParts
<1>4. CASE ~StillAvailable(e)
  <2>1. /\ UNCHANGED edgeVars
        /\ SetSync(r, SyncAt("pull", sync[r].todo \ {e}, sync[r].got, FALSE))
    BY <1>4 DEF LeaseEvent, edgeVars
  <2>2. SyncAt("pull", sync[r].todo \ {e}, sync[r].got, FALSE) \in Sync
        /\ SyncAt("pull", sync[r].todo \ {e}, sync[r].got, FALSE).phase = "pull"
    BY <1>2 DEF SyncAt, Sync
  <2>. QED BY <1>1, <2>1, <2>2, SetSyncType, EdgeUnchanged, QueueTypeParts
<1>. QED BY <1>3, <1>4

LEMMA ImportType ==
    ASSUME QueueTypeOK, NEW r \in Reconcilers, ImportEvents(r)
    PROVE  /\ QueueTypeOK'
           /\ \A q \in Reconcilers :
                sync'[q] = IF q = r THEN SyncAt("ack", sync[r].got, sync[r].got, FALSE)
                                    ELSE sync[q]
<1>1. sync[r].got \in SUBSET Events
  BY QueueTypeParts, SyncParts
<1>2. SyncAt("ack", sync[r].got, sync[r].got, FALSE) \in Sync
  BY <1>1, AtType
<1>3. SetSync(r, SyncAt("ack", sync[r].got, sync[r].got, FALSE))
  BY DEF ImportEvents
<1>4. SyncTypeOK' /\ \A q \in Reconcilers :
                        sync'[q] = IF q = r THEN SyncAt("ack", sync[r].got, sync[r].got, FALSE)
                                   ELSE sync[q]
  BY <1>2, <1>3, SetSyncType, QueueTypeParts
<1>5. EdgeTypeOK' /\ FaultsTypeOK'
  BY QueueTypeParts, EdgeUnchanged, FaultType DEF ImportEvents
<1>6. ImportTypeOK'
  <2>1. \A e \in NewOf(sync[r].got) : inbox[e] = "absent"
    BY DEF NewOf
  <2>2. NewOf(sync[r].got) \in SUBSET Events
    BY <1>1 DEF NewOf
  <2>3. inbox' \in [Events -> {"absent", "open", "closed"}]
    BY DEF ImportEvents, QueueTypeOK
  <2>4. inboxEdition' \in [Events -> 0 .. MaxEditions]
    BY DEF ImportEvents, QueueTypeOK
  <2>5. \A e \in inboxOld : e \in Events /\ inbox'[e] = "closed"
    BY <2>1 DEF ImportEvents, QueueTypeOK
  <2>6. imported' \in SUBSET Events
    BY <2>2 DEF ImportEvents, QueueTypeOK
  <2>. QED BY <2>3, <2>4, <2>5, <2>6 DEF ImportEvents, ImportTypeOK
<1>. QED BY <1>4, <1>5, <1>6, QueueTypeParts

LEMMA AckType ==
    ASSUME QueueTypeOK, NEW r \in Reconcilers, NEW e \in Events, AckEvent(r, e)
    PROVE  /\ QueueTypeOK'
           /\ \A q \in Reconcilers :
                \/ sync'[q] = sync[q]
                \/ q = r /\ sync'[q].todo \subseteq sync[q].todo
<1>. DEFINE held == edgeState[e] = "publishing" /\ edgeOwner[e] = OwnerOf[r]
            missed == sync[r].missed \/ ~(held \/ edgeState[e] = "acknowledged")
            after == SyncAt("ack", sync[r].todo \ {e}, sync[r].got, missed)
<1>1. sync[r].todo \ {e} \in SUBSET Events /\ sync[r].got \in SUBSET Events
  BY QueueTypeParts, SyncParts
<1>2. missed \in BOOLEAN
  BY QueueTypeParts, SyncParts
<1>3. SetSync(r, after)
  BY DEF AckEvent
<1>. HIDE DEF missed
<1>4. after \in Sync /\ after.todo = sync[r].todo \ {e}
  BY <1>1, <1>2, AtType
<1>. HIDE DEF after
<1>5. /\ SyncTypeOK'
      /\ \A q \in Reconcilers : sync'[q] = sync[q] \/ (q = r /\ sync'[q] = after)
  BY <1>3, <1>4, SetSyncType, QueueTypeParts
<1>6. ImportTypeOK' /\ FaultsTypeOK'
  BY QueueTypeParts, ImportUnchanged, FaultType DEF AckEvent
<1>7. EdgeTypeOK'
  <2>1. CASE held
    <3>1. /\ edgeState' = [edgeState EXCEPT ![e] = "acknowledged"]
          /\ edgeOwner' = [edgeOwner EXCEPT ![e] = NoOwner]
          /\ edgeExpired' = edgeExpired \ {e}
          /\ UNCHANGED <<edgeOld, edition, forgotten>>
      BY <2>1 DEF AckEvent, Released
    <3>. QED BY <3>1 DEF QueueTypeOK, EdgeTypeOK
  <2>2. CASE ~held
    <3>1. UNCHANGED edgeVars
      BY <2>2 DEF AckEvent, edgeVars
    <3>. QED BY <3>1, EdgeUnchanged, QueueTypeParts
  <2>. QED BY <2>1, <2>2
<1>. QED BY <1>4, <1>5, <1>6, <1>7, QueueTypeParts

(* The steps that end a cycle.                                             *)
LEMMA EndType ==
    ASSUME QueueTypeOK, NEW r \in Reconcilers,
           \/ NothingPulled(r) \/ ImportConflicts(r) \/ AckAnswered(r) \/ Interrupted(r)
    PROVE  /\ QueueTypeOK' /\ UNCHANGED <<edgeVars, imported>>
           /\ ApplyRetention \/ inbox' = inbox
           /\ \A q \in Reconcilers : sync'[q] = sync[q] \/ sync'[q].phase = "idle"
<1>1. /\ SetSync(r, NoSync) /\ UNCHANGED edgeVars
      /\ ApplyRetention \/ UNCHANGED importVars
      /\ Fault \/ faults' = faults
  BY DEF NothingPulled, ImportConflicts, AckAnswered, Interrupted
<1>2. SyncTypeOK' /\ \A q \in Reconcilers : sync'[q] = sync[q] \/ sync'[q].phase = "idle"
  BY <1>1, NoSyncType, SetSyncType, QueueTypeParts
<1>3. EdgeTypeOK' /\ ImportTypeOK' /\ FaultsTypeOK'
  BY <1>1, QueueTypeParts, EdgeUnchanged, ImportUnchanged, RetentionType, FaultType
<1>4. imported' = imported /\ (ApplyRetention \/ inbox' = inbox)
  BY <1>1 DEF ApplyRetention, importVars
<1>. QED BY <1>1, <1>2, <1>3, <1>4, QueueTypeParts

LEMMA EnvironmentType ==
    ASSUME QueueTypeOK, \/ \E e \in Events : InboxCloses(e) \/ EdgeLeaseExpires(e)
                   \/ MonthPasses
    PROVE  QueueTypeOK'
<1>1. CASE \E e \in Events : InboxCloses(e)
  <2>1. ImportTypeOK'
    BY <1>1 DEF InboxCloses, QueueTypeOK, ImportTypeOK
  <2>. QED BY <1>1, <2>1, QueueTypeParts, EdgeUnchanged, SyncUnchanged, FaultType
              DEF InboxCloses
<1>2. CASE \E e \in Events : EdgeLeaseExpires(e)
  <2>1. EdgeTypeOK' /\ (Fault \/ faults' = faults)
    BY <1>2 DEF EdgeLeaseExpires, QueueTypeOK, EdgeTypeOK
  <2>. QED BY <1>2, <2>1, QueueTypeParts, ImportUnchanged, SyncUnchanged, FaultType
           DEF EdgeLeaseExpires
<1>3. CASE MonthPasses
  <2>1. EdgeTypeOK' /\ ImportTypeOK'
    BY <1>3 DEF MonthPasses, QueueTypeOK, EdgeTypeOK, ImportTypeOK
  <2>. QED BY <1>3, <2>1, QueueTypeParts, SyncUnchanged, FaultType DEF MonthPasses
<1>. QED BY <1>1, <1>2, <1>3

LEMMA QueueStutterType == ASSUME QueueTypeOK, UNCHANGED queueVars PROVE QueueTypeOK'
<1>1. UNCHANGED edgeVars /\ UNCHANGED importVars /\ sync' = sync /\ faults' = faults
  BY DEF queueVars
<1>. QED BY <1>1, QueueTypeParts, EdgeUnchanged, ImportUnchanged, SyncUnchanged, FaultType

LEMMA QueueInitType == ASSUME QueueInit PROVE QueueTypeOK
  BY EventsAssumption, QueueAssumption, NoSyncType DEF QueueInit, QueueTypeOK

LEMMA QueueTypeStep == ASSUME QueueTypeOK, [QueueNext]_queueVars PROVE QueueTypeOK'
<1>1. CASE \E r \in Reconcilers : StartPull(r) \/ SyncStep(r) \/ Interrupted(r)
  BY <1>1, StartPullType, LeaseEventType, ImportType, AckType, EndType DEF SyncStep
<1>2. CASE \/ \E e \in Events : Webhook(e) \/ InboxCloses(e) \/ EdgeLeaseExpires(e)
           \/ MonthPasses
  BY <1>2, PersistType, EnvironmentType DEF Webhook, TelegramWebhook, PayOsWebhook
<1>. QED BY <1>1, <1>2, QueueStutterType DEF QueueNext

(* The types of the D1 table, of the inbox and of the reconcilers.         *)
THEOREM QueueTypeCorrect == QueueSpec => []QueueTypeOK
<1>. QED BY QueueInitType, QueueTypeStep, PTL DEF QueueSpec

-----------------------------------------------------------------------------
(* What is acknowledged, or was, has been imported before.                 *)
ImportedFirst ==
    /\ \A e \in Events : edgeState[e] = "acknowledged" => e \in imported
    /\ \A e \in Events : edition[e] > 0 /\ edgeState[e] = "none" => e \in imported
    /\ \A e \in Events : inbox[e] # "absent" => e \in imported
    /\ \A r \in Reconcilers : sync[r].phase = "ack" => sync[r].todo \subseteq imported

LEMMA ImportedFirstStep ==
    ASSUME QueueTypeOK, ImportedFirst, [QueueNext]_queueVars
    PROVE  ImportedFirst'
<1>1. ASSUME NEW r \in Reconcilers, StartPull(r) PROVE ImportedFirst'
  <2>1. \A q \in Reconcilers : sync'[q] = sync[q] \/ sync'[q].phase = "pull"
    BY <1>1, StartPullType
  <2>2. \A e \in Events : edgeState'[e] = edgeState[e] \/ edgeState[e] = "acknowledged"
    BY <1>1 DEF StartPull, QueueTypeOK
  <2>3. UNCHANGED <<edition, inbox, imported>>
    BY <1>1 DEF StartPull, importVars
  <2>. QED BY <2>1, <2>2, <2>3 DEF ImportedFirst
<1>2. ASSUME NEW r \in Reconcilers, NEW e \in Events, LeaseEvent(r, e) PROVE ImportedFirst'
  <2>1. \A q \in Reconcilers : sync'[q] = sync[q] \/ sync'[q].phase = "pull"
    BY <1>2, LeaseEventType
  <2>2. \A x \in Events : edgeState'[x] = edgeState[x] \/ edgeState'[x] = "publishing"
    BY <1>2 DEF LeaseEvent, QueueTypeOK
  <2>3. UNCHANGED <<edition, inbox, imported>>
    BY <1>2 DEF LeaseEvent, importVars
  <2>. QED BY <2>1, <2>2, <2>3 DEF ImportedFirst
<1>3. ASSUME NEW r \in Reconcilers, ImportEvents(r) PROVE ImportedFirst'
  <2>. DEFINE got == sync[r].got
  <2>1. got \in SUBSET Events
    BY QueueTypeParts, SyncParts
  <2>2. /\ imported' = imported \cup NewOf(got)
        /\ inbox' = [e \in Events |-> IF e \in NewOf(got) THEN "open" ELSE inbox[e]]
        /\ UNCHANGED <<edition, edgeState>>
    BY <1>3 DEF ImportEvents, edgeVars
  <2>3. \A q \in Reconcilers :
          sync'[q] = IF q = r THEN SyncAt("ack", got, got, FALSE) ELSE sync[q]
    BY <1>3, ImportType
  <2>4. SyncAt("ack", got, got, FALSE).todo = got
    BY <2>1, AtType
  <2>5. got \subseteq imported'
    BY <2>1, <2>2 DEF NewOf, ImportedFirst
  <2>6. \A q \in Reconcilers : sync'[q].phase = "ack" => sync'[q].todo \subseteq imported'
    <3>. SUFFICES ASSUME NEW q \in Reconcilers, sync'[q].phase = "ack"
                  PROVE  sync'[q].todo \subseteq imported'
      OBVIOUS
    <3>1. CASE q = r
      BY <2>3, <2>4, <2>5, <3>1
    <3>2. CASE q # r
      BY <2>2, <2>3, <3>2 DEF ImportedFirst
    <3>. QED BY <3>1, <3>2
  <2>7. \A e \in Events : inbox'[e] # "absent" => e \in imported'
    BY <2>2 DEF ImportedFirst
  <2>. QED BY <2>2, <2>6, <2>7 DEF ImportedFirst
<1>4. ASSUME NEW r \in Reconcilers, NEW e \in Events, AckEvent(r, e) PROVE ImportedFirst'
  <2>1. \A q \in Reconcilers : \/ sync'[q] = sync[q]
                               \/ q = r /\ sync'[q].todo \subseteq sync[q].todo
    BY <1>4, AckType
  <2>2. sync[r].phase = "ack" /\ e \in imported
    BY <1>4 DEF AckEvent, ImportedFirst
  <2>3. \A x \in Events : \/ edgeState'[x] = edgeState[x]
                          \/ x = e /\ edgeState'[x] = "acknowledged"
    BY <1>4 DEF AckEvent, QueueTypeOK
  <2>4. UNCHANGED <<edition, inbox, imported>>
    BY <1>4 DEF AckEvent, importVars
  <2>5. \A q \in Reconcilers : sync'[q].phase = "ack" => sync'[q].todo \subseteq imported
    BY <2>1, <2>2 DEF ImportedFirst
  <2>. QED BY <2>2, <2>3, <2>4, <2>5 DEF ImportedFirst
<1>5. ASSUME NEW r \in Reconcilers,
             NothingPulled(r) \/ ImportConflicts(r) \/ AckAnswered(r) \/ Interrupted(r)
      PROVE  ImportedFirst'
  <2>1. /\ UNCHANGED <<edgeVars, imported>>
        /\ ApplyRetention \/ inbox' = inbox
        /\ \A q \in Reconcilers : sync'[q] = sync[q] \/ sync'[q].phase = "idle"
    BY <1>5, EndType
  <2>2. \A e \in Events : inbox'[e] # "absent" => inbox[e] # "absent"
    BY <2>1 DEF ApplyRetention
  <2>. QED BY <2>1, <2>2 DEF ImportedFirst, edgeVars
<1>6. ASSUME NEW e \in Events, Webhook(e) PROVE ImportedFirst'
  BY <1>6 DEF Webhook, TelegramWebhook, PayOsWebhook, PersistEvent, ImportedFirst, importVars,
              QueueTypeOK
<1>7. ASSUME NEW e \in Events, InboxCloses(e) PROVE ImportedFirst'
  BY <1>7 DEF InboxCloses, ImportedFirst, edgeVars, QueueTypeOK
<1>8. CASE (\E e \in Events : EdgeLeaseExpires(e)) \/ MonthPasses
  BY <1>8 DEF EdgeLeaseExpires, MonthPasses, ImportedFirst, importVars
<1>9. CASE UNCHANGED queueVars
  BY <1>9 DEF queueVars, edgeVars, importVars, ImportedFirst
<1>. QED BY <1>1, <1>2, <1>3, <1>4, <1>5, <1>6, <1>7, <1>8, <1>9 DEF QueueNext, SyncStep

LEMMA ImportedFirstInit == ASSUME QueueInit PROVE ImportedFirst
  BY NoSyncType DEF QueueInit, ImportedFirst

(* Nothing is forgotten between D1 and PostgreSQL: an event that D1 took   *)
(* is waiting there or was committed to the inbox, for any number of       *)
(* reconcilers, whatever answers are lost (persist_event, pull_events,     *)
(* import_edge_events, acknowledge_events).                                *)
THEOREM NothingForgotten == QueueSpec => []NoEventLost
<1>1. ASSUME QueueTypeOK, ImportedFirst PROVE NoEventLost
  BY <1>1 DEF QueueTypeOK, ImportedFirst, NoEventLost
<1>. QED BY <1>1, QueueInitType, QueueTypeStep, ImportedFirstInit, ImportedFirstStep, PTL
            DEF QueueSpec

-----------------------------------------------------------------------------
(* An acknowledged event stays acknowledged until D1 purges its row: the   *)
(* conditions of the UPDATEs in pull_events and acknowledge_events.        *)
THEOREM AcknowledgementStands == QueueSpec => AcknowledgedForGood
<1>. DEFINE Stands == \A e \in Events :
              edgeState[e] = "acknowledged" => edgeState'[e] \in {"acknowledged", "none"}
<1>1. ASSUME QueueTypeOK, [QueueNext]_queueVars PROVE Stands
  <2>. SUFFICES ASSUME NEW x \in Events, edgeState[x] = "acknowledged"
                PROVE  edgeState'[x] \in {"acknowledged", "none"}
    OBVIOUS
  <2>1. ~Available(x)
    BY <1>1 DEF Available, QueueTypeOK
  <2>2. ASSUME NEW r \in Reconcilers, NEW e \in Events, LeaseEvent(r, e)
        PROVE  edgeState'[x] = "acknowledged"
    <3>1. CASE StillAvailable(e)
      BY <1>1, <2>1, <2>2, <3>1 DEF LeaseEvent, StillAvailable, QueueTypeOK
    <3>2. CASE ~StillAvailable(e)
      BY <2>2, <3>2 DEF LeaseEvent
    <3>. QED BY <3>1, <3>2
  <2>3. ASSUME NEW r \in Reconcilers, StartPull(r)
        PROVE  edgeState'[x] \in {"acknowledged", "none"}
    BY <2>3 DEF StartPull
  <2>4. ASSUME NEW r \in Reconcilers, NEW e \in Events, AckEvent(r, e)
        PROVE  edgeState'[x] = "acknowledged"
    BY <1>1, <2>4 DEF AckEvent, QueueTypeOK
  <2>5. ASSUME NEW e \in Events, Webhook(e)
        PROVE  edgeState'[x] = "acknowledged"
    BY <1>1, <2>5 DEF Webhook, TelegramWebhook, PayOsWebhook, PersistEvent, QueueTypeOK
  <2>6. ASSUME NEW r \in Reconcilers,
               \/ ImportEvents(r) \/ NothingPulled(r) \/ ImportConflicts(r)
               \/ AckAnswered(r) \/ Interrupted(r)
        PROVE  edgeState' = edgeState
    BY <2>6 DEF ImportEvents, NothingPulled, ImportConflicts, AckAnswered, Interrupted, edgeVars
  <2>7. ASSUME NEW e \in Events, InboxCloses(e) \/ EdgeLeaseExpires(e)
        PROVE  edgeState' = edgeState
    BY <2>7 DEF InboxCloses, EdgeLeaseExpires, edgeVars
  <2>8. ASSUME MonthPasses \/ UNCHANGED queueVars PROVE edgeState' = edgeState
    BY <2>8 DEF MonthPasses, queueVars, edgeVars
  <2>. QED BY <1>1, <2>2, <2>3, <2>4, <2>5, <2>6, <2>7, <2>8 DEF QueueNext, SyncStep
<1>2. QueueSpec => []QueueTypeOK
  BY QueueTypeCorrect
<1>3. ASSUME QueueTypeOK, [QueueNext]_queueVars PROVE [Stands]_queueVars
  BY <1>1, <1>3
<1>. HIDE DEF Stands
<1>4. QueueSpec => [][Stands]_queueVars
  BY <1>2, <1>3, PTL DEF QueueSpec
<1>. QED BY <1>4 DEF AcknowledgedForGood, Stands

-----------------------------------------------------------------------------
(* Who writes the inbox, as far as EdgeQueue goes.                         *)
LEMMA InboxWriters ==
    ASSUME [QueueNext]_queueVars
    PROVE  \/ inbox' = inbox
           \/ ApplyRetention
           \/ \E r \in Reconcilers : ImportEvents(r)
           \/ \E e \in Events : InboxCloses(e)
<1>1. ASSUME NEW r \in Reconcilers, NEW e \in Events,
             LeaseEvent(r, e) \/ AckEvent(r, e)
      PROVE  inbox' = inbox
  BY <1>1 DEF LeaseEvent, AckEvent, importVars
<1>2. ASSUME NEW r \in Reconcilers,
             NothingPulled(r) \/ ImportConflicts(r) \/ AckAnswered(r) \/ Interrupted(r)
      PROVE  inbox' = inbox \/ ApplyRetention
  BY <1>2 DEF NothingPulled, ImportConflicts, AckAnswered, Interrupted, importVars
<1>3. ASSUME \/ \E e \in Events : Webhook(e) \/ EdgeLeaseExpires(e)
             \/ MonthPasses \/ UNCHANGED queueVars
      PROVE  inbox' = inbox
  BY <1>3 DEF Webhook, TelegramWebhook, PayOsWebhook, PersistEvent, EdgeLeaseExpires,
              MonthPasses, importVars, queueVars
<1>4. ASSUME NEW r \in Reconcilers, StartPull(r)
      PROVE  inbox' = inbox
  BY <1>4 DEF StartPull, importVars
<1>. QED BY <1>1, <1>2, <1>3, <1>4 DEF QueueNext, SyncStep

(* The reconciler and D1 keep the table: import_edge_events inserts what   *)
(* has no row, apply_edge_inbox_retention deletes what is closed.  With    *)
(* WorkersKeepIt below, each side does what the other's model supposes.    *)
THEOREM ReconcilerKeepsIt == QueueSpec => ReconcilerKeepsTable
<1>1. QueueInit => ImportTable!Init
  BY DEF QueueInit, ImportTable!Init
<1>2. ASSUME QueueTypeOK, [QueueNext]_queueVars PROVE [ImportTable!Next]_inbox
  <2>0. inbox \in [Events -> {"absent", "open", "closed"}]
    BY <1>2 DEF QueueTypeOK
  <2>1. CASE ApplyRetention
    <3>1. ImportTable!Delete(inboxOld)
      BY <1>2, <2>1 DEF ApplyRetention, QueueTypeOK, ImportTable!Delete, ImportTable!Rows,
                        ImportTable!SetRows
    <3>. QED BY <1>2, <3>1 DEF ImportTable!Next, QueueTypeOK
  <2>2. ASSUME NEW r \in Reconcilers, ImportEvents(r) PROVE ImportTable!Next
    <3>1. sync[r].got \subseteq Events
      BY <1>2, QueueTypeParts, SyncParts
    <3>2. NewOf(sync[r].got) \in SUBSET Events
      BY <3>1 DEF NewOf
    <3>3. ImportTable!Insert(NewOf(sync[r].got))
      BY <2>2, <3>2 DEF ImportEvents, NewOf, ImportTable!Insert, ImportTable!Rows,
                        ImportTable!SetRows
    <3>. QED BY <3>2, <3>3 DEF ImportTable!Next
  <2>3. ASSUME NEW e \in Events, InboxCloses(e) PROVE ImportTable!Next
    <3>1. ImportTable!Close(e)
      BY <2>0, <2>3 DEF InboxCloses, ImportTable!Close, ImportTable!Rows, ImportTable!SetRows
    <3>. QED BY <3>1 DEF ImportTable!Next
  <2>. QED BY <1>2, <2>1, <2>2, <2>3, InboxWriters
<1>. QED BY <1>1, <1>2, QueueTypeCorrect, PTL DEF QueueSpec, ReconcilerKeepsTable, ImportTable!Spec

-----------------------------------------------------------------------------
(***************************************************************************)
(* EdgeInbox.                                                              *)
(***************************************************************************)
(* The conjuncts of InboxTypeOK, by the groups of variables.               *)
RowTypeOK ==
    /\ inboxState \in [Events -> {"absent", "open", "processed", "dead"}]
    /\ attempts \in [Events -> Nat]
    /\ due \in SUBSET OpenEvents
    /\ older \in [Events -> SUBSET Events]
    /\ deletions \in 0 .. MaxDeletions

HistoryTypeOK ==
    /\ begun \in SUBSET Updates
    /\ begunFirst \in [Updates -> SUBSET Updates]
    /\ answered \in SUBSET Updates

LeaseTypeOK == holder \in Workers \cup {NoWorker}
WorkTypeOK == work \in [Workers -> Work]

DonationTypeOK ==
    /\ intent \in [Orders -> {"none", "creating", "pending", "paid", "failed"}]
    /\ transactions \in SUBSET Payments
    /\ counted \in [Payments -> Nat]

LEMMA InboxTypeParts ==
    /\ InboxTypeOK => /\ RowTypeOK /\ HistoryTypeOK /\ LeaseTypeOK /\ WorkTypeOK
                 /\ FaultsTypeOK /\ DonationTypeOK
    /\ /\ RowTypeOK' /\ HistoryTypeOK' /\ LeaseTypeOK' /\ WorkTypeOK'
       /\ FaultsTypeOK' /\ DonationTypeOK'
       => InboxTypeOK'
  BY DEF InboxTypeOK, RowTypeOK, HistoryTypeOK, LeaseTypeOK, WorkTypeOK, FaultsTypeOK,
         DonationTypeOK

LEMMA RowUnchanged == ASSUME RowTypeOK, UNCHANGED rowVars PROVE RowTypeOK'
  BY DEF RowTypeOK, rowVars, OpenEvents

LEMMA HistoryUnchanged ==
    ASSUME HistoryTypeOK, UNCHANGED <<begun, begunFirst, answered>> PROVE HistoryTypeOK'
  BY DEF HistoryTypeOK

LEMMA HolderType ==
    ASSUME LeaseTypeOK, holder' \in Workers \cup {NoWorker, holder} PROVE LeaseTypeOK'
  BY DEF LeaseTypeOK

LEMMA WorkUnchanged == ASSUME WorkTypeOK, work' = work PROVE WorkTypeOK'
  BY DEF WorkTypeOK

LEMMA DonationUnchanged == ASSUME DonationTypeOK, UNCHANGED donationVars PROVE DonationTypeOK'
  BY DEF DonationTypeOK, donationVars

LEMMA SetWorkType ==
    ASSUME WorkTypeOK, NEW w \in Workers, NEW s \in Work, SetWork(w, s)
    PROVE  WorkTypeOK' /\ \A v \in Workers : work'[v] = IF v = w THEN s ELSE work[v]
  BY DEF WorkTypeOK, SetWork

LEMMA NoWorkType == NoWork \in Work /\ NoWork.phase = "idle"
  BY DEF NoWork, At, Work

LEMMA WorkParts ==
    ASSUME WorkTypeOK, NEW w \in Workers
    PROVE  work[w].list \in SUBSET Payments /\ work[w].event \in SUBSET Events
<1>1. work[w] \in Work
  BY DEF WorkTypeOK
<1>. QED BY <1>1 DEF Work

(* A batch is a part of what the query finds.                              *)
LEMMA BatchIsPending ==
    ASSUME NEW T, NEW limit, NEW B \in Batches(T, limit)
    PROVE  B \in SUBSET Pending(T) /\ B \in SUBSET T
<1>1. B \in SUBSET Pending(T)
  BY DEF Batches, Oldest
<1>. QED BY <1>1 DEF Pending

-----------------------------------------------------------------------------
(* What an event in the hands of a worker is, and what has happened to it. *)
WorkOK(s) ==
    /\ s.phase = "confirm" => s.event \subseteq transactions
    /\ s.phase = "reply" => s.event \subseteq Updates
    /\ s.phase = "replied" => s.event \subseteq answered

WorkInv == \A w \in Workers : WorkOK(work[w])

(* InboxTypeOK and WorkInv go together through each action.                *)
InboxInv == InboxTypeOK /\ WorkInv

LEMMA WorkInvUnchanged ==
    ASSUME WorkInv, UNCHANGED <<work, transactions, answered>>
    PROVE  WorkInv'
  BY DEF WorkInv, WorkOK

(* A step in which the worker w goes on or stops, and which leaves alone   *)
(* what WorkOK looks at.                                                   *)
LEMMA MoveWork ==
    ASSUME InboxInv, NEW w \in Workers, NEW s \in Work, SetWork(w, s), WorkOK(s),
           UNCHANGED <<transactions, answered>>
    PROVE  WorkTypeOK' /\ WorkInv'
<1>1. WorkTypeOK' /\ \A v \in Workers : work'[v] = IF v = w THEN s ELSE work[v]
  BY SetWorkType, InboxTypeParts DEF InboxInv
<1>. QED BY <1>1 DEF InboxInv, WorkInv, WorkOK

LEMMA StopWork ==
    ASSUME InboxInv, NEW w \in Workers, SetWork(w, NoWork), UNCHANGED <<transactions, answered>>
    PROVE  WorkTypeOK' /\ WorkInv'
  BY NoWorkType, MoveWork DEF WorkOK

-----------------------------------------------------------------------------
LEMMA IntentStep ==
    ASSUME InboxInv, NEW o \in Orders,
           CreateDonationIntent(o) \/ MarkIntentPending(o) \/ MarkIntentFailed(o)
    PROVE  InboxInv'
<1>1. PICK to \in {"creating", "pending", "failed"} :
         /\ intent' = [intent EXCEPT ![o] = to]
         /\ UNCHANGED <<rowVars, workerVars, transactions, counted, faults>>
  BY DEF CreateDonationIntent, MarkIntentPending, MarkIntentFailed, MoveIntent
<1>2. DonationTypeOK'
  BY <1>1, InboxTypeParts DEF InboxInv, DonationTypeOK
<1>3. HistoryTypeOK' /\ LeaseTypeOK' /\ WorkTypeOK' /\ RowTypeOK' /\ FaultsTypeOK'
  BY <1>1, InboxTypeParts, HistoryUnchanged, HolderType, WorkUnchanged, RowUnchanged, FaultType
     DEF InboxInv, workerVars
<1>4. WorkInv'
  BY <1>1, WorkInvUnchanged DEF InboxInv, workerVars
<1>. QED BY <1>2, <1>3, <1>4, InboxTypeParts DEF InboxInv

LEMMA ImportStep ==
    ASSUME InboxInv, NEW B \in SUBSET Events, EventsArrive(B)
    PROVE  InboxInv'
<1>1. RowTypeOK'
  <2>1. /\ inboxState' \in [Events -> {"absent", "open", "processed", "dead"}]
        /\ attempts' \in [Events -> Nat]
        /\ deletions' \in 0 .. MaxDeletions
    BY DEF EventsArrive, InboxInv, InboxTypeOK
  <2>2. due' \in SUBSET OpenEvents'
    BY DEF EventsArrive, InboxInv, InboxTypeOK, OpenEvents
  <2>3. older' \in [Events -> SUBSET Events]
    BY DEF EventsArrive, InboxInv, InboxTypeOK, OpenEvents
  <2>. QED BY <2>1, <2>2, <2>3 DEF RowTypeOK
<1>2. HistoryTypeOK'
  BY DEF EventsArrive, InboxInv, InboxTypeOK, HistoryTypeOK
<1>3. LeaseTypeOK' /\ WorkTypeOK' /\ FaultsTypeOK' /\ DonationTypeOK'
  BY InboxTypeParts, HolderType, WorkUnchanged, FaultType, DonationUnchanged
     DEF EventsArrive, InboxInv
<1>4. WorkInv'
  BY WorkInvUnchanged DEF EventsArrive, InboxInv, donationVars
<1>. QED BY <1>1, <1>2, <1>3, <1>4, InboxTypeParts DEF InboxInv

LEMMA DeleteStep ==
    ASSUME InboxInv, NEW e \in Events, DeleteOld(e)
    PROVE  InboxInv'
<1>1. RowTypeOK'
  <2>1. inboxState' \in [Events -> {"absent", "open", "processed", "dead"}]
    BY DEF DeleteOld, InboxInv, InboxTypeOK
  <2>2. deletions' \in 0 .. MaxDeletions
    BY InboxAssumption DEF DeleteOld, InboxInv, InboxTypeOK
  <2>3. due' \in SUBSET OpenEvents'
    BY DEF DeleteOld, InboxInv, InboxTypeOK, OpenEvents, Closed
  <2>. QED BY <2>1, <2>2, <2>3 DEF DeleteOld, InboxInv, InboxTypeOK, RowTypeOK
<1>2. /\ HistoryTypeOK' /\ LeaseTypeOK' /\ WorkTypeOK' /\ FaultsTypeOK' /\ DonationTypeOK'
  BY InboxTypeParts, HistoryUnchanged, HolderType, WorkUnchanged, FaultType, DonationUnchanged
     DEF DeleteOld, InboxInv, workerVars
<1>3. WorkInv'
  BY WorkInvUnchanged DEF DeleteOld, InboxInv, workerVars, donationVars
<1>. QED BY <1>1, <1>2, <1>3, InboxTypeParts DEF InboxInv

LEMMA StartStep ==
    ASSUME InboxInv, NEW w \in Workers, StartCycle(w)
    PROVE  InboxInv'
<1>1. PICK B \in Batches(Payments, PaymentLimit) : SetWork(w, At("payments", B, {}))
  BY DEF StartCycle
<1>2. At("payments", B, {}) \in Work /\ WorkOK(At("payments", B, {}))
  BY <1>1, BatchIsPending DEF At, Work, WorkOK
<1>3. WorkTypeOK' /\ WorkInv'
  BY <1>1, <1>2, MoveWork DEF StartCycle, donationVars
<1>4. RowTypeOK' /\ HistoryTypeOK' /\ LeaseTypeOK' /\ FaultsTypeOK' /\ DonationTypeOK'
  BY InboxTypeParts, RowUnchanged, HistoryUnchanged, HolderType, FaultType, DonationUnchanged
     DEF StartCycle, InboxInv
<1>. QED BY <1>3, <1>4, InboxTypeParts DEF InboxInv

LEMMA RecordStep ==
    ASSUME InboxInv, NEW w \in Workers, NEW p \in Payments, RecordPayment(w, p)
    PROVE  InboxInv'
<1>1. work[w].list \ {p} \in SUBSET Payments /\ {p} \in SUBSET Events
  BY InboxTypeParts, WorkParts DEF InboxInv, Events
<1>. DEFINE s == At("confirm", work[w].list \ {p}, {p})
<1>2. s \in Work /\ s.phase = "confirm" /\ s.event = {p}
  BY <1>1 DEF At, Work
<1>3. SetWork(w, s) /\ transactions' = transactions \cup {p} /\ answered' = answered
  BY DEF RecordPayment
<1>. HIDE DEF s
<1>4. WorkTypeOK' /\ \A v \in Workers : work'[v] = IF v = w THEN s ELSE work[v]
  BY <1>2, <1>3, InboxTypeParts, SetWorkType DEF InboxInv
<1>5. WorkInv'
  BY <1>2, <1>3, <1>4 DEF InboxInv, WorkInv, WorkOK
<1>6. DonationTypeOK'
  <2>1. counted' \in [Payments -> Nat]
    BY DEF RecordPayment, CountsAs, InboxInv, InboxTypeOK
  <2>2. intent' \in [Orders -> {"none", "creating", "pending", "paid", "failed"}]
    BY DEF RecordPayment, InboxInv, InboxTypeOK
  <2>. QED BY <1>3, <2>1, <2>2 DEF InboxInv, InboxTypeOK, DonationTypeOK
<1>7. RowTypeOK' /\ HistoryTypeOK' /\ LeaseTypeOK' /\ FaultsTypeOK'
  BY InboxTypeParts, RowUnchanged, HistoryUnchanged, HolderType, FaultType
     DEF RecordPayment, InboxInv
<1>. QED BY <1>4, <1>5, <1>6, <1>7, InboxTypeParts DEF InboxInv

LEMMA ReadStep ==
    ASSUME InboxInv, NEW w \in Workers, ReadUpdate(w)
    PROVE  InboxInv'
<1>1. PICK B \in Batches(Updates, 1) :
         /\ SetWork(w, IF B = {} THEN NoWork ELSE At("reply", {}, B))
         /\ begun' = begun \cup B
  BY DEF ReadUpdate
<1>2. B \in SUBSET Updates
  BY <1>1, BatchIsPending
<1>3. At("reply", {}, B) \in Work /\ WorkOK(At("reply", {}, B)) /\ WorkOK(NoWork)
  BY <1>2, NoWorkType DEF At, Work, WorkOK, Events
<1>4. WorkTypeOK' /\ WorkInv'
  BY <1>1, <1>3, NoWorkType, MoveWork DEF ReadUpdate, donationVars
<1>5. HistoryTypeOK'
  BY <1>1, <1>2 DEF ReadUpdate, InboxInv, InboxTypeOK, HistoryTypeOK
<1>6. RowTypeOK' /\ LeaseTypeOK' /\ FaultsTypeOK' /\ DonationTypeOK'
  BY InboxTypeParts, RowUnchanged, HolderType, FaultType, DonationUnchanged
     DEF ReadUpdate, InboxInv
<1>. QED BY <1>4, <1>5, <1>6, InboxTypeParts DEF InboxInv

LEMMA ReplyStep ==
    ASSUME InboxInv, NEW w \in Workers, ReplySent(w)
    PROVE  InboxInv'
<1>. DEFINE s == At("replied", {}, work[w].event)
<1>1. work[w].event \in SUBSET Updates /\ work[w].event \in SUBSET Events
  BY DEF ReplySent, InboxInv, WorkInv, WorkOK, Events
<1>2. s \in Work /\ s.phase = "replied" /\ s.event = work[w].event
  BY <1>1 DEF At, Work
<1>3. /\ SetWork(w, s) /\ UNCHANGED transactions
      /\ answered' = answered \cup work[w].event
  BY DEF ReplySent, donationVars
<1>. HIDE DEF s
<1>4. WorkTypeOK' /\ \A v \in Workers : work'[v] = IF v = w THEN s ELSE work[v]
  BY <1>2, <1>3, InboxTypeParts, SetWorkType DEF InboxInv
<1>5. WorkInv'
  BY <1>2, <1>3, <1>4 DEF InboxInv, WorkInv, WorkOK
<1>6. HistoryTypeOK'
  BY <1>1, <1>3 DEF ReplySent, InboxInv, InboxTypeOK, HistoryTypeOK
<1>7. RowTypeOK' /\ LeaseTypeOK' /\ FaultsTypeOK' /\ DonationTypeOK'
  BY InboxTypeParts, RowUnchanged, HolderType, FaultType, DonationUnchanged
     DEF ReplySent, InboxInv
<1>. QED BY <1>4, <1>5, <1>6, <1>7, InboxTypeParts DEF InboxInv

-----------------------------------------------------------------------------
(* An event may end as "processed" or "dead" only in these cases.          *)
MayEnd(e, state) ==
    \/ state = "processed" /\ (e \in answered \/ e \in Payments)
    \/ state = "dead" /\ (e \in transactions \/ e \in Malformed \/ e \in Updates)

(* The row of the event e after a worker has settled it.                   *)
LEMMA SettledRow ==
    ASSUME InboxInv, NEW w \in Workers, NEW e \in Events, SettleEvent(w, e)
    PROVE  /\ inboxState[e] = "open"
           /\ attempts' \in [Events -> Nat]
           /\ Fault \/ faults' = faults
           /\ \/ \E state \in {"processed", "dead"} : Settle(e, state) /\ MayEnd(e, state)
              \/ inboxState' = inboxState /\ due' = due \ {e} /\ older' = older
<1>1. /\ work[w].list \subseteq Payments
      /\ work[w].phase = "confirm" => work[w].event \subseteq transactions
      /\ work[w].phase = "reply" => work[w].event \subseteq Updates
      /\ work[w].phase = "replied" => work[w].event \subseteq answered
  BY InboxTypeParts, WorkParts DEF InboxInv, WorkInv, WorkOK
<1>2. /\ transactions \subseteq Payments /\ answered \subseteq Updates
      /\ attempts \in [Events -> Nat]
  BY DEF InboxInv, InboxTypeOK
<1>3. CASE CompleteEvent(w, e)
  <2>1. MayEnd(e, "processed")
    BY <1>1, <1>2, <1>3 DEF CompleteEvent, Sent, AtWork, MayEnd
  <2>. QED BY <1>2, <1>3, <2>1 DEF CompleteEvent, StillPending
<1>4. CASE RejectEvent(w, e)
  <2>1. MayEnd(e, "processed")
    BY <1>1, <1>4 DEF RejectEvent, Refused, DatabaseFails, Listed, MayEnd
  <2>2. Fault \/ faults' = faults
    BY <1>4 DEF RejectEvent, DatabaseFails
  <2>. QED BY <1>2, <1>4, <2>1, <2>2 DEF RejectEvent, StillPending
<1>5. ASSUME NEW limit, FailEvent(e, limit), MayEnd(e, "dead")
      PROVE  /\ inboxState[e] = "open" /\ attempts' \in [Events -> Nat] /\ faults' = faults
             /\ \/ Settle(e, "dead")
                \/ inboxState' = inboxState /\ due' = due \ {e} /\ older' = older
  <2>1. /\ inboxState[e] = "open" /\ faults' = faults
        /\ attempts' = [attempts EXCEPT ![e] = @ + 1]
        /\ \/ Settle(e, "dead")
           \/ /\ due' = due \ {e} /\ older' = older
              /\ inboxState' = [inboxState EXCEPT ![e] = "open"]
    BY <1>5 DEF FailEvent, StillPending, Counted
  <2>2. [inboxState EXCEPT ![e] = "open"] = inboxState
    BY <2>1 DEF InboxInv, InboxTypeOK
  <2>. QED BY <1>2, <2>1, <2>2
<1>6. CASE Unhandled(w, e) /\ FailEvent(e, ParseLimit)
  <2>1. MayEnd(e, "dead")
    BY <1>1, <1>2, <1>6 DEF Unhandled, AtWork, MayEnd
  <2>. QED BY <1>5, <1>6, <2>1
<1>7. CASE Unsent(w, e) /\ FailEvent(e, SendLimit)
  <2>1. MayEnd(e, "dead")
    BY <1>1, <1>7 DEF Unsent, AtWork, MayEnd
  <2>. QED BY <1>5, <1>7, <2>1
<1>. QED BY <1>3, <1>4, <1>6, <1>7 DEF SettleEvent

LEMMA SettleStep ==
    ASSUME InboxInv, NEW w \in Workers, NEW e \in Events, SettleEvent(w, e)
    PROVE  InboxInv'
<1>1. /\ UNCHANGED <<deletions, holder, begun, begunFirst, answered, donationVars>>
      /\ Continue(w, e)
  BY DEF SettleEvent
<1>2. WorkTypeOK' /\ WorkInv'
  <2>1. work[w].list \ {e} \in SUBSET Payments
    BY InboxTypeParts, WorkParts DEF InboxInv
  <2>2. At("payments", work[w].list \ {e}, {}) \in Work
        /\ WorkOK(At("payments", work[w].list \ {e}, {})) /\ WorkOK(NoWork)
    BY <2>1, NoWorkType DEF At, Work, WorkOK
  <2>. QED BY <1>1, <2>2, NoWorkType, MoveWork DEF Continue, donationVars
<1>3. RowTypeOK'
  <2>1. CASE inboxState' = inboxState /\ due' = due \ {e} /\ older' = older
    BY <1>1, <2>1, SettledRow DEF InboxInv, InboxTypeOK, RowTypeOK, OpenEvents
  <2>2. ASSUME NEW state \in {"processed", "dead"}, Settle(e, state)
        PROVE  RowTypeOK'
    <3>1. older' = [y \in Events |-> IF y = e THEN {} ELSE older[y] \ {e}]
      BY <2>2 DEF Settle, Leave, InboxInv, InboxTypeOK
    <3>2. older' \in [Events -> SUBSET Events]
      BY <3>1 DEF InboxInv, InboxTypeOK
    <3>3. /\ inboxState' \in [Events -> {"absent", "open", "processed", "dead"}]
          /\ due' \in SUBSET OpenEvents'
      BY <2>2 DEF Settle, InboxInv, InboxTypeOK, OpenEvents
    <3>. QED BY <1>1, <3>2, <3>3, SettledRow DEF InboxInv, InboxTypeOK, RowTypeOK
  <2>. QED BY <2>1, <2>2, SettledRow
<1>4. HistoryTypeOK' /\ LeaseTypeOK' /\ FaultsTypeOK' /\ DonationTypeOK'
  BY <1>1, SettledRow, InboxTypeParts, HistoryUnchanged, HolderType, FaultType, DonationUnchanged
     DEF InboxInv
<1>. QED BY <1>2, <1>3, <1>4, InboxTypeParts DEF InboxInv

LEMMA StopStep ==
    ASSUME InboxInv, NEW w \in Workers,
           WorkerDies(w) \/ \E e \in Events : NotPending(w, e)
    PROVE  InboxInv'
<1>1. /\ SetWork(w, NoWork) /\ (Fault \/ faults' = faults)
      /\ holder' \in {holder, NoWorker}
      /\ UNCHANGED <<rowVars, begun, begunFirst, answered, donationVars>>
  BY DEF WorkerDies, NotPending
<1>2. WorkTypeOK' /\ WorkInv'
  BY <1>1, StopWork DEF donationVars
<1>3. /\ RowTypeOK' /\ HistoryTypeOK' /\ LeaseTypeOK' /\ FaultsTypeOK' /\ DonationTypeOK'
  BY <1>1, InboxTypeParts, RowUnchanged, HistoryUnchanged, HolderType, FaultType, DonationUnchanged
     DEF InboxInv
<1>. QED BY <1>2, <1>3, InboxTypeParts DEF InboxInv

LEMMA TimeStep ==
    ASSUME InboxInv, WorkerLeaseEnds \/ \E e \in Events : EventBecomesDue(e)
    PROVE  InboxInv'
<1>1. CASE WorkerLeaseEnds
  <2>1. WorkInv'
    BY <1>1, WorkInvUnchanged DEF WorkerLeaseEnds, InboxInv, donationVars
  <2>2. Fault \/ faults' = faults
    BY <1>1 DEF WorkerLeaseEnds
  <2>. QED BY <1>1, <2>1, <2>2, InboxTypeParts, RowUnchanged, HistoryUnchanged, HolderType,
              WorkUnchanged, FaultType, DonationUnchanged DEF WorkerLeaseEnds, InboxInv
<1>2. CASE \E e \in Events : EventBecomesDue(e)
  <2>1. RowTypeOK'
    BY <1>2 DEF EventBecomesDue, InboxInv, InboxTypeOK, RowTypeOK, OpenEvents
  <2>2. WorkInv'
    BY <1>2, WorkInvUnchanged DEF EventBecomesDue, InboxInv, workerVars, donationVars
  <2>. QED BY <1>2, <2>1, <2>2, InboxTypeParts, HistoryUnchanged, HolderType, WorkUnchanged,
              FaultType, DonationUnchanged DEF EventBecomesDue, InboxInv, workerVars
<1>. QED BY <1>1, <1>2

LEMMA InboxStutterStep == ASSUME InboxInv, UNCHANGED inboxVars PROVE InboxInv'
<1>1. /\ UNCHANGED rowVars /\ UNCHANGED <<begun, begunFirst, answered>>
      /\ UNCHANGED donationVars /\ work' = work /\ holder' = holder /\ faults' = faults
  BY DEF inboxVars, workerVars
<1>. QED BY <1>1, InboxTypeParts, RowUnchanged, HistoryUnchanged, HolderType, WorkUnchanged,
            FaultType, DonationUnchanged, WorkInvUnchanged DEF InboxInv, donationVars

LEMMA InboxInvInit == ASSUME InboxInit PROVE InboxInv
<1>1. InboxTypeOK
  BY EventsAssumption, InboxAssumption, NoWorkType DEF InboxInit, InboxTypeOK, OpenEvents
<1>2. WorkInv
  BY NoWorkType DEF InboxInit, WorkInv, WorkOK
<1>. QED BY <1>1, <1>2 DEF InboxInv

LEMMA InboxInvStep == ASSUME InboxInv, [InboxNext]_inboxVars PROVE InboxInv'
<1>1. CASE \E w \in Workers : StartCycle(w) \/ WorkerStep(w) \/ WorkerDies(w)
  BY <1>1, StartStep, RecordStep, ReadStep, ReplyStep, SettleStep, StopStep DEF WorkerStep
<1>2. CASE \E o \in Orders : \/ CreateDonationIntent(o) \/ MarkIntentPending(o)
                            \/ MarkIntentFailed(o)
  BY <1>2, IntentStep
<1>3. CASE \/ \E B \in (SUBSET Events) \ {{}} : EventsArrive(B)
           \/ \E e \in Events : DeleteOld(e) \/ EventBecomesDue(e)
           \/ WorkerLeaseEnds
  BY <1>3, ImportStep, DeleteStep, TimeStep
<1>. QED BY <1>1, <1>2, <1>3, InboxStutterStep DEF InboxNext

LEMMA InboxInvariance == InboxSpec => []InboxInv
  BY InboxInvInit, InboxInvStep, PTL DEF InboxSpec

(* The types of the inbox, of its readers and of the donations.            *)
THEOREM InboxTypeCorrect == InboxSpec => []InboxTypeOK
<1>1. InboxInv => InboxTypeOK
  BY DEF InboxInv
<1>. QED BY <1>1, InboxInvariance, PTL

-----------------------------------------------------------------------------
(* Who writes the rows' states.                                            *)
LEMMA TableWriters ==
    ASSUME [InboxNext]_inboxVars
    PROVE  \/ inboxState' = inboxState
           \/ \E B \in SUBSET Events : EventsArrive(B)
           \/ \E e \in Events : DeleteOld(e)
           \/ \E w \in Workers, e \in Events : SettleEvent(w, e)
<1>1. ASSUME NEW w \in Workers, WorkerStep(w), \A e \in Events : ~SettleEvent(w, e)
      PROVE  inboxState' = inboxState
  BY <1>1 DEF WorkerStep, RecordPayment, ReadUpdate, ReplySent, NotPending, rowVars
<1>2. ASSUME NEW w \in Workers, StartCycle(w) \/ WorkerDies(w)
      PROVE  inboxState' = inboxState
  BY <1>2 DEF StartCycle, WorkerDies, rowVars
<1>3. ASSUME NEW o \in Orders,
             CreateDonationIntent(o) \/ MarkIntentPending(o) \/ MarkIntentFailed(o)
      PROVE  inboxState' = inboxState
  BY <1>3 DEF CreateDonationIntent, MarkIntentPending, MarkIntentFailed, MoveIntent, rowVars
<1>4. ASSUME \/ WorkerLeaseEnds \/ UNCHANGED inboxVars
             \/ \E e \in Events : EventBecomesDue(e)
      PROVE  inboxState' = inboxState
  BY <1>4 DEF WorkerLeaseEnds, EventBecomesDue, rowVars, inboxVars
<1>. QED BY <1>1, <1>2, <1>3, <1>4 DEF InboxNext

(* What a step does to the table, to the histories and to the donations:   *)
(* one disjunct for each way in which the properties below could break.    *)
LEMMA TableMoves ==
    ASSUME InboxInv, [InboxNext]_inboxVars
    PROVE  \/ inboxState' = inboxState
           \/ \E B \in SUBSET Events : EventsArrive(B)
           \/ \E e \in Events : DeleteOld(e)
           \/ \E e \in Events, state \in {"processed", "dead"} :
                /\ inboxState[e] = "open" /\ MayEnd(e, state)
                /\ inboxState' = [inboxState EXCEPT ![e] = state]
                /\ UNCHANGED <<begun, begunFirst, answered, donationVars>>
<1>1. ASSUME NEW w \in Workers, NEW e \in Events, SettleEvent(w, e)
      PROVE  \/ inboxState' = inboxState
             \/ \E state \in {"processed", "dead"} :
                  /\ inboxState[e] = "open" /\ MayEnd(e, state)
                  /\ inboxState' = [inboxState EXCEPT ![e] = state]
                  /\ UNCHANGED <<begun, begunFirst, answered, donationVars>>
  <2>1. UNCHANGED <<begun, begunFirst, answered, donationVars>>
    BY <1>1 DEF SettleEvent
  <2>. QED BY <1>1, <2>1, SettledRow DEF Settle
<1>. QED BY <1>1, TableWriters

LEMMA HistoriesGrow ==
    ASSUME [InboxNext]_inboxVars
    PROVE  transactions \subseteq transactions' /\ answered \subseteq answered'
  BY DEF InboxNext, EventsArrive, DeleteOld, EventBecomesDue, CreateDonationIntent,
         MarkIntentPending, MarkIntentFailed, MoveIntent, StartCycle, WorkerStep,
         RecordPayment, ReadUpdate, ReplySent, SettleEvent, NotPending, WorkerDies,
         WorkerLeaseEnds, workerVars, donationVars, inboxVars

-----------------------------------------------------------------------------
(* A processed update was answered, and a payment is not given up before   *)
(* it is recorded, whatever workers overlap and die: about the calls of    *)
(* complete_, reject_ and fail_edge_event in the two cycles.               *)
THEOREM OutcomesEarned == InboxSpec => []OutcomesAreEarned
<1>1. InboxInit => OutcomesAreEarned
  BY DEF InboxInit, OutcomesAreEarned, Events
<1>2. ASSUME InboxInv, OutcomesAreEarned, [InboxNext]_inboxVars PROVE OutcomesAreEarned'
  <2>1. transactions \subseteq transactions' /\ answered \subseteq answered'
    BY <1>2, HistoriesGrow
  <2>2. Updates \cap Payments = {} /\ Updates \subseteq Events /\ Payments \subseteq Events
    BY EventsAssumption DEF Events
  <2>3. CASE inboxState' = inboxState
    BY <1>2, <2>1, <2>3 DEF OutcomesAreEarned
  <2>4. CASE \E B \in SUBSET Events : EventsArrive(B)
    <3>1. \A e \in Events : inboxState'[e] \in {"open", inboxState[e]}
      BY <2>4 DEF EventsArrive
    <3>. QED BY <1>2, <2>1, <2>2, <3>1 DEF OutcomesAreEarned
  <2>5. CASE \E e \in Events : DeleteOld(e)
    <3>1. \A e \in Events : inboxState'[e] \in {"absent", inboxState[e]}
      BY <1>2, <2>5 DEF DeleteOld, InboxInv, InboxTypeOK
    <3>. QED BY <1>2, <2>1, <2>2, <3>1 DEF OutcomesAreEarned
  <2>6. ASSUME NEW e \in Events, NEW state \in {"processed", "dead"}, MayEnd(e, state),
               inboxState' = [inboxState EXCEPT ![e] = state]
        PROVE  OutcomesAreEarned'
    <3>1. \A x \in Events : inboxState'[x] = IF x = e THEN state ELSE inboxState[x]
      BY <1>2, <2>6 DEF InboxInv, InboxTypeOK
    <3>. QED BY <1>2, <2>1, <2>2, <2>6, <3>1 DEF OutcomesAreEarned, MayEnd
  <2>. QED BY <1>2, <2>3, <2>4, <2>5, <2>6, TableMoves
<1>. QED BY <1>1, <1>2, InboxInvariance, PTL DEF InboxSpec

(* A closed event is not settled a second time, be the worker late or the  *)
(* second of two: the WHERE clauses of the three calls.                    *)
THEOREM ClosedStays == InboxSpec => ClosedForGood
<1>. DEFINE Stays == \A e \in Events : Closed(e) => inboxState'[e] \in {inboxState[e], "absent"}
<1>1. ASSUME InboxInv, [InboxNext]_inboxVars PROVE Stays
  <2>. SUFFICES ASSUME NEW x \in Events, Closed(x)
                PROVE  inboxState'[x] \in {inboxState[x], "absent"}
    OBVIOUS
  <2>1. inboxState \in [Events -> {"absent", "open", "processed", "dead"}]
    BY <1>1 DEF InboxInv, InboxTypeOK
  <2>2. CASE \E B \in SUBSET Events : EventsArrive(B)
    BY <2>2 DEF EventsArrive, Closed
  <2>3. CASE \E e \in Events : DeleteOld(e)
    BY <2>1, <2>3 DEF DeleteOld
  <2>4. CASE \E e \in Events, state \in {"processed", "dead"} :
               inboxState[e] = "open" /\ inboxState' = [inboxState EXCEPT ![e] = state]
    BY <2>1, <2>4 DEF Closed
  <2>. QED BY <1>1, <2>2, <2>3, <2>4, TableMoves
<1>2. ASSUME InboxInv, [InboxNext]_inboxVars PROVE [Stays]_inboxVars
  BY <1>1, <1>2
<1>. HIDE DEF Stays
<1>3. InboxSpec => [][Stays]_inboxVars
  BY <1>2, InboxInvariance, PTL DEF InboxSpec
<1>. QED BY <1>3 DEF ClosedForGood, Stays

-----------------------------------------------------------------------------
(* The updates of a chat are read in order, for any number of workers and  *)
(* whatever order they are imported in: the NOT EXISTS of                  *)
(* pending_telegram_edge_events is enough without any lock.                *)
THEOREM ChatsAreRead == InboxSpec => []ChatOrder
<1>1. InboxInit => ChatOrder
  BY DEF InboxInit, ChatOrder
<1>2. ASSUME InboxInv, ChatOrder, [InboxNext]_inboxVars PROVE ChatOrder'
  <2>0. /\ Updates \subseteq Events /\ begun \subseteq Updates
        /\ inboxState \in [Events -> {"absent", "open", "processed", "dead"}]
    BY <1>2 DEF InboxInv, InboxTypeOK, Events
  <2>1. ASSUME NEW B \in SUBSET Events, EventsArrive(B) PROVE ChatOrder'
    <3>1. begun' = begun
      BY <2>1 DEF EventsArrive
    <3>2. \A u \in Updates : u \in B => begunFirst'[u] = begun
      BY <2>1 DEF EventsArrive
    <3>3. \A u \in Updates : u \notin B =>
             begunFirst'[u] = begunFirst[u] /\ inboxState'[u] = inboxState[u]
      BY <2>0, <2>1 DEF EventsArrive
    <3>. QED BY <1>2, <3>1, <3>2, <3>3 DEF ChatOrder, Earlier
  <2>2. ASSUME NEW w \in Workers, ReadUpdate(w) PROVE ChatOrder'
    <3>1. PICK B \in Batches(Updates, 1) : begun' = begun \cup B
      BY <2>2 DEF ReadUpdate
    <3>2. B \in SUBSET Pending(Updates)
      BY <3>1, BatchIsPending
    <3>3. \A e \in B, x \in Updates : ~(inboxState[x] = "open" /\ Earlier(x, e))
      BY <3>2 DEF Pending, IsNext
    <3>4. UNCHANGED <<inboxState, begunFirst>>
      BY <2>2 DEF ReadUpdate, rowVars
    <3>. QED BY <1>2, <3>1, <3>3, <3>4 DEF ChatOrder, Earlier
  <2>3. ASSUME NEW e \in Events, DeleteOld(e) PROVE ChatOrder'
    <3>1. \A x \in Updates : inboxState'[x] \in {"absent", inboxState[x]}
      BY <2>0, <2>3 DEF DeleteOld
    <3>. QED BY <1>2, <2>3, <3>1 DEF DeleteOld, workerVars, ChatOrder, Earlier
  <2>4. ASSUME NEW w \in Workers, NEW e \in Events, SettleEvent(w, e) PROVE ChatOrder'
    <3>1. UNCHANGED <<begun, begunFirst>>
      BY <2>4 DEF SettleEvent
    <3>2. inboxState[e] = "open"
      BY <1>2, <2>4, SettledRow
    <3>3. \A x \in Updates : inboxState'[x] = "open" => inboxState[x] = "open"
      BY <1>2, <2>0, <2>4, <3>2, SettledRow DEF Settle
    <3>. QED BY <1>2, <3>1, <3>3 DEF ChatOrder, Earlier
  <2>5. CASE UNCHANGED <<inboxState, begun, begunFirst>>
    BY <1>2, <2>5 DEF ChatOrder, Earlier
  <2>6. ASSUME NEW w \in Workers,
               \/ StartCycle(w) \/ WorkerDies(w) \/ ReplySent(w)
               \/ \E p \in Payments : RecordPayment(w, p)
               \/ \E e \in Events : NotPending(w, e)
        PROVE  UNCHANGED <<inboxState, begun, begunFirst>>
    BY <2>6 DEF StartCycle, WorkerDies, ReplySent, RecordPayment, NotPending, rowVars
  <2>7. ASSUME \/ WorkerLeaseEnds \/ UNCHANGED inboxVars
               \/ \E e \in Events : EventBecomesDue(e)
               \/ \E o \in Orders : \/ CreateDonationIntent(o) \/ MarkIntentPending(o)
                                    \/ MarkIntentFailed(o)
        PROVE  UNCHANGED <<inboxState, begun, begunFirst>>
    BY <2>7 DEF WorkerLeaseEnds, EventBecomesDue, CreateDonationIntent, MarkIntentPending,
                MarkIntentFailed, MoveIntent, rowVars, workerVars, inboxVars
  <2>. QED BY <1>2, <2>1, <2>2, <2>3, <2>4, <2>5, <2>6, <2>7 DEF InboxNext, WorkerStep
<1>. QED BY <1>1, <1>2, InboxInvariance, PTL DEF InboxSpec

-----------------------------------------------------------------------------
(* Who writes the donations.                                               *)
LEMMA DonationMoves ==
    ASSUME [InboxNext]_inboxVars
    PROVE  \/ UNCHANGED donationVars
           \/ \E w \in Workers, p \in Payments : RecordPayment(w, p)
           \/ \E o \in Orders : \/ CreateDonationIntent(o) \/ MarkIntentPending(o)
                               \/ MarkIntentFailed(o)
<1>1. ASSUME NEW w \in Workers,
             \/ StartCycle(w) \/ WorkerDies(w) \/ ReplySent(w) \/ ReadUpdate(w)
             \/ \E e \in Events : NotPending(w, e) \/ SettleEvent(w, e)
      PROVE  UNCHANGED donationVars
  BY <1>1 DEF StartCycle, WorkerDies, ReplySent, ReadUpdate, NotPending, SettleEvent
<1>2. ASSUME \/ WorkerLeaseEnds \/ UNCHANGED inboxVars
             \/ \E e \in Events : EventBecomesDue(e) \/ DeleteOld(e)
             \/ \E B \in SUBSET Events : EventsArrive(B)
      PROVE  UNCHANGED donationVars
  BY <1>2 DEF WorkerLeaseEnds, EventBecomesDue, DeleteOld, EventsArrive, inboxVars
<1>. QED BY <1>1, <1>2 DEF InboxNext, WorkerStep

(* A payment is counted once and its intent is paid with it, however often *)
(* and by however many workers its event is handled                        *)
(* (record_donation_payment).                                              *)
THEOREM LedgerIsKept == InboxSpec => []LedgerAgrees
<1>1. InboxInit => LedgerAgrees
  BY DEF InboxInit, LedgerAgrees
<1>2. ASSUME InboxInv, LedgerAgrees, [InboxNext]_inboxVars PROVE LedgerAgrees'
  <2>0. /\ counted \in [Payments -> Nat] /\ transactions \subseteq Payments
        /\ intent \in [Orders -> {"none", "creating", "pending", "paid", "failed"}]
    BY <1>2 DEF InboxInv, InboxTypeOK
  <2>1. CASE UNCHANGED donationVars
    BY <1>2, <2>1 DEF donationVars, LedgerAgrees
  <2>2. ASSUME NEW w \in Workers, NEW p \in Payments, RecordPayment(w, p)
        PROVE  LedgerAgrees'
    <3>. DEFINE o == AggregateOf[p]
    <3>1. o \in Orders
      BY DEF Orders
    <3>2. /\ transactions' = transactions \cup {p}
          /\ counted' = [counted EXCEPT ![p] = @ + CountsAs(p)]
          /\ intent[o] \in {"pending", "paid"}
          /\ intent' = IF MayBePaid(o) THEN [intent EXCEPT ![o] = "paid"] ELSE intent
      BY <2>2 DEF RecordPayment, Matches
    <3>3. \A q \in Payments : counted'[q] = IF q \in transactions' THEN 1 ELSE 0
      BY <1>2, <2>0, <3>2 DEF LedgerAgrees, CountsAs
    <3>4. \A x \in Orders : intent'[x] = IF x = o THEN "paid" ELSE intent[x]
      BY <2>0, <3>1, <3>2 DEF MayBePaid
    <3>5. \A x \in Orders : intent'[x] = "paid" <=> \E q \in transactions' : AggregateOf[q] = x
      BY <1>2, <3>2, <3>4 DEF LedgerAgrees
    <3>. QED BY <3>3, <3>5 DEF LedgerAgrees
  <2>3. ASSUME NEW o \in Orders,
               CreateDonationIntent(o) \/ MarkIntentPending(o) \/ MarkIntentFailed(o)
        PROVE  LedgerAgrees'
    <3>1. /\ UNCHANGED <<transactions, counted>>
          /\ intent[o] \in {"none", "creating"}
          /\ \E to \in {"creating", "pending", "failed"} : intent' = [intent EXCEPT ![o] = to]
      BY <2>3 DEF CreateDonationIntent, MarkIntentPending, MarkIntentFailed, MoveIntent
    <3>2. \A x \in Orders : intent'[x] = "paid" <=> intent[x] = "paid"
      BY <2>0, <3>1
    <3>. QED BY <1>2, <3>1, <3>2 DEF LedgerAgrees
  <2>. QED BY <1>2, <2>1, <2>2, <2>3, DonationMoves
<1>. QED BY <1>1, <1>2, InboxInvariance, PTL DEF InboxSpec

-----------------------------------------------------------------------------
(* A payment in the inbox belongs to an order whose link the user was      *)
(* shown, and an order never goes back.                                    *)
LinkShown(o) == intent[o] \in {"pending", "paid"}

PaymentsAreLinked == \A p \in Payments : inboxState[p] # "absent" => LinkShown(AggregateOf[p])

LEMMA LinksStay ==
    ASSUME InboxInv, [InboxNext]_inboxVars, NEW o \in Orders, LinkShown(o)
    PROVE  LinkShown(o)'
<1>0. intent \in [Orders -> {"none", "creating", "pending", "paid", "failed"}]
  BY DEF InboxInv, InboxTypeOK
<1>1. CASE UNCHANGED donationVars
  BY <1>1 DEF donationVars, LinkShown
<1>2. ASSUME NEW w \in Workers, NEW p \in Payments, RecordPayment(w, p)
      PROVE  LinkShown(o)'
  BY <1>0, <1>2 DEF RecordPayment, LinkShown
<1>3. ASSUME NEW x \in Orders,
             CreateDonationIntent(x) \/ MarkIntentPending(x) \/ MarkIntentFailed(x)
      PROVE  LinkShown(o)'
  <2>1. intent[x] \in {"none", "creating"} /\ \E to : intent' = [intent EXCEPT ![x] = to]
    BY <1>3 DEF CreateDonationIntent, MarkIntentPending, MarkIntentFailed, MoveIntent
  <2>. QED BY <1>0, <2>1 DEF LinkShown
<1>. QED BY <1>1, <1>2, <1>3, DonationMoves

LEMMA LinkedStep ==
    ASSUME InboxInv, PaymentsAreLinked, [InboxNext]_inboxVars
    PROVE  PaymentsAreLinked'
<1>. SUFFICES ASSUME NEW p \in Payments, inboxState'[p] # "absent"
              PROVE  LinkShown(AggregateOf[p])'
  BY DEF PaymentsAreLinked, LinkShown
<1>0. p \in Events /\ AggregateOf[p] \in Orders
  BY DEF Events, Orders
<1>1. inboxState \in [Events -> {"absent", "open", "processed", "dead"}]
  BY DEF InboxInv, InboxTypeOK
<1>2. CASE inboxState[p] # "absent"
  BY <1>0, <1>2, LinksStay DEF PaymentsAreLinked
<1>3. CASE inboxState[p] = "absent"
  <2>1. ASSUME NEW B \in SUBSET Events, EventsArrive(B)
        PROVE  LinkShown(AggregateOf[p])'
    <3>1. p \in B
      BY <1>0, <1>3, <2>1 DEF EventsArrive
    <3>. QED BY <1>0, <2>1, <3>1 DEF EventsArrive, LinkShown, donationVars
  <2>2. ASSUME NEW e \in Events, DeleteOld(e) PROVE inboxState'[p] = "absent"
    BY <1>1, <1>3, <2>2 DEF DeleteOld
  <2>3. ASSUME NEW e \in Events, NEW state, inboxState[e] = "open",
               inboxState' = [inboxState EXCEPT ![e] = state]
        PROVE  inboxState'[p] = "absent"
    BY <1>0, <1>1, <1>3, <2>3
  <2>. QED BY <1>3, <2>1, <2>2, <2>3, TableMoves
<1>. QED BY <1>2, <1>3

LEMMA FaultsGrow == ASSUME InboxInv, [InboxNext]_inboxVars PROVE Fault \/ faults' = faults
<1>1. ASSUME NEW w \in Workers, WorkerStep(w) PROVE Fault \/ faults' = faults
  BY <1>1, SettledRow DEF WorkerStep, RecordPayment, ReadUpdate, ReplySent, NotPending
<1>. QED BY <1>1 DEF InboxNext, EventsArrive, DeleteOld, EventBecomesDue,
        CreateDonationIntent, MarkIntentPending, MarkIntentFailed, MoveIntent, StartCycle,
        WorkerDies, WorkerLeaseEnds, inboxVars

(* How the event of a payment that could have been recorded is settled.    *)
LEMMA PaymentSettled ==
    ASSUME InboxInv, PaymentsAreLinked,
           NEW w \in Workers, NEW p \in Payments \ (Malformed \cup Mismatched),
           SettleEvent(w, p)
    PROVE  p \in transactions \/ Fault
<1>1. /\ work[w].phase = "confirm" => work[w].event \subseteq transactions
      /\ work[w].phase = "reply" => work[w].event \subseteq Updates
      /\ work[w].phase = "replied" => work[w].event \subseteq answered
  BY DEF InboxInv, WorkInv, WorkOK
<1>2. p \notin Updates /\ p \notin answered /\ p \in Events
  BY EventsAssumption DEF InboxInv, InboxTypeOK, Events
<1>3. ASSUME Sent(w, p) \/ Unhandled(w, p) \/ Unsent(w, p) PROVE p \in transactions
  BY <1>1, <1>2, <1>3 DEF Sent, Unhandled, Unsent, AtWork
<1>4. ASSUME Refused(w, p) PROVE FALSE
  <2>1. inboxState[p] = "open"
    BY <1>2, SettledRow
  <2>. QED BY <1>4, <2>1 DEF Refused, Matches, PaymentsAreLinked, LinkShown
<1>. QED BY <1>3, <1>4 DEF SettleEvent, CompleteEvent, RejectEvent, DatabaseFails

LEMMA LostSet == IsFiniteSet(LostPayments) /\ IsFiniteSet(LostPayments)'
<1>1. IsFiniteSet(Payments)
  BY EventsAssumption, FS_Subset DEF Events
<1>. QED BY <1>1, FS_Subset DEF LostPayments

LEMMA LossesStep ==
    ASSUME InboxInv, PaymentsAreLinked, LossesAreFaults, [InboxNext]_inboxVars
    PROVE  LossesAreFaults'
<1>1. /\ Cardinality(LostPayments) \in Nat /\ Cardinality(LostPayments)' \in Nat
      /\ faults \in Nat /\ (faults' = faults \/ faults' = faults + 1)
  BY LostSet, FS_CardinalityType, FaultsGrow, EventsAssumption DEF InboxInv, InboxTypeOK, Fault
<1>2. transactions \subseteq transactions'
  BY HistoriesGrow
<1>3. /\ inboxState \in [Events -> {"absent", "open", "processed", "dead"}]
      /\ Payments \subseteq Events
  BY DEF InboxInv, InboxTypeOK, Events
<1>4. ASSUME \A p \in Payments : Closed(p)' => Closed(p) PROVE LossesAreFaults'
  <2>1. LostPayments' \subseteq LostPayments
    BY <1>2, <1>4 DEF LostPayments
  <2>2. Cardinality(LostPayments') <= Cardinality(LostPayments)
    BY <2>1, LostSet, FS_Subset
  <2>. QED BY <1>1, <2>2 DEF LossesAreFaults
<1>5. ASSUME NEW w \in Workers, NEW e \in Events, SettleEvent(w, e) PROVE LossesAreFaults'
  <2>1. \A x \in Events \ {e} : inboxState'[x] = inboxState[x]
    BY <1>3, <1>5, SettledRow DEF Settle
  <2>2. CASE e \in Payments \ (Malformed \cup Mismatched) /\ e \notin transactions
    <3>1. faults' = faults + 1
      BY <1>5, <2>2, PaymentSettled DEF Fault
    <3>2. LostPayments' \subseteq LostPayments \cup {e}
      BY <1>2, <1>3, <2>1 DEF LostPayments, Closed
    <3>3. /\ IsFiniteSet(LostPayments \cup {e})
          /\ Cardinality(LostPayments \cup {e}) <= Cardinality(LostPayments) + 1
      <4>1. /\ IsFiniteSet(LostPayments \cup {e})
            /\ \/ Cardinality(LostPayments \cup {e}) = Cardinality(LostPayments)
               \/ Cardinality(LostPayments \cup {e}) = Cardinality(LostPayments) + 1
        BY LostSet, FS_AddElement
      <4>. QED BY <1>1, <4>1
    <3>4. Cardinality(LostPayments') <= Cardinality(LostPayments \cup {e})
          /\ Cardinality(LostPayments \cup {e}) \in Nat
      BY <3>2, <3>3, FS_Subset, FS_CardinalityType
    <3>. QED BY <1>1, <3>1, <3>3, <3>4 DEF LossesAreFaults
  <2>3. CASE ~(e \in Payments \ (Malformed \cup Mismatched) /\ e \notin transactions)
    <3>1. LostPayments' \subseteq LostPayments
      BY <1>2, <1>3, <2>1, <2>3 DEF LostPayments, Closed
    <3>2. Cardinality(LostPayments') <= Cardinality(LostPayments)
      BY <3>1, LostSet, FS_Subset
    <3>. QED BY <1>1, <3>2 DEF LossesAreFaults
  <2>. QED BY <2>2, <2>3
<1>6. ASSUME NEW B \in SUBSET Events, EventsArrive(B)
      PROVE  \A p \in Payments : Closed(p)' => Closed(p)
  BY <1>3, <1>6 DEF EventsArrive, Closed
<1>7. ASSUME NEW e \in Events, DeleteOld(e)
      PROVE  \A p \in Payments : Closed(p)' => Closed(p)
  BY <1>3, <1>7 DEF DeleteOld, Closed
<1>8. ASSUME inboxState' = inboxState
      PROVE  \A p \in Payments : Closed(p)' => Closed(p)
  BY <1>8 DEF Closed
<1>. QED BY <1>4, <1>5, <1>6, <1>7, <1>8, TableWriters

(* A payment of the right amount whose event is closed without being       *)
(* recorded is the fault of the database each time: as many are lost as it *)
(* failed, at most (run_payos_payment_cycle's rejection after any error of *)
(* record_donation_payment).                                               *)
THEOREM LossesAreCounted == InboxSpec => []LossesAreFaults
<1>1. InboxInit => PaymentsAreLinked
  BY DEF InboxInit, PaymentsAreLinked, Events
<1>2. InboxInit => LossesAreFaults
  <2>. SUFFICES ASSUME InboxInit PROVE LossesAreFaults
    OBVIOUS
  <2>1. LostPayments = {}
    BY DEF InboxInit, LostPayments, Closed, Events
  <2>. QED BY <2>1, FS_EmptySet DEF InboxInit, LossesAreFaults
<1>. QED BY <1>1, <1>2, LinkedStep, LossesStep, InboxInvariance, PTL DEF InboxSpec

-----------------------------------------------------------------------------
(* A row of edge_inbox_events as EdgeQueue sees it.                        *)
RowOf(e) == IF Closed(e) THEN "closed" ELSE inboxState[e]

(* The workers keep the table: the three calls that end an event close a   *)
(* row that is open, and no other step of theirs touches one.  This is     *)
(* what EdgeQueue's InboxCloses stands for.                                *)
THEOREM WorkersKeepIt == InboxSpec => WorkersKeepTable
<1>. DEFINE table == [e \in Events |-> RowOf(e)]
<1>1. InboxInit => RowTable!Init
  BY DEF InboxInit, RowTable!Init, Closed
<1>2. ASSUME InboxInv, [InboxNext]_inboxVars
      PROVE  RowTable!Next \/ table' = table
  <2>0. inboxState \in [Events -> {"absent", "open", "processed", "dead"}]
    BY <1>2 DEF InboxInv, InboxTypeOK
  <2>1. CASE inboxState' = inboxState
    BY <2>1 DEF RowOf, Closed
  <2>2. ASSUME NEW B \in SUBSET Events, EventsArrive(B) PROVE RowTable!Next
    <3>1. RowTable!Insert(B)
      BY <2>0, <2>2 DEF EventsArrive, Closed, RowTable!Insert, RowTable!Rows, RowTable!SetRows
    <3>. QED BY <3>1 DEF RowTable!Next
  <2>3. ASSUME NEW e \in Events, DeleteOld(e) PROVE RowTable!Next
    <3>1. RowTable!Delete({e})
      BY <2>0, <2>3 DEF DeleteOld, Closed, RowTable!Delete, RowTable!Rows, RowTable!SetRows
    <3>2. {e} \in SUBSET Events
      OBVIOUS
    <3>. QED BY <3>1, <3>2 DEF RowTable!Next
  <2>4. ASSUME NEW e \in Events, NEW state \in {"processed", "dead"},
               inboxState[e] = "open", inboxState' = [inboxState EXCEPT ![e] = state]
        PROVE  RowTable!Next
    <3>1. RowTable!Close(e)
      BY <2>0, <2>4 DEF Closed, RowTable!Close, RowTable!Rows, RowTable!SetRows
    <3>. QED BY <3>1 DEF RowTable!Next
  <2>. QED BY <1>2, <2>1, <2>2, <2>3, <2>4, TableMoves
<1>3. InboxInv /\ [InboxNext]_inboxVars => [RowTable!Next]_table
  BY <1>2
<1>. QED BY <1>1, <1>3, InboxInvariance, PTL
     DEF InboxSpec, WorkersKeepTable, RowTable!Spec, RowOf
=============================================================================
