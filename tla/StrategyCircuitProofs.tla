----------------------- MODULE StrategyCircuitProofs -----------------------
(***************************************************************************)
(* Proofs about StrategyCircuit, for every set of sources, strategies and  *)
(* posts, every yield and every threshold.                                 *)
(***************************************************************************)
EXTENDS StrategyCircuit, TLAPS

(* What a crawl ends with, for the yield that was asked of it.             *)
Earned(r, floor) ==
    /\ r.posts \in SUBSET Posts
    /\ r.health \in Health
    /\ r.health = "healthy" => Cardinality(r.posts) >= floor
    /\ r.health = "failed" => r.posts = {}

LEMMA ReportParts ==
    ASSUME NEW posts, NEW health, NEW outcome, NEW browser
    PROVE  /\ Report(posts, health, outcome, browser).posts = posts
           /\ Report(posts, health, outcome, browser).health = health
  BY DEF Report

LEMMA HealthEarned ==
    ASSUME NEW posts \in SUBSET Posts, NEW floor, NEW outcome, NEW browser,
           NEW health \in {"degraded", HealthOf(posts, floor)}
    PROVE  Earned(Report(posts, health, outcome, browser), floor)
<1>1. CASE health = "degraded"
  BY <1>1, ReportParts DEF Earned, Health
<1>2. CASE health = HealthOf(posts, floor)
  BY <1>2, ReportParts DEF Earned, Health, HealthOf
<1>. QED BY <1>1, <1>2

LEMMA ProbesEarned ==
    ASSUME NEW enabled, NEW floor, NEW r \in Probes(enabled, floor)
    PROVE  Earned(r, floor)
<1>. DEFINE Ends(found, ok) ==
               {Report(posts, HealthOf(posts, floor), Outcomes(enabled, found, ok, floor), FALSE) :
                   posts \in Best(Tried(enabled, found, ok, floor), found)}
<1>1. Probes(enabled, floor) = UNION {Ends(found, ok) : found \in Fetched(enabled),
                                                        ok \in SUBSET enabled}
  BY DEF Probes
<1>2. PICK found \in Fetched(enabled), ok \in SUBSET enabled : r \in Ends(found, ok)
  <2>. HIDE DEF Ends
  <2>. QED BY <1>1
<1>3. PICK posts \in SUBSET Posts :
         r = Report(posts, HealthOf(posts, floor), Outcomes(enabled, found, ok, floor), FALSE)
  BY <1>2 DEF Best
<1>. QED BY <1>3, HealthEarned

LEMMA CrawledEarned ==
    ASSUME NEW q, NEW people, NEW floor, Earned(q, floor), NEW r \in Crawled(q, people, floor)
    PROVE  Earned(r, floor)
<1>1. CASE r = q
  BY <1>1
<1>2. CASE r = Report(q.posts, IF people THEN "degraded" ELSE q.health, q.outcome, q.browser)
  BY <1>2, ReportParts DEF Earned, Health
<1>3. CASE r \in BrowserRuns(q, floor)
  <2>1. PICK shown \in Snapshots \ {{}} :
           \E health \in {"degraded", HealthOf(MergePosts(q.posts, shown), floor)} :
              r = Report(MergePosts(q.posts, shown), health, q.outcome, TRUE)
    BY <1>3 DEF BrowserRuns
  <2>2. MergePosts(q.posts, shown) \in SUBSET Posts
    BY DEF MergePosts, Snapshots, Earned
  <2>. QED BY <2>1, <2>2, HealthEarned
<1>. QED BY <1>1, <1>2, <1>3 DEF Crawled

LEMMA PresentationsEarned ==
    ASSUME NEW enabled, NEW people, NEW floor, NEW r \in Presentations(enabled, people, floor)
    PROVE  Earned(r, floor)
<1>1. PICK q \in Probes(enabled, floor) : r \in Crawled(q, people, floor)
  BY DEF Presentations
<1>. QED BY <1>1, ProbesEarned, CrawledEarned

(* Merging two reports loses no post and counts those of both.             *)
LEMMA MergedEarned ==
    ASSUME NEW floor, NEW r, NEW q, Earned(r, floor), Earned(q, floor)
    PROVE  Earned(Merged(r, q, floor), floor)
<1>. DEFINE selected == IF BetterThan(q, r) THEN q ELSE r
            posts == r.posts \cup q.posts
            health == IF posts = {} THEN selected.health
                      ELSE IF Cardinality(posts) >= floor THEN "healthy" ELSE "degraded"
<1>1. /\ Merged(r, q, floor).posts = posts
      /\ Merged(r, q, floor).health = health
  BY ReportParts DEF Merged
<1>2. Earned(selected, floor) /\ selected.posts \subseteq posts
  OBVIOUS
<1>3. posts \in SUBSET Posts
  BY DEF Earned
<1>. HIDE DEF selected, posts
<1>4. CASE posts = {}
  <2>1. selected.posts = posts /\ health = selected.health
    BY <1>2, <1>4
  <2>. QED BY <1>1, <1>2, <1>3, <2>1 DEF Earned
<1>5. CASE posts # {}
  BY <1>1, <1>3, <1>5 DEF Earned, Health
<1>. QED BY <1>4, <1>5

LEMMA EndsEarned ==
    ASSUME NEW end \in CrawlEnds
    PROVE  Earned(end.report, end.settings.floor)
<1>1. PICK i \in Settings : \E r \in Targets(i.enabled, i.people, i.fallback, i.floor) :
         end = [settings |-> i, report |-> r]
  BY DEF CrawlEnds
<1>2. PICK r \in Targets(i.enabled, i.people, i.fallback, i.floor) :
         end = [settings |-> i, report |-> r]
  BY <1>1
<1>3. Earned(r, i.floor)
  <2>1. \/ r \in Presentations(i.enabled, i.people, i.floor)
        \/ \E p \in Presentations(i.enabled, i.people, i.floor) :
              \E q \in Presentations(i.enabled, FALSE, i.floor) : r = Merged(p, q, i.floor)
    BY DEF Targets
  <2>2. CASE r \in Presentations(i.enabled, i.people, i.floor)
    BY <2>2, PresentationsEarned
  <2>3. ASSUME NEW p \in Presentations(i.enabled, i.people, i.floor),
               NEW q \in Presentations(i.enabled, FALSE, i.floor), r = Merged(p, q, i.floor)
        PROVE  Earned(r, i.floor)
    <3>1. Earned(p, i.floor) /\ Earned(q, i.floor)
      BY PresentationsEarned
    <3>. QED BY <2>3, <3>1, MergedEarned
  <2>. QED BY <2>1, <2>2, <2>3
<1>. QED BY <1>2, <1>3

-----------------------------------------------------------------------------
(* The tasks.                                                              *)
LEMMA AtType ==
    ASSUME NEW phase \in {"idle", "claimed", "crawling", "done"}, NEW floor \in Nat,
           NEW enabled \in SUBSET Strategies
    PROVE  /\ At(phase, floor, enabled) \in Task
           /\ At(phase, floor, enabled).phase = phase
           /\ At(phase, floor, enabled).floor = floor
           /\ At(phase, floor, enabled).enabled = enabled
<1>1. {} \in SUBSET Posts /\ "failed" \in Health
  BY DEF Health
<1>. QED BY <1>1 DEF At, Task

LEMMA IdleTask == NoTask \in Task /\ NoTask.phase = "idle"
<1>1. {} \in SUBSET Strategies
  OBVIOUS
<1>. QED BY <1>1, AtType DEF NoTask

LEMMA ReportedType ==
    ASSUME NEW floor \in Nat, NEW posts \in SUBSET Posts, NEW health \in Health
    PROVE  /\ Reported(floor, posts, health) \in Task
           /\ Reported(floor, posts, health).phase = "done"
           /\ Reported(floor, posts, health).floor = floor
           /\ Reported(floor, posts, health).posts = posts
           /\ Reported(floor, posts, health).health = health
<1>1. {} \in SUBSET Strategies
  OBVIOUS
<1>. QED BY <1>1 DEF Reported, Task

TaskTypeOK == task \in [Sources -> Task]

BreakerTypeOK ==
    /\ failures \in [Strategies -> 0 .. FailureThreshold]
    /\ circuit \in [Strategies -> {"closed", "open", "elapsed"}]
    /\ \A s \in Strategies : circuit[s] = "closed" => failures[s] < FailureThreshold
    /\ probing \in SUBSET Strategies

LEMMA TypeParts ==
    /\ TypeOK => BreakerTypeOK /\ TaskTypeOK /\ restarts \in 0 .. MaxRestarts
    /\ BreakerTypeOK' /\ TaskTypeOK' /\ restarts' \in 0 .. MaxRestarts => TypeOK'
  BY DEF TypeOK, BreakerTypeOK, TaskTypeOK

LEMMA TaskParts ==
    ASSUME TaskTypeOK, NEW c \in Sources
    PROVE  task[c] \in Task /\ task[c].floor \in Nat /\ task[c].enabled \in SUBSET Strategies
<1>1. task[c] \in Task
  BY DEF TaskTypeOK
<1>. QED BY <1>1 DEF Task

LEMMA OneTask ==
    ASSUME TaskTypeOK, NEW c \in Sources, NEW t \in Task, SetTask(c, t)
    PROVE  /\ TaskTypeOK' /\ task'[c] = t
           /\ \A d \in Sources : d # c => task'[d] = task[d]
  BY DEF TaskTypeOK, SetTask

-----------------------------------------------------------------------------
(* A crawl that still uses a strategy whose circuit has elapsed is of a    *)
(* cycle with no select to come, so that the next one finds none.          *)
NoneLeft ==
    \A s \in Strategies : circuit[s] = "elapsed" /\ s \notin probing =>
        \A c, d \in Sources : Waiting(c) => ~Uses(d, s)

Inv == TypeOK /\ OneProbe /\ NoneLeft /\ HealthIsEarned

LEMMA InitInv == Init => Inv
<1>. SUFFICES ASSUME Init PROVE Inv
  OBVIOUS
<1>1. TypeOK
  BY IdleTask, CircuitAssumption DEF Init, TypeOK
<1>2. \A c \in Sources : task[c].phase = "idle"
  BY IdleTask DEF Init
<1>3. OneProbe
  BY DEF Init, OneProbe
<1>4. NoneLeft /\ HealthIsEarned
  BY <1>2 DEF NoneLeft, Waiting, HealthIsEarned
<1>. QED BY <1>1, <1>3, <1>4 DEF Inv

LEMMA StartStep ==
    ASSUME Inv, NEW batch \in SUBSET Sources, NEW raised \in SUBSET Sources,
           StartCycle(batch, raised)
    PROVE  Inv'
<1>. USE DEF Inv
<1>. DEFINE t(c) == IF c \notin batch THEN NoTask
                    ELSE At("claimed", IF c \in raised THEN Raised ELSE MinimumYield, {})
<1>1. /\ \A c \in Sources : task[c].phase \in {"idle", "done"}
      /\ task' = [c \in Sources |-> t(c)]
      /\ UNCHANGED <<failures, circuit, probing, restarts>>
  BY DEF StartCycle
<1>2. ASSUME NEW c \in Sources PROVE t(c) \in Task /\ t(c).phase \in {"idle", "claimed"}
  <2>1. Raised \in Nat /\ MinimumYield \in Nat /\ {} \in SUBSET Strategies
    BY CircuitAssumption DEF Raised
  <2>. QED BY <2>1, IdleTask, AtType
<1>. HIDE DEF t
<1>3. \A c \in Sources : task'[c].phase \in {"idle", "claimed"}
  BY <1>1, <1>2
<1>4. TypeOK'
  BY <1>1, <1>2, TypeParts DEF TaskTypeOK, BreakerTypeOK
<1>5. probing = {}
  BY <1>1 DEF OneProbe, Uses
<1>6. OneProbe' /\ NoneLeft' /\ HealthIsEarned'
  BY <1>1, <1>3, <1>5 DEF OneProbe, NoneLeft, Uses, HealthIsEarned
<1>. QED BY <1>4, <1>6

LEMMA SelectStep == ASSUME Inv, NEW c \in Sources, Select(c) PROVE Inv'
<1>. USE DEF Inv
<1>. DEFINE enabled == {s \in Strategies : Enabled(s)}
            t == At("crawling", task[c].floor, enabled)
<1>1. /\ Waiting(c) /\ SetTask(c, t)
      /\ probing' = probing \cup {s \in enabled : circuit[s] = "elapsed"}
      /\ UNCHANGED <<failures, circuit, restarts>>
  BY DEF Select
<1>2. t \in Task /\ t.phase = "crawling" /\ t.enabled = enabled
  BY TypeParts, TaskParts, AtType
<1>3. \A s \in Strategies : s \in enabled <=>
         circuit[s] = "closed" \/ (circuit[s] = "elapsed" /\ s \notin probing)
  BY DEF Enabled
<1>4. enabled \in SUBSET Strategies
  OBVIOUS
<1>. HIDE DEF t, enabled
<1>5. /\ TaskTypeOK' /\ task'[c] = t
      /\ \A d \in Sources : d # c => task'[d] = task[d]
  BY <1>1, <1>2, TypeParts, OneTask
<1>6. TypeOK'
  BY <1>1, <1>4, <1>5, TypeParts DEF BreakerTypeOK
<1>7. \A s \in Strategies, d \in Sources :
         Uses(d, s)' <=> IF d = c THEN s \in enabled ELSE Uses(d, s)
  BY <1>2, <1>5 DEF Uses
<1>8. \A s \in Strategies : ~Uses(c, s)
  BY <1>1 DEF Uses, Waiting
<1>9. OneProbe'
  <2>1. ASSUME NEW s \in probing
        PROVE  /\ circuit'[s] = "elapsed" /\ \E d \in Sources : Uses(d, s)'
               /\ \A d, e \in Sources : Uses(d, s)' /\ Uses(e, s)' => d = e
    <3>1. s \in Strategies /\ circuit[s] = "elapsed" /\ s \notin enabled
      BY <1>3, <2>1, TypeParts DEF OneProbe, BreakerTypeOK
    <3>2. \A d \in Sources : Uses(d, s)' <=> Uses(d, s)
      BY <1>7, <1>8, <3>1
    <3>. QED BY <1>1, <2>1, <3>1, <3>2 DEF OneProbe
  <2>2. ASSUME NEW s \in enabled, circuit[s] = "elapsed", s \notin probing
        PROVE  /\ \E d \in Sources : Uses(d, s)'
               /\ \A d, e \in Sources : Uses(d, s)' /\ Uses(e, s)' => d = e
    <3>1. s \in Strategies /\ \A d \in Sources : ~Uses(d, s)
      BY <1>1, <1>4, <2>2 DEF NoneLeft
    <3>2. \A d \in Sources : Uses(d, s)' <=> d = c
      BY <1>7, <2>2, <3>1
    <3>. QED BY <3>2
  <2>. QED BY <1>1, <2>1, <2>2 DEF OneProbe
<1>10. NoneLeft'
  BY <1>1, <1>3 DEF NoneLeft
<1>11. HealthIsEarned'
  BY <1>2, <1>5 DEF HealthIsEarned
<1>. QED BY <1>6, <1>9, <1>10, <1>11

-----------------------------------------------------------------------------
LEMMA ObserveType ==
    ASSUME BreakerTypeOK, NEW enabled \in SUBSET Strategies, NEW outcome, NEW error,
           Observe(enabled, outcome, error)
    PROVE  BreakerTypeOK'
<1>. DEFINE healed == Healed(enabled, outcome)
            failed == Failed(enabled, outcome, error)
<1>1. /\ probing' = probing \ enabled
      /\ failures' = [s \in Strategies |->
            IF s \in healed THEN 0 ELSE IF s \in failed THEN MoreFailures(s) ELSE failures[s]]
      /\ circuit' = [s \in Strategies |->
            IF s \in healed THEN "closed"
            ELSE IF s \in failed /\ Opens(s) THEN "open" ELSE circuit[s]]
  BY DEF Observe, ProbesEnded
<1>. HIDE DEF healed, failed
<1>2. ASSUME NEW s \in Strategies
      PROVE  /\ MoreFailures(s) \in 0 .. FailureThreshold
             /\ ~Opens(s) => MoreFailures(s) < FailureThreshold
             /\ failures[s] \in 0 .. FailureThreshold
  <2>1. failures[s] \in Nat /\ failures[s] <= FailureThreshold /\ FailureThreshold \in Nat \ {0}
    BY CircuitAssumption DEF BreakerTypeOK
  <2>2. MoreFailures(s) \in Nat /\ MoreFailures(s) <= FailureThreshold
    BY <2>1 DEF MoreFailures
  <2>. QED BY <2>1, <2>2 DEF Opens
<1>3. 0 \in 0 .. FailureThreshold /\ 0 < FailureThreshold
  BY CircuitAssumption
<1>4. ASSUME NEW s \in Strategies
      PROVE  /\ failures'[s] \in 0 .. FailureThreshold
             /\ circuit'[s] \in {"closed", "open", "elapsed"}
             /\ circuit'[s] = "closed" => failures'[s] < FailureThreshold
  <2>1. CASE s \in healed
    BY <1>1, <1>3, <2>1
  <2>2. CASE s \notin healed /\ s \in failed /\ Opens(s)
    BY <1>1, <1>2, <2>2
  <2>3. CASE s \notin healed /\ s \in failed /\ ~Opens(s)
    BY <1>1, <1>2, <2>3 DEF BreakerTypeOK
  <2>4. CASE s \notin healed /\ s \notin failed
    BY <1>1, <1>2, <2>4 DEF BreakerTypeOK
  <2>. QED BY <2>1, <2>2, <2>3, <2>4
<1>5. failures' \in [Strategies -> 0 .. FailureThreshold]
  <2>1. failures' = [s \in Strategies |-> failures'[s]]
    BY <1>1
  <2>. QED BY <1>4, <2>1
<1>6. circuit' \in [Strategies -> {"closed", "open", "elapsed"}]
  <2>1. circuit' = [s \in Strategies |-> circuit'[s]]
    BY <1>1
  <2>. QED BY <1>4, <2>1
<1>. QED BY <1>1, <1>4, <1>5, <1>6 DEF BreakerTypeOK

(* An observation touches the strategies that its own crawl used.          *)
LEMMA ObserveOwn ==
    ASSUME BreakerTypeOK, NEW enabled \in SUBSET Strategies, NEW outcome, NEW error,
           Observe(enabled, outcome, error)
    PROVE  /\ probing' = probing \ enabled
           /\ \A s \in Strategies : s \notin enabled => circuit'[s] = circuit[s]
           /\ \A s \in Strategies : circuit'[s] = "elapsed" => circuit[s] = "elapsed"
<1>1. /\ probing' = probing \ enabled
      /\ circuit' = [s \in Strategies |->
            IF s \in Healed(enabled, outcome) THEN "closed"
            ELSE IF s \in Failed(enabled, outcome, error) /\ Opens(s) THEN "open" ELSE circuit[s]]
  BY DEF Observe, ProbesEnded
<1>2. \A s \in Strategies : s \notin enabled =>
         s \notin Healed(enabled, outcome) /\ s \notin Failed(enabled, outcome, error)
  BY DEF Healed, Failed
<1>. QED BY <1>1, <1>2

LEMMA EndStep ==
    ASSUME Inv, NEW c \in Sources, task[c].phase = "crawling",
           NEW t \in Task, t.phase = "done", SetTask(c, t),
           t.health = "healthy" => Cardinality(t.posts) >= t.floor,
           t.health = "failed" => t.posts = {},
           NEW outcome, NEW error, Observe(task[c].enabled, outcome, error),
           UNCHANGED restarts
    PROVE  Inv'
<1>. USE DEF Inv
<1>. DEFINE enabled == task[c].enabled
<1>1. BreakerTypeOK /\ TaskTypeOK /\ enabled \in SUBSET Strategies
  BY TypeParts, TaskParts
<1>2. /\ TaskTypeOK' /\ task'[c] = t
      /\ \A d \in Sources : d # c => task'[d] = task[d]
  BY <1>1, OneTask
<1>3. /\ BreakerTypeOK'
      /\ probing' = probing \ enabled
      /\ \A s \in Strategies : s \notin enabled => circuit'[s] = circuit[s]
      /\ \A s \in Strategies : circuit'[s] = "elapsed" => circuit[s] = "elapsed"
  BY <1>1, ObserveType, ObserveOwn
<1>4. TypeOK'
  BY <1>2, <1>3, TypeParts
<1>5. /\ \A s \in Strategies : s \in enabled <=> Uses(c, s)
      /\ \A d \in Sources, s \in Strategies : Uses(d, s)' <=> d # c /\ Uses(d, s)
      /\ \A d \in Sources : Waiting(d)' => Waiting(d)
  BY <1>2 DEF Uses, Waiting
<1>. HIDE DEF enabled
<1>6. ASSUME NEW s \in probing'
      PROVE  /\ circuit'[s] = "elapsed" /\ \E d \in Sources : Uses(d, s)'
             /\ \A d, e \in Sources : Uses(d, s)' /\ Uses(e, s)' => d = e
  <2>1. s \in probing /\ s \notin enabled /\ s \in Strategies
    BY <1>1, <1>3 DEF BreakerTypeOK
  <2>2. circuit'[s] = "elapsed"
    BY <1>3, <2>1 DEF OneProbe
  <2>3. PICK d \in Sources : Uses(d, s)
    BY <2>1 DEF OneProbe
  <2>4. d # c /\ Uses(d, s)'
    BY <1>5, <2>1, <2>3
  <2>. QED BY <1>5, <2>1, <2>2, <2>4 DEF OneProbe
<1>7. NoneLeft'
  <2>. SUFFICES ASSUME NEW s \in Strategies, circuit'[s] = "elapsed", s \notin probing',
                       NEW d \in Sources, Waiting(d)', NEW e \in Sources, Uses(e, s)'
                PROVE  FALSE
    BY DEF NoneLeft
  <2>1. circuit[s] = "elapsed" /\ Waiting(d) /\ e # c /\ Uses(e, s)
    BY <1>3, <1>5
  <2>2. CASE s \in probing
    <3>1. Uses(c, s)
      BY <1>3, <1>5, <2>2
    <3>. QED BY <2>1, <2>2, <3>1 DEF OneProbe
  <2>3. CASE s \notin probing
    BY <2>1, <2>3 DEF NoneLeft
  <2>. QED BY <2>2, <2>3
<1>8. HealthIsEarned'
  BY <1>2 DEF HealthIsEarned
<1>9. OneProbe'
  BY <1>6 DEF OneProbe
<1>. QED BY <1>4, <1>7, <1>8, <1>9

LEMMA FinishStep == ASSUME Inv, NEW c \in Sources, FinishCrawl(c) PROVE Inv'
<1>1. /\ task[c].phase = "crawling" /\ UNCHANGED restarts
  BY DEF FinishCrawl
<1>2. PICK end \in CrawlEnds :
         /\ end.settings = SettingsOf(c)
         /\ SetTask(c, Reported(task[c].floor, end.report.posts, end.report.health))
         /\ Observe(task[c].enabled, end.report.outcome, FALSE)
  BY DEF FinishCrawl
<1>3. Earned(end.report, task[c].floor)
  BY <1>2, EndsEarned DEF SettingsOf
<1>. DEFINE t == Reported(task[c].floor, end.report.posts, end.report.health)
<1>4. /\ t \in Task /\ t.phase = "done" /\ t.floor = task[c].floor
      /\ t.posts = end.report.posts /\ t.health = end.report.health
  BY <1>3, TypeParts, TaskParts, ReportedType DEF Inv, Earned
<1>. HIDE DEF t
<1>5. /\ t.health = "healthy" => Cardinality(t.posts) >= t.floor
      /\ t.health = "failed" => t.posts = {}
  BY <1>3, <1>4 DEF Earned
<1>6. SetTask(c, t)
  BY <1>2 DEF t
<1>. QED BY <1>1, <1>2, <1>4, <1>5, <1>6, EndStep

LEMMA FailStep == ASSUME Inv, NEW c \in Sources, FailCrawl(c) PROVE Inv'
<1>. DEFINE t == Reported(task[c].floor, {}, "failed")
<1>1. /\ task[c].phase = "crawling" /\ UNCHANGED restarts
      /\ SetTask(c, t)
      /\ Observe(task[c].enabled, [s \in Strategies |-> "none"], TRUE)
  BY DEF FailCrawl
<1>2. {} \in SUBSET Posts /\ "failed" \in Health
  BY DEF Health
<1>3. t \in Task /\ t.phase = "done" /\ t.posts = {} /\ t.health = "failed"
  BY <1>2, TypeParts, TaskParts, ReportedType DEF Inv
<1>. HIDE DEF t
<1>. QED BY <1>1, <1>3, EndStep

LEMMA CooldownStep == ASSUME Inv, NEW s \in Strategies, CooldownElapses(s) PROVE Inv'
<1>. USE DEF Inv
<1>1. /\ circuit[s] = "open" /\ \A c \in Sources : ~Waiting(c)
      /\ circuit' = [circuit EXCEPT ![s] = "elapsed"]
      /\ UNCHANGED <<failures, probing, task, restarts>>
  BY DEF CooldownElapses
<1>2. TypeOK'
  BY <1>1 DEF TypeOK
<1>3. s \notin probing /\ \A r \in Strategies : r # s => circuit'[r] = circuit[r]
  BY <1>1, TypeParts DEF OneProbe, BreakerTypeOK
<1>4. OneProbe'
  <2>1. \A r \in probing : r \in Strategies /\ circuit'[r] = circuit[r]
    BY <1>3, TypeParts DEF BreakerTypeOK
  <2>. QED BY <1>1, <2>1 DEF OneProbe, Uses
<1>5. NoneLeft' /\ HealthIsEarned'
  BY <1>1 DEF NoneLeft, Waiting, HealthIsEarned
<1>. QED BY <1>2, <1>4, <1>5

LEMMA RestartStep ==
    ASSUME Inv, NEW history \in [Strategies -> Samples], Restart(history)
    PROVE  Inv'
<1>1. /\ restarts < MaxRestarts /\ restarts' = restarts + 1
      /\ failures' = [s \in Strategies |-> IF AllBad(history[s]) THEN FailureThreshold ELSE 0]
      /\ circuit' = [s \in Strategies |-> IF AllBad(history[s]) THEN "open" ELSE "closed"]
      /\ probing' = {}
      /\ task' = [c \in Sources |-> NoTask]
  BY DEF Restart
<1>2. BreakerTypeOK'
  BY <1>1, CircuitAssumption DEF BreakerTypeOK
<1>3. restarts' \in 0 .. MaxRestarts
  BY <1>1, TypeParts, CircuitAssumption DEF Inv
<1>4. TaskTypeOK' /\ \A c \in Sources : task'[c].phase = "idle"
  BY <1>1, IdleTask DEF TaskTypeOK
<1>5. OneProbe'
  BY <1>1 DEF OneProbe
<1>6. NoneLeft' /\ HealthIsEarned'
  BY <1>4 DEF NoneLeft, Waiting, HealthIsEarned
<1>. QED BY <1>2, <1>3, <1>4, <1>5, <1>6, TypeParts DEF Inv

LEMMA NextInv == ASSUME Inv, [Next]_vars PROVE Inv'
<1>1. CASE \E batch, raised \in SUBSET Sources : StartCycle(batch, raised)
  BY <1>1, StartStep
<1>2. CASE \E c \in Sources : Select(c) \/ FinishCrawl(c) \/ FailCrawl(c)
  BY <1>2, SelectStep, FinishStep, FailStep
<1>3. CASE \E s \in Strategies : CooldownElapses(s)
  BY <1>3, CooldownStep
<1>4. CASE \E history \in [Strategies -> Samples] : Restart(history)
  BY <1>4, RestartStep
<1>5. CASE UNCHANGED vars
  BY <1>5 DEF vars, Inv, TypeOK, OneProbe, NoneLeft, Uses, Waiting, HealthIsEarned
<1>. QED BY <1>1, <1>2, <1>3, <1>4, <1>5 DEF Next

(* Every variable keeps its type; a circuit that is closed has failures    *)
(* left before it opens.                                                   *)
THEOREM TypeCorrect == Spec => []TypeOK
<1>1. Inv => TypeOK
  BY DEF Inv
<1>. QED BY <1>1, InitInv, NextInv, PTL DEF Spec

(* A probe in flight is the one crawl that uses its strategy, and will be  *)
(* ended by that crawl's observation, however the tasks of a cycle         *)
(* interleave and whatever was going on when the circuit opened.           *)
THEOREM ProbesAreSingle == Spec => []OneProbe
<1>1. Inv => OneProbe
  BY DEF Inv
<1>. QED BY <1>1, InitInv, NextInv, PTL DEF Spec

(* No combination of strategies, browser and second presentation makes a   *)
(* report healthy without the yield that was asked for.                    *)
THEOREM VerdictsAreEarned == Spec => []HealthIsEarned
<1>1. Inv => HealthIsEarned
  BY DEF Inv
<1>. QED BY <1>1, InitInv, NextInv, PTL DEF Spec
=============================================================================
