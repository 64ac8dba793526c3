-------------------------- MODULE StrategyCircuit --------------------------
(***************************************************************************)
(* A cycle of the crawl scheduler: one task per claimed source, each of    *)
(* which asks the circuit breaker for strategies, crawls the source's page *)
(* with them and with the browser, and tells the breaker how they fared    *)
(* (core-agent main.rs: run_scheduler_cycle, run_scheduled_source,         *)
(* crawl_facebook_target, crawl_source; strategy_circuit.rs; browser.rs;   *)
(* crawler facebook.rs: probe).  The breaker is shared by the tasks under  *)
(* a mutex that is not held while they crawl.  It exists only when the     *)
(* browser fallback is on, as it is here.                                  *)
(*                                                                         *)
(* What becomes of the report is the matter of Crawl.                      *)
(***************************************************************************)
EXTENDS Integers, FiniteSets

CONSTANTS
    Sources,
    PeopleRoutes,     \* sources shown first as facebook.com/people/...
    WithFallback,     \* sources that have a second presentation
    Strategies,       \* 1 .. n, in the order of their probes
    Posts,            \* what a page can show
    MinimumYield,
    HistoryTarget,    \* BROWSER_HISTORY_TARGET
    StopAfterSuccess, \* not --probe-all
    FailureThreshold,
    MaxRestarts       \* bound: restarts of the process

ASSUME CircuitAssumption ==
    /\ PeopleRoutes \in SUBSET Sources /\ WithFallback \in SUBSET PeopleRoutes
    /\ Strategies \in SUBSET Nat
    /\ IsFiniteSet(Posts)
    /\ MinimumYield \in Nat \ {0}
    /\ HistoryTarget \in Nat
    /\ StopAfterSuccess \in BOOLEAN
    /\ FailureThreshold \in Nat \ {0}
    /\ MaxRestarts \in Nat

VARIABLES
    failures,   \* consecutive_failures of a strategy, up to the threshold
    circuit,    \* open_until: "closed" (none), "open" (to come) or "elapsed" (past)
    probing,    \* strategies whose probe_in_flight is set
    task,       \* the tasks of the cycle
    restarts    \* history: restarts so far, bounded by MaxRestarts

vars == <<failures, circuit, probing, task, restarts>>

-----------------------------------------------------------------------------
Health == {"healthy", "degraded", "failed"}

Task == [phase : {"idle", "claimed", "crawling", "done"}, floor : Nat,
         enabled : SUBSET Strategies, posts : SUBSET Posts, health : Health]

At(phase, floor, enabled) ==
    [phase |-> phase, floor |-> floor, enabled |-> enabled, posts |-> {}, health |-> "failed"]

Reported(floor, posts, health) ==
    [phase |-> "done", floor |-> floor, enabled |-> {}, posts |-> posts, health |-> health]

NoTask == At("idle", 0, {})

TypeOK ==
    /\ failures \in [Strategies -> 0 .. FailureThreshold]
    /\ circuit \in [Strategies -> {"closed", "open", "elapsed"}]
    /\ \A s \in Strategies : circuit[s] = "closed" => failures[s] < FailureThreshold
    /\ probing \in SUBSET Strategies
    /\ task \in [Sources -> Task]
    /\ restarts \in 0 .. MaxRestarts

Init ==
    /\ failures = [s \in Strategies |-> 0]
    /\ circuit = [s \in Strategies |-> "closed"]
    /\ probing = {}
    /\ task = [c \in Sources |-> NoTask]
    /\ restarts = 0

-----------------------------------------------------------------------------
(* The crawl of a page.  A report holds the posts found, their verdict,    *)
(* the outcome of every strategy and whether the browser's posts are in it.*)
Raised == IF MinimumYield < 2 THEN 2 ELSE MinimumYield

(* Variant: the raised yield is not asked for.                             *)
HealthOfMinimum(posts, floor) ==
    IF Cardinality(posts) >= MinimumYield THEN "healthy"
    ELSE IF posts = {} THEN "failed" ELSE "degraded"

HealthOf(posts, floor) ==
    IF Cardinality(posts) >= floor THEN "healthy" ELSE IF posts = {} THEN "failed" ELSE "degraded"

Report(posts, health, outcome, browser) ==
    [posts |-> posts, health |-> health, outcome |-> outcome, browser |-> browser]

(* What each strategy may find: the posts of the page it fetched, none of  *)
(* one that failed or was too large.                                       *)
Fetched(enabled) == [enabled -> SUBSET Posts]

(* probe asks the strategies in turn, up to the first healthy one;         *)
(* classify_outcome calls an error page bad whatever posts it has.         *)
Succeeds(s, found, ok, floor) == s \in ok /\ Cardinality(found[s]) >= floor

Tried(enabled, found, ok, floor) ==
    {s \in enabled : StopAfterSuccess => \A r \in enabled : r < s => ~Succeeds(r, found, ok, floor)}

Outcomes(enabled, found, ok, floor) ==
    [s \in Strategies |->
        IF s \notin Tried(enabled, found, ok, floor) THEN "none"
        ELSE IF Succeeds(s, found, ok, floor) THEN "healthy" ELSE "bad"]

(* The posts of the first strategy that found the most of them.            *)
Best(tried, found) ==
    {posts \in SUBSET Posts :
        \/ posts = {} /\ \A s \in tried : found[s] = {}
        \/ \E s \in tried : /\ posts = found[s] /\ posts # {}
                            /\ \A r \in tried : Cardinality(found[r]) <= Cardinality(posts)
                            /\ \A r \in tried : r < s => Cardinality(found[r]) < Cardinality(posts)}

Probes(enabled, floor) ==
    UNION {LET tried == Tried(enabled, found, ok, floor) IN
              {Report(posts, HealthOf(posts, floor), Outcomes(enabled, found, ok, floor), FALSE) :
                  posts \in Best(tried, found)} :
           found \in Fetched(enabled), ok \in SUBSET enabled}

(* The browser's word on a post replaces what was known of it.             *)
MergePosts(existing, incoming) == existing \cup incoming

(* What a run of the browser may bring back; nothing when it failed or was *)
(* killed at its timeout.                                                  *)
Snapshots == SUBSET Posts

(* apply_browser_fallback: a run that fails or finds nothing changes no    *)
(* more than the attempts; one that finds posts adds them (merge_posts).   *)
(* An unresolved newest post degrades the report.                          *)
BrowserRuns(report, floor) ==
    UNION {LET posts == MergePosts(report.posts, shown) IN
              {Report(posts, health, report.outcome, TRUE) :
                  health \in {"degraded", HealthOf(posts, floor)}} :
           shown \in Snapshots \ {{}}}

(* crawl_source: the browser is asked, up to browser_retries times, when   *)
(* the posts are few or the route needs its word.                          *)
Crawled(report, people, floor) ==
    IF Cardinality(report.posts) < HistoryTarget \/ people
    THEN {Report(report.posts, IF people THEN "degraded" ELSE report.health, report.outcome,
                 report.browser)}
            \cup BrowserRuns(report, floor)
    ELSE {report}

Presentations(enabled, people, floor) ==
    UNION {Crawled(report, people, floor) : report \in Probes(enabled, floor)}

(* merge_presentation_reports                                              *)
Quality(report) ==
    CASE report.health = "healthy" -> 3
      [] report.health = "degraded" -> 2
      [] report.health = "failed" -> 1

BetterThan(r, q) ==
    \/ Quality(r) > Quality(q)
    \/ Quality(r) = Quality(q) /\ Cardinality(r.posts) > Cardinality(q.posts)

(* The breaker is told the last outcome of a strategy.                     *)
LastOutcome(primary, fallback) ==
    [s \in Strategies |-> IF fallback.outcome[s] # "none" THEN fallback.outcome[s]
                          ELSE primary.outcome[s]]

Merged(primary, fallback, floor) ==
    LET selected == IF BetterThan(fallback, primary) THEN fallback ELSE primary
        posts == primary.posts \cup fallback.posts
    IN  Report(posts, IF posts = {} THEN selected.health
                      ELSE IF Cardinality(posts) >= floor THEN "healthy" ELSE "degraded",
               LastOutcome(primary, fallback), selected.browser)

(* crawl_facebook_target: the second presentation is crawled when the      *)
(* first was not healthy.                                                  *)
Targets(enabled, people, fallback, floor) ==
    LET first == Presentations(enabled, people, floor)
        second == Presentations(enabled, FALSE, floor)
        settled == {r \in first : r.health = "healthy" \/ ~fallback}
    IN  settled \cup UNION {{Merged(r, q, floor) : q \in second} : r \in first \ settled}

(* What a crawl can end with: the relation of its settings and its report. *)
Settings == [enabled : SUBSET Strategies, people : BOOLEAN, fallback : BOOLEAN,
             floor : {MinimumYield, Raised}]

CrawlEnds ==
    UNION {{[settings |-> i, report |-> r] :
               r \in Targets(i.enabled, i.people, i.fallback, i.floor)} : i \in Settings}

(* How a source is presented: its route, and whether there is another one. *)
Target(c) == [people |-> c \in PeopleRoutes, fallback |-> c \in WithFallback]

SettingsOf(c) == [enabled |-> task[c].enabled, people |-> Target(c).people,
                  fallback |-> Target(c).fallback, floor |-> task[c].floor]

-----------------------------------------------------------------------------
(* The breaker: select and observe.                                        *)
EnabledWhileProbed(s) == circuit[s] # "open"   \* variant: probe_in_flight is not looked at

Enabled(s) == circuit[s] = "closed" \/ (circuit[s] = "elapsed" /\ s \notin probing)

Waiting(c) == task[c].phase = "claimed"

SetTask(c, t) == task' = [task EXCEPT ![c] = t]

(* A cycle begins when all the tasks of the last one have been joined: any *)
(* sources are claimed, some with a raised minimum yield.                  *)
StartCycle(batch, raised) ==
    /\ \A c \in Sources : task[c].phase \in {"idle", "done"}
    /\ batch # {}
    /\ task' = [c \in Sources |->
                  IF c \notin batch THEN NoTask
                  ELSE At("claimed",
                          IF c \in raised THEN Raised ELSE MinimumYield, {})]
    /\ UNCHANGED <<failures, circuit, probing, restarts>>

Select(c) ==
    LET enabled == {s \in Strategies : Enabled(s)} IN
    /\ Waiting(c)
    /\ SetTask(c, At("crawling", task[c].floor, enabled))
    /\ probing' = probing \cup {s \in enabled : circuit[s] = "elapsed"}
    /\ UNCHANGED <<failures, circuit, restarts>>

(* One more failure: the circuit opens at the threshold, or at once when   *)
(* it was a probe.                                                         *)
MoreFailures(s) == IF failures[s] < FailureThreshold THEN failures[s] + 1 ELSE failures[s]

OpensLater(s) == s \in probing \/ failures[s] >= FailureThreshold   \* variant: counted too late

Opens(s) == s \in probing \/ MoreFailures(s) >= FailureThreshold

Healed(enabled, outcome) == {s \in enabled : outcome[s] = "healthy"}

Failed(enabled, outcome, error) ==
    {s \in enabled : outcome[s] = "bad" \/ (outcome[s] = "none" /\ error)}

(* Variant: a strategy without an outcome keeps its flag.                  *)
ProbesWithOutcome(enabled, outcome) == {s \in enabled : outcome[s] # "none"}

ProbesEnded(enabled, outcome) == enabled

Observe(enabled, outcome, error) ==
    /\ probing' = probing \ ProbesEnded(enabled, outcome)
    /\ failures' = [s \in Strategies |->
          IF s \in Healed(enabled, outcome) THEN 0
          ELSE IF s \in Failed(enabled, outcome, error) THEN MoreFailures(s) ELSE failures[s]]
    /\ circuit' = [s \in Strategies |->
          IF s \in Healed(enabled, outcome) THEN "closed"
          ELSE IF s \in Failed(enabled, outcome, error) /\ Opens(s) THEN "open" ELSE circuit[s]]

FinishCrawl(c) ==
    /\ task[c].phase = "crawling"
    /\ \E end \in CrawlEnds :
          /\ end.settings = SettingsOf(c)
          /\ SetTask(c, Reported(task[c].floor, end.report.posts, end.report.health))
          /\ Observe(task[c].enabled, end.report.outcome, FALSE)
    /\ UNCHANGED restarts

(* A page that cannot be parsed, or a report about another page, ends the  *)
(* crawl in an error: no outcome is known of any strategy.                 *)
FailCrawl(c) ==
    /\ task[c].phase = "crawling"
    /\ SetTask(c, Reported(task[c].floor, {}, "failed"))
    /\ Observe(task[c].enabled, [s \in Strategies |-> "none"], TRUE)
    /\ UNCHANGED restarts

(* The cooldown is much longer than a task takes from its start to its     *)
(* select, the first thing that it does.                                   *)
CooldownElapses(s) ==
    /\ circuit[s] = "open"
    /\ \A c \in Sources : ~Waiting(c)
    /\ circuit' = [circuit EXCEPT ![s] = "elapsed"]
    /\ UNCHANGED <<failures, probing, task, restarts>>

(* The last attempts of a strategy that the database has, no more of them  *)
(* than the threshold.                                                     *)
Samples == {sample \in [attempts : 0 .. FailureThreshold, healthy : 0 .. FailureThreshold] :
               sample.healthy <= sample.attempts}

AllBad(sample) == sample.attempts >= FailureThreshold /\ sample.healthy = 0

(* A new process opens the circuits of the strategies whose last attempts  *)
(* were all bad.                                                           *)
Restart(history) ==
    /\ restarts < MaxRestarts
    /\ restarts' = restarts + 1
    /\ failures' = [s \in Strategies |-> IF AllBad(history[s]) THEN FailureThreshold ELSE 0]
    /\ circuit' = [s \in Strategies |-> IF AllBad(history[s]) THEN "open" ELSE "closed"]
    /\ probing' = {}
    /\ task' = [c \in Sources |-> NoTask]

-----------------------------------------------------------------------------
Next ==
    \/ \E batch, raised \in SUBSET Sources : StartCycle(batch, raised)
    \/ \E c \in Sources : Select(c) \/ FinishCrawl(c) \/ FailCrawl(c)
    \/ \E s \in Strategies : CooldownElapses(s)
    \/ \E history \in [Strategies -> Samples] : Restart(history)

Spec == Init /\ [][Next]_vars

(* Sources come due again and again, a task's waits are all bounded by     *)
(* timeouts, and the clock runs whatever the tasks do.                     *)
FairSpec ==
    /\ Spec
    /\ WF_vars(\E batch, raised \in SUBSET Sources : StartCycle(batch, raised))
    /\ \A c \in Sources : WF_vars(Select(c)) /\ WF_vars(FinishCrawl(c) \/ FailCrawl(c))
    /\ \A s \in Strategies : SF_vars(CooldownElapses(s))

-----------------------------------------------------------------------------
Uses(c, s) == task[c].phase = "crawling" /\ s \in task[c].enabled

(* While the probe of a strategy is in flight, exactly one crawl uses the  *)
(* strategy, and its observation will end the probe: no flag is left       *)
(* behind, which would bar the strategy for good, and no crawl of an       *)
(* earlier time ends another's probe (select, observe).                    *)
OneProbe ==
    \A s \in probing :
        /\ circuit[s] = "elapsed"
        /\ \E c \in Sources : Uses(c, s)
        /\ \A c, d \in Sources : Uses(c, s) /\ Uses(d, s) => c = d

(* Whichever way a report was put together, by strategies, by the browser  *)
(* or from two presentations, it is called healthy only with the yield     *)
(* that its crawl asked for, and failed only without a post.               *)
HealthIsEarned ==
    \A c \in Sources : task[c].phase = "done" =>
        /\ task[c].health = "healthy" => Cardinality(task[c].posts) >= task[c].floor
        /\ task[c].health = "failed" => task[c].posts = {}

(* No strategy is given up: each is used by a crawl again and again,       *)
(* however often it failed and whatever ended its probes.                  *)
TriedAgain ==
    \A s \in Strategies : []<>(\E c \in Sources : Uses(c, s))

=============================================================================
