---------------------------- MODULE ReviewProofs ----------------------------
(***************************************************************************)
(* Theorems about Review, for every set of classifications, posts,         *)
(* workers and subscribers.                                                *)
(***************************************************************************)
EXTENDS Review, TLAPS

Verdicts == {"none", "send", "skip"}

LEMMA TaskFields ==
    ASSUME TypeOK, NEW w \in Workers, task[w].phase # "idle"
    PROVE  /\ task[w].of \in Classifications
           /\ task[w].verdict \in Verdicts
           /\ task[w].phase \in Phases
<1>1. task[w] \in Tasks
  BY DEF TypeOK
<1>2. task[w] # Idle
  BY DEF Idle
<1>3. task[w] \in [phase : Phases, of : Classifications, verdict : Verdicts]
  BY <1>1, <1>2 DEF Tasks, Verdicts
<1>. QED BY <1>3

LEMMA EnterType ==
    ASSUME TypeOK, NEW w \in Workers, task[w].phase # "idle",
           NEW phase \in Phases, NEW verdict \in Verdicts, Enter(w, phase, verdict)
    PROVE  task' \in [Workers -> Tasks]
<1>1. [phase |-> phase, of |-> task[w].of, verdict |-> verdict] \in Tasks
  BY TaskFields DEF Tasks, Verdicts
<1>. QED BY <1>1 DEF Enter, TypeOK

LEMMA StopType ==
    ASSUME TypeOK, NEW w \in Workers, Stop(w)
    PROVE  task' \in [Workers -> Tasks]
  BY DEF Stop, TypeOK, Tasks

(***************************************************************************)
(* The invariant of the tasks: a manual review is planned only once it is  *)
(* resolved, and without a message; an explicit post is planned with a     *)
(* message unless Gemini refused it.                                       *)
(***************************************************************************)
TaskOK(t) ==
    /\ t.phase \in {"inherit", "resolve"} => t.of \in Manual
    /\ t.phase = "record" => t.of \in Explicit
    /\ t.phase \in {"record", "resolve"} => t.verdict \in {"send", "skip"}
    /\ t.phase = "record" /\ t.verdict = "skip" => t.of \in unwanted
    /\ t.phase = "plan" /\ t.of \in Manual => t.verdict # "send" /\ ~Pending(t.of)
    /\ t.phase = "plan" /\ t.of \in Explicit => t.verdict = "send" \/ t.of \in unwanted

TaskInv == \A w \in Workers : TaskOK(task[w])

-----------------------------------------------------------------------------
(* What one step may do to the outcome of a classification: only the       *)
(* planner of an open event addresses a campaign again or starts one       *)
(* whatever was resolved.                                                  *)
Announced(c) ==
    /\ CreateCampaign(c)
    /\ PriorCampaigns(c) = {} \/ c \in campaigns
    /\ \/ c \in Explicit \ done
       \/ /\ PriorCampaigns(c) = {}
          /\ Pending(c) \/ resolution'[c] = Decided("send", "admin")

Outcome(c) ==
    /\ \/ UNCHANGED resolution
       \/ \E action \in {"send", "skip"}, by \in {"ai", "admin"} : Resolve(c, action, by)
    /\ NoCampaign \/ Announced(c)

OutcomeTypeOK ==
    /\ resolution \in [Classifications -> Resolutions]
    /\ campaigns \subseteq Classifications
    /\ deliveries \subseteq campaigns \X Subscribers
    /\ digestItems \subseteq campaigns \X Subscribers

LEMMA OutcomeType ==
    ASSUME TypeOK, NEW c \in Classifications, Outcome(c)
    PROVE  OutcomeTypeOK'
<1>1. resolution' \in [Classifications -> Resolutions]
  BY DEF Outcome, Resolve, Decided, Resolutions, TypeOK
<1>2. CASE NoCampaign
  BY <1>1, <1>2 DEF NoCampaign, OutcomeTypeOK, TypeOK
<1>3. CASE CreateCampaign(c)
  <2>1. campaigns' \subseteq Classifications /\ campaigns \subseteq campaigns' /\ c \in campaigns'
    BY <1>3 DEF CreateCampaign, TypeOK
  <2>2. \A m : {<<c, s>> : s \in {s \in Subscribers : mode[s] = m}}
                 \subseteq campaigns' \X Subscribers
    BY <2>1
  <2>3. deliveries \subseteq campaigns' \X Subscribers /\ digestItems \subseteq campaigns' \X Subscribers
    BY <2>1 DEF TypeOK
  <2>. QED BY <1>1, <1>3, <2>1, <2>2, <2>3 DEF CreateCampaign, Address, OutcomeTypeOK
<1>. QED BY <1>2, <1>3 DEF Outcome, Announced

LEMMA ResolveReviewOutcome ==
    ASSUME NEW c \in Classifications, NEW action \in {"send", "skip"},
           NEW by \in {"ai", "admin"}, ResolveReview(c, action, by)
    PROVE  Outcome(c)
<1>1. CASE ~Pending(c)
  BY <1>1 DEF ResolveReview, Outcome, outcomeVars, NoCampaign
<1>2. CASE Pending(c) /\ action = "send" /\ PriorCampaigns(c) = {}
  BY <1>2 DEF ResolveReview, Outcome, Announced
<1>3. CASE Pending(c) /\ ~(action = "send" /\ PriorCampaigns(c) = {})
  BY <1>3 DEF ResolveReview, Outcome
<1>. QED BY <1>1, <1>2, <1>3

(* Whoever acts, a step settles the outcome of at most one classification. *)
LEMMA StepOutcome ==
    ASSUME TypeOK, TaskInv, [Next]_vars
    PROVE  UNCHANGED outcomeVars \/ \E c \in Classifications : Outcome(c)
<1>1. ASSUME NEW w \in Workers, PlanStep(w)
      PROVE  UNCHANGED outcomeVars \/ Outcome(task[w].of)
  <2>. DEFINE c == task[w].of
  <2>1. CASE RecordVerdict(w)
    <3>1. task[w].verdict \in {"send", "skip"}
      BY <2>1 DEF RecordVerdict, Working, TaskInv, TaskOK
    <3>. QED BY <2>1, <3>1 DEF RecordVerdict, Outcome
  <2>2. CASE InheritDuplicate(w)
    <3>1. UNCHANGED resolution \/ \E d \in DuplicatesOf[c] :
            resolution[d] # Undecided /\ Resolve(c, "skip", resolution[d].by)
      BY <2>2 DEF InheritDuplicate
    <3>2. ASSUME NEW d \in DuplicatesOf[c], resolution[d] # Undecided
          PROVE  resolution[d].by \in {"ai", "admin"}
      <4>1. c \in Classifications
        BY <2>2, TaskFields DEF InheritDuplicate, Working
      <4>2. resolution[d] \in Resolutions
        BY <4>1, ConstantsAssumption DEF TypeOK
      <4>. QED BY <3>2, <4>2 DEF Resolutions
    <3>3. NoCampaign
      BY <2>2 DEF InheritDuplicate
    <3>. QED BY <3>1, <3>2, <3>3 DEF Outcome
  <2>3. CASE ResolveAiReview(w)
    <3>1. c \in Classifications /\ task[w].verdict \in {"send", "skip"}
      BY <2>3, TaskFields DEF ResolveAiReview, Working, TaskInv, TaskOK
    <3>2. \E action \in {"send", "skip"} : ResolveReview(c, action, "ai")
      BY <2>3, <3>1 DEF ResolveAiReview
    <3>. QED BY <3>1, <3>2, ResolveReviewOutcome
  <2>4. CASE PlanNotification(w)
    <3>1. c \in Classifications
      BY <2>4, TaskFields DEF PlanNotification, Working
    <3>2. task[w].verdict = "send" => c \in Explicit
      BY <2>4, <3>1 DEF PlanNotification, Working, TaskInv, TaskOK, Classifications
    <3>3. CASE NoCampaign
      BY <2>4, <3>3 DEF PlanNotification, Outcome
    <3>4. CASE ~NoCampaign
      <4>1. /\ task[w].verdict = "send" /\ CreateCampaign(c)
            /\ PriorCampaigns(c) = {} \/ c \in PriorCampaigns(c)
            /\ UNCHANGED resolution
        BY <2>4, <3>4 DEF PlanNotification
      <4>2. c \notin done
        BY <2>4, <3>4, ConstantsAssumption DEF PlanNotification, TypeOK
      <4>. QED BY <3>2, <4>1, <4>2 DEF Outcome, Announced, PriorCampaigns
    <3>. QED BY <3>3, <3>4
  <2>5. CASE ReviewExplicit(w) \/ ReviewManual(w) \/ DeferEvent(w) \/ FailEvent(w)
    BY <2>5 DEF ReviewExplicit, ReviewManual, DeferEvent, FailEvent
  <2>. QED BY <1>1, <2>1, <2>2, <2>3, <2>4, <2>5 DEF PlanStep
<1>2. ASSUME NEW c \in Classifications, AdminStep(c) PROVE Outcome(c)
  <2>1. CASE ReviewSend(c) \/ ReviewSkip(c)
    <3>1. \E action \in {"send", "skip"} : ResolveReview(c, action, "admin")
      BY <2>1 DEF ReviewSend, ReviewSkip
    <3>. QED BY <3>1, ResolveReviewOutcome
  <2>2. CASE AiReject(c)
    BY <2>2 DEF AiReject, Outcome
  <2>3. CASE AiApprove(c)
    <3>1. resolution'[c] = Decided("send", "admin")
      BY <2>3 DEF AiApprove, Resolve, TypeOK
    <3>. QED BY <2>3, <3>1 DEF AiApprove, Outcome, Announced
  <2>. QED BY <1>2, <2>1, <2>2, <2>3 DEF AdminStep
<1>3. ASSUME NEW w \in Workers, NEW c \in Classifications, ClaimEvent(w, c)
      PROVE  UNCHANGED outcomeVars
  BY <1>3 DEF ClaimEvent
<1>4. ASSUME NEW w \in Workers, TransactionFails(w) \/ Crash(w) PROVE UNCHANGED outcomeVars
  BY <1>4 DEF TransactionFails, Crash
<1>5. ASSUME NEW c \in Classifications, LeaseExpires(c) PROVE UNCHANGED outcomeVars
  BY <1>5 DEF LeaseExpires
<1>6. ASSUME NEW s \in Subscribers, NEW m \in Modes, SetMode(s, m) PROVE UNCHANGED outcomeVars
  BY <1>6 DEF SetMode
<1>7. ASSUME NEW p \in Posts, PostAges(p) PROVE UNCHANGED outcomeVars
  BY <1>7 DEF PostAges
<1>8. ASSUME NEW w \in Workers, PlanStep(w)
      PROVE  UNCHANGED outcomeVars \/ \E c \in Classifications : Outcome(c)
  <2>1. CASE task[w].phase = "idle"
    BY <1>8, <2>1 DEF PlanStep, ReviewExplicit, RecordVerdict, InheritDuplicate, ReviewManual,
       ResolveAiReview, DeferEvent, PlanNotification, FailEvent, Working
  <2>. QED BY <1>1, <1>8, <2>1, TaskFields
<1>. QED BY <1>2, <1>3, <1>4, <1>5, <1>6, <1>7, <1>8 DEF Next, vars

(* A resolution is never taken back, a campaign never withdrawn.           *)
LEMMA OutcomesStay ==
    ASSUME TypeOK, TaskInv, [Next]_vars
    PROVE  /\ \A c \in Classifications : ~Pending(c) => ~Pending(c)'
           /\ campaigns \subseteq campaigns'
<1>1. CASE UNCHANGED outcomeVars
  BY <1>1 DEF outcomeVars, Pending
<1>2. ASSUME NEW c \in Classifications, Outcome(c)
      PROVE  /\ \A d \in Classifications : ~Pending(d) => ~Pending(d)'
             /\ campaigns \subseteq campaigns'
  <2>1. campaigns \subseteq campaigns'
    BY <1>2 DEF Outcome, Announced, NoCampaign, CreateCampaign
  <2>2. CASE UNCHANGED resolution
    BY <2>1, <2>2 DEF Pending
  <2>3. ASSUME NEW action \in {"send", "skip"}, NEW by \in {"ai", "admin"}, Resolve(c, action, by)
        PROVE  \A d \in Classifications : ~Pending(d) => ~Pending(d)'
    <3>1. Decided(action, by) # Undecided
      BY DEF Decided, Undecided
    <3>. QED BY <2>3, <3>1 DEF Resolve, Pending, TypeOK
  <2>. QED BY <1>2, <2>1, <2>2, <2>3 DEF Outcome
<1>. QED BY <1>1, <1>2, StepOutcome

(* The next state is always well typed.                                    *)
LEMMA NextTypeOK == ASSUME TypeOK, TaskInv, [Next]_vars PROVE TypeOK'
<1>1. OutcomeTypeOK'
  <2>1. CASE UNCHANGED outcomeVars
    BY <2>1 DEF outcomeVars, OutcomeTypeOK, TypeOK
  <2>. QED BY <2>1, StepOutcome, OutcomeType
<1>. USE ConstantsAssumption
<1>2. ASSUME NEW w \in Workers, NEW c \in Classifications, ClaimEvent(w, c)
      PROVE  TypeOK'
  <2>1. [phase |-> IF c \in Manual THEN "inherit" ELSE "review", of |-> c, verdict |-> "none"] \in Tasks
    BY DEF Tasks, Phases
  <2>2. task' \in [Workers -> Tasks]
    BY <1>2, <2>1 DEF ClaimEvent, TypeOK
  <2>3. attempts' \in [Classifications -> 0..MaxAttempts]
    BY <1>2 DEF ClaimEvent, TypeOK
  <2>4. holder' \in [Classifications -> Workers \cup {Nobody}] /\ \A d \in done : holder'[d] = Nobody
    BY <1>2 DEF ClaimEvent, TypeOK
  <2>. QED BY <1>1, <1>2, <2>2, <2>3, <2>4 DEF ClaimEvent, TypeOK, OutcomeTypeOK, userVars
<1>3. ASSUME NEW w \in Workers, PlanStep(w) PROVE TypeOK'
  <2>1. CASE ReviewExplicit(w)
    <3>1. task' \in [Workers -> Tasks]
      BY <2>1, EnterType DEF ReviewExplicit, Working, Phases, Verdicts
    <3>. QED BY <1>1, <2>1, <3>1 DEF ReviewExplicit, TypeOK, OutcomeTypeOK, eventVars, userVars
  <2>2. CASE RecordVerdict(w)
    <3>1. task' \in [Workers -> Tasks]
      BY <2>2, EnterType DEF RecordVerdict, Working, Phases, Verdicts
    <3>. QED BY <1>1, <2>2, <3>1 DEF RecordVerdict, Fault, TypeOK, OutcomeTypeOK, eventVars, userVars
  <2>3. CASE InheritDuplicate(w)
    <3>1. task' \in [Workers -> Tasks]
      BY <2>3, EnterType DEF InheritDuplicate, Working, Phases, Verdicts
    <3>. QED BY <1>1, <2>3, <3>1 DEF InheritDuplicate, TypeOK, OutcomeTypeOK, eventVars, userVars
  <2>4. CASE ReviewManual(w)
    <3>1. task' \in [Workers -> Tasks]
      BY <2>4, EnterType DEF ReviewManual, Working, Phases, Verdicts, WhenUnavailable
    <3>. QED BY <1>1, <2>4, <3>1 DEF ReviewManual, TypeOK, OutcomeTypeOK, eventVars, userVars
  <2>5. CASE ResolveAiReview(w)
    <3>1. task' \in [Workers -> Tasks]
      BY <2>5, EnterType DEF ResolveAiReview, Working, Phases, Verdicts
    <3>. QED BY <1>1, <2>5, <3>1 DEF ResolveAiReview, TypeOK, OutcomeTypeOK, eventVars, userVars
  <2>6. CASE DeferEvent(w)
    <3>1. task' \in [Workers -> Tasks]
      BY <2>6, StopType DEF DeferEvent
    <3>. QED BY <1>1, <2>6, <3>1 DEF DeferEvent, TypeOK, OutcomeTypeOK, userVars
  <2>7. CASE PlanNotification(w)
    <3>1. task' \in [Workers -> Tasks]
      BY <2>7, EnterType, StopType DEF PlanNotification, Working, Phases, Verdicts
    <3>2. task[w].of \in Classifications
      BY <2>7, TaskFields DEF PlanNotification, Working
    <3>3. /\ done' \subseteq Classifications /\ dead' \subseteq done'
          /\ holder' \in [Classifications -> Workers \cup {Nobody}]
          /\ \A c \in done' : holder'[c] = Nobody
      BY <2>7, <3>2 DEF PlanNotification, TypeOK
    <3>. QED BY <1>1, <2>7, <3>1, <3>3 DEF PlanNotification, TypeOK, OutcomeTypeOK, userVars
  <2>8. CASE FailEvent(w)
    <3>1. task' \in [Workers -> Tasks]
      BY <2>8, StopType DEF FailEvent
    <3>2. task[w].of \in Classifications
      BY <2>8, TaskFields DEF FailEvent, Working
    <3>3. /\ done' \subseteq Classifications /\ dead' \subseteq done'
          /\ holder' \in [Classifications -> Workers \cup {Nobody}]
          /\ \A c \in done' : holder'[c] = Nobody
      BY <2>8, <3>2 DEF FailEvent, TypeOK
    <3>. QED BY <1>1, <2>8, <3>1, <3>3 DEF FailEvent, TypeOK, OutcomeTypeOK, userVars
  <2>. QED BY <1>3, <2>1, <2>2, <2>3, <2>4, <2>5, <2>6, <2>7, <2>8 DEF PlanStep
<1>4. ASSUME NEW w \in Workers, TransactionFails(w) PROVE TypeOK'
  <2>1. task' \in [Workers -> Tasks]
    <3>1. CASE Stop(w)
      BY <3>1, StopType
    <3>2. CASE task[w].phase # "idle" /\ Enter(w, "failing", "none")
      BY <3>2, EnterType DEF Phases, Verdicts
    <3>. QED BY <1>4, <3>1, <3>2 DEF TransactionFails
  <2>. QED BY <1>1, <1>4, <2>1 DEF TransactionFails, Fault, TypeOK, OutcomeTypeOK, eventVars, userVars
<1>5. ASSUME NEW w \in Workers, Crash(w) PROVE TypeOK'
  BY <1>1, <1>5, StopType DEF Crash, Fault, TypeOK, OutcomeTypeOK, eventVars, userVars
<1>6. ASSUME NEW c \in Classifications, AdminStep(c) PROVE TypeOK'
  <2>1. CASE AiReject(c)
    BY <1>1, <2>1 DEF AiReject, TypeOK, OutcomeTypeOK, eventVars
  <2>2. CASE ReviewSend(c) \/ ReviewSkip(c) \/ AiApprove(c)
    BY <1>1, <2>2 DEF ReviewSend, ReviewSkip, AiApprove, TypeOK, OutcomeTypeOK, eventVars, userVars
  <2>. QED BY <1>6, <2>1, <2>2 DEF AdminStep
<1>7. ASSUME NEW c \in Classifications, LeaseExpires(c) PROVE TypeOK'
  BY <1>1, <1>7 DEF LeaseExpires, Fault, TypeOK, OutcomeTypeOK, userVars
<1>8. ASSUME NEW s \in Subscribers, NEW m \in Modes, SetMode(s, m) PROVE TypeOK'
  BY <1>1, <1>8 DEF SetMode, TypeOK, OutcomeTypeOK, eventVars
<1>9. ASSUME NEW p \in Posts, PostAges(p) PROVE TypeOK'
  BY <1>1, <1>9 DEF PostAges, TypeOK, OutcomeTypeOK, eventVars
<1>10. CASE UNCHANGED vars
  BY <1>1, <1>10 DEF vars, TypeOK, OutcomeTypeOK, eventVars, userVars
<1>. QED BY <1>2, <1>3, <1>4, <1>5, <1>6, <1>7, <1>8, <1>9, <1>10 DEF Next

-----------------------------------------------------------------------------
(* The invariant of the tasks is preserved.                                *)

(* The tasks that a step leaves alone stay as they should be.              *)
LEMMA TaskOKStays ==
    ASSUME TypeOK, TaskInv, [Next]_vars, unwanted \subseteq unwanted',
           NEW w \in Workers, task'[w] = task[w]
    PROVE  TaskOK(task[w])'
<1>1. TaskOK(task[w]) /\ \A c \in Classifications : ~Pending(c) => ~Pending(c)'
  BY OutcomesStay DEF TaskInv
<1>2. task[w].phase = "plan" => task[w].of \in Classifications
  BY TaskFields
<1>. QED BY <1>1, <1>2 DEF TaskOK

LEMMA OneTaskMoves ==
    ASSUME TypeOK, TaskInv, [Next]_vars, unwanted \subseteq unwanted',
           NEW w \in Workers, NEW t, task' = [task EXCEPT ![w] = t], TaskOK(t)'
    PROVE  TaskInv'
<1>. SUFFICES ASSUME NEW u \in Workers PROVE TaskOK(task[u])'
  BY DEF TaskInv
<1>1. CASE u = w
  BY <1>1 DEF TypeOK
<1>2. CASE u # w
  BY <1>2, TaskOKStays DEF TypeOK
<1>. QED BY <1>1, <1>2

LEMMA NextTaskInv == ASSUME TypeOK, TaskInv, [Next]_vars PROVE TaskInv'
<1>1. ASSUME NEW w \in Workers, NEW c \in Classifications, ClaimEvent(w, c) PROVE TaskInv'
  <2>. DEFINE t == [phase |-> IF c \in Manual THEN "inherit" ELSE "review",
                    of |-> c, verdict |-> "none"]
  <2>1. TaskOK(t)'
    BY DEF TaskOK
  <2>2. task' = [task EXCEPT ![w] = t] /\ unwanted' = unwanted
    BY <1>1 DEF ClaimEvent
  <2>. QED BY <2>1, <2>2, OneTaskMoves
<1>2. ASSUME NEW w \in Workers, PlanStep(w) PROVE TaskInv'
  <2>c. PICK c : c = task[w].of
    OBVIOUS
  <2>0. TaskOK(task[w])
    BY DEF TaskInv
  <2>1. CASE ReviewExplicit(w)
    <3>1. c \in Explicit /\ c \notin Manual
      BY <2>c, <2>1, ConstantsAssumption DEF ReviewExplicit
    <3>2. unwanted \subseteq unwanted'
      BY <2>1 DEF ReviewExplicit
    <3>3. CASE Enter(w, "record", "send")
      BY <2>c, <3>1, <3>2, <3>3, OneTaskMoves DEF Enter, TaskOK
    <3>4. CASE Enter(w, "record", "skip") /\ c \in unwanted'
      BY <2>c, <3>1, <3>2, <3>4, OneTaskMoves DEF Enter, TaskOK
    <3>5. CASE Enter(w, "plan", "send")
      BY <2>c, <3>1, <3>2, <3>5, OneTaskMoves DEF Enter, TaskOK
    <3>. QED BY <2>c, <2>1, <3>3, <3>4, <3>5 DEF ReviewExplicit
  <2>2. CASE RecordVerdict(w)
    <3>1. /\ c \in Explicit /\ c \notin Manual /\ unwanted' = unwanted
          /\ task[w].verdict = "send" \/ c \in unwanted
      BY <2>c, <2>0, <2>2, ConstantsAssumption DEF RecordVerdict, Working, TaskOK
    <3>2. CASE task[w].verdict = "send"
      <4>1. Enter(w, "plan", "send")
        BY <2>2, <3>2 DEF RecordVerdict
      <4>. QED BY <2>c, <3>1, <4>1, OneTaskMoves DEF Enter, TaskOK
    <3>3. CASE task[w].verdict # "send"
      <4>1. Enter(w, "plan", "none") /\ c \in unwanted
        BY <2>2, <3>1, <3>3 DEF RecordVerdict
      <4>. QED BY <2>c, <3>1, <4>1, OneTaskMoves DEF Enter, TaskOK
    <3>. QED BY <3>2, <3>3
  <2>3. CASE InheritDuplicate(w)
    <3>1. c \in Manual /\ c \notin Explicit /\ unwanted' = unwanted
      BY <2>c, <2>0, <2>3, ConstantsAssumption DEF InheritDuplicate, Working, TaskOK
    <3>2. CASE Enter(w, "review", "none")
      BY <3>1, <3>2, OneTaskMoves DEF Enter, TaskOK
    <3>3. ASSUME NEW by, Resolve(c, "skip", by), Enter(w, "plan", "none") PROVE TaskInv'
      <4>1. ~Pending(c)'
        BY <3>1, <3>3 DEF Resolve, Pending, Decided, Undecided, TypeOK, Classifications
      <4>. QED BY <2>c, <3>1, <3>3, <4>1, OneTaskMoves DEF Enter, TaskOK
    <3>. QED BY <2>c, <2>3, <3>2, <3>3 DEF InheritDuplicate
  <2>4. CASE ReviewManual(w)
    <3>1. c \in Manual /\ c \notin Explicit /\ c \in Classifications /\ unwanted' = unwanted
      BY <2>c, <2>4, ConstantsAssumption DEF ReviewManual, Classifications
    <3>2. CASE ~Pending(c) /\ Enter(w, "plan", "none")
      BY <2>c, <3>1, <3>2, OneTaskMoves, OutcomesStay DEF Enter, TaskOK
    <3>3. CASE \E verdict \in {"send", "skip"} : Enter(w, "resolve", verdict)
      BY <2>c, <3>1, <3>3, OneTaskMoves DEF Enter, TaskOK
    <3>4. CASE Enter(w, "defer", "none")
      BY <3>1, <3>4, OneTaskMoves DEF Enter, TaskOK
    <3>. QED BY <2>c, <2>4, <3>2, <3>3, <3>4 DEF ReviewManual, WhenUnavailable
  <2>5. CASE ResolveAiReview(w)
    <3>1. /\ c \in Manual /\ c \notin Explicit /\ c \in Classifications
          /\ unwanted' = unwanted /\ Enter(w, "plan", "none")
      BY <2>c, <2>0, <2>5, ConstantsAssumption DEF ResolveAiReview, Working, TaskOK, Classifications
    <3>2. ~Pending(c)'
      <4>1. CASE Pending(c)
        BY <2>c, <2>5, <3>1, <4>1 DEF ResolveAiReview, ResolveReview, Resolve, Pending, Decided,
           Undecided, TypeOK
      <4>2. CASE ~Pending(c)
        BY <3>1, <4>2, OutcomesStay
      <4>. QED BY <4>1, <4>2
    <3>. QED BY <2>c, <3>1, <3>2, OneTaskMoves DEF Enter, TaskOK
  <2>6. CASE DeferEvent(w) \/ FailEvent(w)
    BY <2>6, OneTaskMoves DEF DeferEvent, FailEvent, Stop, Idle, TaskOK
  <2>7. CASE PlanNotification(w)
    <3>1. unwanted' = unwanted /\ (Stop(w) \/ Enter(w, "failing", "none"))
      BY <2>7 DEF PlanNotification
    <3>2. CASE Stop(w)
      BY <3>1, <3>2, OneTaskMoves DEF Stop, Idle, TaskOK
    <3>3. CASE Enter(w, "failing", "none")
      BY <3>1, <3>3, OneTaskMoves DEF Enter, TaskOK
    <3>. QED BY <3>1, <3>2, <3>3
  <2>. QED BY <1>2, <2>1, <2>2, <2>3, <2>4, <2>5, <2>6, <2>7 DEF PlanStep
<1>3. ASSUME NEW w \in Workers, TransactionFails(w) \/ Crash(w) PROVE TaskInv'
  <2>1. unwanted' = unwanted /\ (Stop(w) \/ Enter(w, "failing", "none"))
    BY <1>3 DEF TransactionFails, Crash
  <2>2. CASE Stop(w)
    BY <2>1, <2>2, OneTaskMoves DEF Stop, Idle, TaskOK
  <2>3. CASE Enter(w, "failing", "none")
    BY <2>1, <2>3, OneTaskMoves DEF Enter, TaskOK
  <2>. QED BY <2>1, <2>2, <2>3
<1>4. CASE UNCHANGED <<task, unwanted>>
  BY <1>4, TaskOKStays DEF TaskInv
<1>5. ASSUME NEW c \in Classifications, AdminStep(c) \/ LeaseExpires(c)
      PROVE  UNCHANGED <<task, unwanted>>
  BY <1>5 DEF AdminStep, ReviewSend, ReviewSkip, AiReject, AiApprove, LeaseExpires
<1>6. ASSUME NEW s \in Subscribers, NEW m \in Modes, SetMode(s, m) PROVE UNCHANGED <<task, unwanted>>
  BY <1>6 DEF SetMode
<1>7. ASSUME NEW p \in Posts, PostAges(p) PROVE UNCHANGED <<task, unwanted>>
  BY <1>7 DEF PostAges
<1>. QED BY <1>1, <1>2, <1>3, <1>4, <1>5, <1>6, <1>7 DEF Next, vars

-----------------------------------------------------------------------------
(* The theorems.                                                           *)

LEMMA InvariantStep ==
    ASSUME TypeOK, TaskInv, [Next]_vars
    PROVE  TypeOK' /\ TaskInv'
  BY NextTypeOK, NextTaskInv

LEMMA InitInvariant == Init => TypeOK /\ TaskInv
  BY ConstantsAssumption DEF Init, TypeOK, TaskInv, TaskOK, Idle, Tasks, Resolutions

LEMMA Invariant == Spec => [](TypeOK /\ TaskInv)
<1>. QED BY InitInvariant, InvariantStep, PTL DEF Spec

(* Every variable keeps its type: a processed event has no lease, and what *)
(* is delivered or in a digest belongs to a campaign.                      *)
THEOREM TypeCorrect == Spec => []TypeOK
  BY Invariant, PTL

(* However planner, Gemini and administrator interleave, a post has at     *)
(* most one campaign.                                                      *)
THEOREM PostsAreAnnouncedOnce == Spec => []OneCampaignPerPost
<1>1. Init => OneCampaignPerPost
  BY DEF Init, OneCampaignPerPost
<1>2. ASSUME TypeOK, TaskInv, OneCampaignPerPost, [Next]_vars PROVE OneCampaignPerPost'
  <2>1. CASE UNCHANGED outcomeVars
    BY <1>2, <2>1 DEF outcomeVars, OneCampaignPerPost
  <2>2. ASSUME NEW c \in Classifications, Outcome(c) PROVE OneCampaignPerPost'
    <3>1. CASE NoCampaign
      BY <1>2, <3>1 DEF NoCampaign, OneCampaignPerPost
    <3>2. CASE Announced(c)
      BY <1>2, <3>2 DEF Announced, CreateCampaign, PriorCampaigns, OneCampaignPerPost
    <3>. QED BY <2>2, <3>1, <3>2 DEF Outcome
  <2>. QED BY <1>2, <2>1, <2>2, StepOutcome
<1>. QED BY <1>1, <1>2, Invariant, PTL DEF Spec

(* A manual review that the administrator skipped is announced only by the *)
(* administrator.                                                          *)
THEOREM ManualSkipsStand == Spec => ManualSkipStands
<1>1. ASSUME TypeOK, TaskInv, [Next]_vars PROVE [\A c \in Manual : Stands(c)]_vars
  <2>1. ASSUME NEW c \in Manual PROVE Stands(c)
    <3>. SUFFICES ASSUME resolution[c] = Decided("skip", "admin"), c \in campaigns' \ campaigns
                  PROVE  resolution'[c] = Decided("send", "admin")
      BY DEF Stands
    <3>1. PICK d \in Classifications : Outcome(d)
      BY <1>1, StepOutcome DEF outcomeVars
    <3>2. Announced(d) /\ d = c
      BY <3>1 DEF Outcome, NoCampaign, Announced, CreateCampaign
    <3>3. c \notin Explicit /\ ~Pending(c)
      BY ConstantsAssumption DEF Pending, Decided, Undecided
    <3>. QED BY <3>2, <3>3 DEF Announced
  <2>. QED BY <2>1
<1>. QED BY <1>1, Invariant, PTL DEF Spec, ManualSkipStands

(* A "skip" of the administrator stands, for explicit posts too, from the  *)
(* moment their event is processed, whatever plans or retries follow.      *)
THEOREM LateSkipsStand == Spec => LateSkipStands
<1>1. ASSUME TypeOK, TaskInv, [Next]_vars PROVE [\A c \in done : Stands(c)]_vars
  <2>1. ASSUME NEW c \in done PROVE Stands(c)
    <3>. SUFFICES ASSUME resolution[c] = Decided("skip", "admin"), c \in campaigns' \ campaigns
                  PROVE  resolution'[c] = Decided("send", "admin")
      BY DEF Stands
    <3>1. PICK d \in Classifications : Outcome(d)
      BY <1>1, StepOutcome DEF outcomeVars
    <3>2. Announced(d) /\ d = c
      BY <3>1 DEF Outcome, NoCampaign, Announced, CreateCampaign
    <3>3. ~Pending(c)
      BY DEF Pending, Decided, Undecided
    <3>. QED BY <3>2, <3>3 DEF Announced
  <2>. QED BY <2>1
<1>. QED BY <1>1, Invariant, PTL DEF Spec, LateSkipStands

(* Whom a campaign reaches is settled once its event is processed: no      *)
(* command, retry or change of mode adds a delivery or a digest entry.     *)
THEOREM AddressesAreSettled == Spec => AddressesSettle
<1>1. ASSUME TypeOK, TaskInv, [Next]_vars
      PROVE  [\A c \in done \cap campaigns, s \in Subscribers : ReachesAsBefore(c, s)]_vars
  <2>1. ASSUME NEW c \in done \cap campaigns, NEW s \in Subscribers PROVE ReachesAsBefore(c, s)
    <3>1. CASE UNCHANGED outcomeVars \/ NoCampaign
      BY <3>1 DEF outcomeVars, NoCampaign, ReachesAsBefore
    <3>2. ASSUME NEW d \in Classifications, Announced(d) PROVE ReachesAsBefore(c, s)
      <4>1. d # c
        BY <3>2 DEF Announced, PriorCampaigns
      <4>. QED BY <3>2, <4>1 DEF Announced, CreateCampaign, Address, ReachesAsBefore
    <3>. QED BY <1>1, <3>1, <3>2, StepOutcome DEF Outcome
  <2>. QED BY <2>1
<1>. QED BY <1>1, Invariant, PTL DEF Spec, AddressesSettle

(* No classification is processed without its outcome: an announcement or  *)
(* Gemini's refusal of an explicit one, a resolution of a manual one, or   *)
(* the dead letter.                                                        *)
THEOREM NothingIsDropped == Spec => []NothingDropped
<1>1. Init => NothingDropped
  BY DEF Init, NothingDropped
<1>2. ASSUME TypeOK, TaskInv, NothingDropped, [Next]_vars PROVE NothingDropped'
  <2>. DEFINE Settled(c) == IF c \in Manual THEN ~Pending(c)
                            ELSE PriorCampaigns(c) # {} \/ c \in unwanted
  <2>1. ASSUME NEW c \in Classifications, Settled(c) PROVE Settled(c)'
    <3>1. unwanted \subseteq unwanted'
      BY <1>2 DEF Next, vars, ClaimEvent, PlanStep, ReviewExplicit, RecordVerdict,
         InheritDuplicate, ReviewManual, ResolveAiReview, DeferEvent, PlanNotification, FailEvent,
         TransactionFails, Crash, AdminStep, ReviewSend, ReviewSkip, AiReject, AiApprove,
         LeaseExpires, SetMode, PostAges
    <3>2. PriorCampaigns(c) \subseteq PriorCampaigns(c)'
      BY <1>2, OutcomesStay DEF PriorCampaigns
    <3>. QED BY <1>2, <2>1, <3>1, <3>2, OutcomesStay
  <2>2. ASSUME NEW w \in Workers, PlanNotification(w), NEW c, c = task[w].of,
               c \notin done, c \in done'
        PROVE  Settled(c)'
    <3>1. c \in Classifications /\ task[w].phase = "plan" /\ TaskOK(task[w])
      BY <1>2, <2>2, TaskFields DEF PlanNotification, Working, TaskInv
    <3>2. CASE c \in Manual
      BY <1>2, <2>2, <3>1, <3>2, OutcomesStay DEF TaskOK
    <3>3. CASE c \notin Manual /\ c \in unwanted
      BY <2>2, <3>3 DEF PlanNotification
    <3>4. CASE c \notin Manual /\ task[w].verdict = "send"
      <4>1. PriorCampaigns(c) # {} \/ c \in campaigns'
        BY <2>2, <3>4 DEF PlanNotification, CreateCampaign
      <4>2. PriorCampaigns(c)' # {}
        BY <1>2, <4>1, OutcomesStay DEF PriorCampaigns
      <4>. QED BY <3>4, <4>2
    <3>. QED BY <2>2, <3>1, <3>2, <3>3, <3>4 DEF TaskOK, Classifications
  <2>3. \A c \in done' \ dead' : c \in done \ dead \/ \E w \in Workers :
          PlanNotification(w) /\ c = task[w].of /\ c \notin done
    <3>1. CASE \E w \in Workers : PlanNotification(w)
      BY <1>2, <3>1 DEF PlanNotification, TypeOK
    <3>2. CASE \E w \in Workers : FailEvent(w)
      BY <1>2, <3>2 DEF FailEvent, TypeOK
    <3>3. CASE UNCHANGED <<done, dead>>
      BY <3>3
    <3>. QED
      BY <1>2, <3>1, <3>2, <3>3 DEF Next, vars, ClaimEvent, PlanStep, ReviewExplicit,
         RecordVerdict, InheritDuplicate, ReviewManual, ResolveAiReview, DeferEvent,
         TransactionFails, Crash, AdminStep, ReviewSend, ReviewSkip, AiReject, AiApprove,
         LeaseExpires, SetMode, PostAges, eventVars
  <2>4. done' \subseteq Classifications
    BY <1>2, NextTypeOK DEF TypeOK
  <2>5. ASSUME NEW c \in done' \ dead' PROVE Settled(c)'
    <3>1. CASE c \in done \ dead
      BY <1>2, <2>1, <2>4, <3>1 DEF NothingDropped
    <3>2. CASE \E w \in Workers : PlanNotification(w) /\ c = task[w].of /\ c \notin done
      BY <2>2, <3>2
    <3>. QED BY <2>3, <3>1, <3>2
  <2>. QED BY <2>5 DEF NothingDropped
<1>. QED BY <1>1, <1>2, Invariant, PTL DEF Spec
=============================================================================
