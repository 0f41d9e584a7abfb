------------------------ MODULE DecisionChainProofs ------------------------
(***************************************************************************)
(* Proofs about DecisionChain for every set of observations, answers and   *)
(* configurations, every threshold and every recovery time.                *)
(***************************************************************************)
EXTENDS DecisionChain, NaturalsInduction, WellFoundedInduction, TLAPS

-----------------------------------------------------------------------------
(* Actions and their order *)

LEMMA AtMostLowers ==
    ASSUME NEW action \in EnforcementAction, NEW ceiling \in EnforcementAction
    PROVE  /\ AtMost(action, ceiling) \in EnforcementAction
           /\ Order(AtMost(action, ceiling)) <= Order(action)
           /\ Order(AtMost(action, ceiling)) <= Order(ceiling)
           /\ AtMost(action, ceiling) = "BLOCK" => action = "BLOCK" /\ ceiling = "BLOCK"
  BY DEF AtMost, Order, EnforcementAction

LEMMA CeilingTyped ==
    ASSUME NEW rollout, NEW event
    PROVE  /\ Ceiling(rollout, event) \in EnforcementAction
           /\ Ceiling(rollout, event) = "BLOCK" => ActiveSwitches(rollout, event) = {}
  BY DEF Ceiling, EnforcementAction

\* What the mode of the rollout makes of an action.
LEMMA ModeActionLowers ==
    ASSUME NEW rollout, NEW action \in EnforcementAction, NEW event, NEW upstream \in BOOLEAN
    PROVE  /\ ModeAction(rollout, action, event, upstream) \in EnforcementAction
           /\ Order(ModeAction(rollout, action, event, upstream)) <= Order(action)
           /\ ModeAction(rollout, action, event, upstream) = "BLOCK" =>
                 /\ action = "BLOCK" /\ rollout.mode = "LIMITED_BLOCK"
                 /\ Matching(rollout.blocks, event) /\ upstream
  <1>1. "LOG" \in EnforcementAction
    BY DEF EnforcementAction
  <1>2. CASE \/ event.cohort \notin rollout.cohorts \/ rollout.mode = "TECHNICAL_SHADOW"
             \/ action \in {"IGNORE", "LOG"}
    BY <1>1, <1>2, AtMostLowers DEF ModeAction
  <1>3. CASE ~(\/ event.cohort \notin rollout.cohorts \/ rollout.mode = "TECHNICAL_SHADOW"
               \/ action \in {"IGNORE", "LOG"})
    <2>1. action \in {"ALERT", "BLOCK"}
      BY <1>3 DEF EnforcementAction
    <2> QED BY <1>3, <2>1 DEF ModeAction, Order, EnforcementAction
  <1> QED BY <1>2, <1>3

\* The rollout as a whole.
LEMMA RolloutLowers ==
    ASSUME NEW rollout, NEW action \in EnforcementAction, NEW event, NEW upstream \in BOOLEAN
    PROVE  /\ Rollout(rollout, action, event, upstream) \in EnforcementAction
           /\ Order(Rollout(rollout, action, event, upstream)) <= Order(action)
           /\ Rollout(rollout, action, event, upstream) = "BLOCK" =>
                 /\ action = "BLOCK" /\ rollout.mode = "LIMITED_BLOCK"
                 /\ Matching(rollout.blocks, event) /\ upstream
                 /\ ActiveSwitches(rollout, event) = {}
  <1> DEFINE a == ModeAction(rollout, action, event, upstream)
             c == Ceiling(rollout, event)
  <1>1. /\ a \in EnforcementAction /\ Order(a) <= Order(action)
        /\ a = "BLOCK" => /\ action = "BLOCK" /\ rollout.mode = "LIMITED_BLOCK"
                          /\ Matching(rollout.blocks, event) /\ upstream
    BY ModeActionLowers
  <1>2. c \in EnforcementAction /\ (c = "BLOCK" => ActiveSwitches(rollout, event) = {})
    BY CeilingTyped
  <1>3. Rollout(rollout, action, event, upstream) = AtMost(a, c)
    BY DEF Rollout
  <1> HIDE DEF a, c
  <1>4. /\ AtMost(a, c) \in EnforcementAction /\ Order(AtMost(a, c)) <= Order(a)
        /\ AtMost(a, c) = "BLOCK" => a = "BLOCK" /\ c = "BLOCK"
    BY <1>1, <1>2, AtMostLowers
  <1>5. \A x \in EnforcementAction : Order(x) \in 0..3
    BY DEF Order, EnforcementAction
  <1> QED BY <1>1, <1>2, <1>3, <1>4, <1>5

-----------------------------------------------------------------------------
(* The operators of the pipeline *)

LEMMA LocalTyped ==
    ASSUME NEW o \in Observation
    PROVE  AssessRisk(o) \in Assessment
  <1>1. o.contacts \in 0..6 /\ o.disclosures \in 0..5
    BY DEF Observation
  <1>2. CASE o.contacts >= 3
    BY <1>1, <1>2 DEF AssessRisk, Finding, Lesser, Assessment, RiskCategory
  <1>3. CASE o.contacts \in 1..2
    BY <1>1, <1>3 DEF AssessRisk, Finding, Lesser, Assessment, RiskCategory
  <1>4. CASE o.contacts = 0 /\ o.disclosures > 0
    BY <1>1, <1>4 DEF AssessRisk, Finding, Lesser, Assessment, RiskCategory
  <1>5. CASE o.contacts = 0 /\ o.disclosures = 0
    BY <1>5 DEF AssessRisk, Finding, Assessment, RiskCategory
  <1> QED BY <1>1, <1>2, <1>3, <1>4, <1>5

LEMMA FallbackTyped ==
    ASSUME NEW local \in Assessment
    PROVE  Fallback(local) \in Assessment
  <1>1. local.confidence \in 0..100
    BY DEF Assessment
  <1>2. Lesser(local.confidence, 50) \in 0..100 /\ Lesser(local.confidence, 69) \in 0..100
    BY <1>1 DEF Lesser
  <1> QED BY <1>2 DEF Fallback, Assessment

LEMMA AssessedTyped ==
    ASSUME NEW a \in Assessment, NEW source \in Source
    PROVE  Assessed(a, source) \in Result
  BY DEF Assessed, Result, EnforcementAction

\* A category with a rule has a first rule.
LEMMA FirstRuleFound ==
    ASSUME NEW category, NEW rules \in Seq(PolicyRule),
           \E i \in DOMAIN rules : rules[i].category = category
    PROVE  \E i \in DOMAIN rules :
              /\ FirstRule(category, rules) = rules[i]
              /\ rules[i].category = category
              /\ \A j \in 1..i - 1 : rules[j].category # category
  <1> DEFINE own == {i \in DOMAIN rules : rules[i].category = category}
             R == OpToRel(<, Nat)
  <1>1. DOMAIN rules = 1..Len(rules) /\ Len(rules) \in Nat
    OBVIOUS
  <1>2. own # {} /\ own \subseteq Nat
    BY <1>1
  <1>3. \A m, n \in Nat : m < n => <<m, n>> \in R
    BY DEF OpToRel
  <1>4. IsWellFoundedOn(R, Nat)
    BY NatLessThanWellFounded
  <1> HIDE DEF R
  <1>5. PICK i \in own : \A j \in own : ~(<<j, i>> \in R)
    BY <1>2, <1>4, WFMin
  <1>6. ASSUME NEW j \in own
        PROVE  i <= j
    <2>1. i \in Nat /\ j \in Nat
      BY <1>2
    <2>2. ~(j < i)
      BY <1>3, <1>5, <2>1
    <2> QED BY <2>1, <2>2
  <1> DEFINE first == CHOOSE m \in own : \A j \in own : m <= j
  <1>7. first \in own /\ \A j \in own : first <= j
    BY <1>5, <1>6
  <1>8. FirstRule(category, rules) = rules[first]
    BY DEF FirstRule
  <1>9. ASSUME NEW j \in 1..first - 1
        PROVE  rules[j].category # category
    <2>1. first \in 1..Len(rules)
      BY <1>1, <1>7
    <2> HIDE DEF first
    <2>2. j \in DOMAIN rules /\ j < first /\ ~(first <= j)
      BY <1>1, <2>1
    <2>3. j \notin own
      BY <1>7, <2>2
    <2> QED BY <2>2, <2>3
  <1> QED BY <1>7, <1>8, <1>9

\* The first rule of a category asks for the block.
RuleBlocks(a, rules) ==
    \E i \in DOMAIN rules :
        /\ rules[i].category = a.category /\ rules[i].action = "BLOCK"
        /\ rules[i].confidence <= a.confidence
        /\ \A j \in 1..i - 1 : rules[j].category # a.category

LEMMA PolicyTyped ==
    ASSUME NEW a \in Assessment, NEW rules \in Seq(PolicyRule)
    PROVE  /\ PolicyAction(a, rules) \in EnforcementAction
           /\ PolicyAction(a, rules) = "BLOCK" => RuleBlocks(a, rules)
  <1>1. CASE \A i \in DOMAIN rules : rules[i].category # a.category
    BY <1>1 DEF PolicyAction, EnforcementAction
  <1>2. CASE \E i \in DOMAIN rules : rules[i].category = a.category
    <2> DEFINE rule == FirstRule(a.category, rules)
    <2>1. PICK i \in DOMAIN rules :
              /\ rule = rules[i]
              /\ rules[i].category = a.category
              /\ \A j \in 1..i - 1 : rules[j].category # a.category
      BY <1>2, FirstRuleFound
    <2>2. rules[i] \in PolicyRule
      OBVIOUS
    <2>3. /\ rules[i].action \in {"ALLOW", "ALERT", "BLOCK"}
          /\ rules[i].confidence \in 0..100 /\ a.confidence \in 0..100
      BY <2>2 DEF PolicyRule, Assessment
    <2>4. PolicyAction(a, rules) \in {"IGNORE", "LOG", "ALERT", "BLOCK"}
      BY <2>1, <2>3 DEF PolicyAction
    <2>5. PolicyAction(a, rules) = "BLOCK" =>
              rule.action = "BLOCK" /\ ~(a.confidence < rule.confidence)
      BY <1>2, <2>1, <2>3 DEF PolicyAction
    <2> DEFINE asked == rules[i].confidence
               sure == a.confidence
    <2>6. PolicyAction(a, rules) = "BLOCK" => rules[i].action = "BLOCK" /\ asked <= sure
      <3>1. asked \in 0..100 /\ sure \in 0..100
        BY <2>3
      <3>2. PolicyAction(a, rules) = "BLOCK" => rules[i].action = "BLOCK" /\ ~(sure < asked)
        BY <2>1, <2>5
      <3> HIDE DEF asked, sure
      <3> QED BY <3>1, <3>2
    <2>7. PolicyAction(a, rules) \in EnforcementAction
      BY <2>4 DEF EnforcementAction
    <2>8. ASSUME PolicyAction(a, rules) = "BLOCK"
          PROVE  RuleBlocks(a, rules)
      <3> SUFFICES \E n \in DOMAIN rules :
              /\ rules[n].category = a.category /\ rules[n].action = "BLOCK"
              /\ rules[n].confidence <= a.confidence
              /\ \A j \in 1..n - 1 : rules[j].category # a.category
        BY DEF RuleBlocks
      <3> WITNESS i \in DOMAIN rules
      <3> QED BY <2>1, <2>6, <2>8
    <2> QED BY <2>7, <2>8
  <1> QED BY <1>1, <1>2

\* What the risk controls allow at most.
LEMMA MaximumTyped ==
    ASSUME NEW a \in Assessment, NEW versions, NEW eligible \in BOOLEAN
    PROVE  /\ MaximumAction(a, versions, eligible) \in EnforcementAction
           /\ MaximumAction(a, versions, eligible) = "BLOCK" =>
                 /\ a.risk = "HIGH"
                 /\ Cleared(a.category, versions) /\ ~Killed(a.category, versions)
  BY DEF MaximumAction, EnforcementAction

-----------------------------------------------------------------------------
(* Type correctness *)

LEMMA ConfigTyped ==
    ASSUME TypeOK
    PROVE  /\ config.rules \in Seq(PolicyRule)
           /\ config.demo \in BOOLEAN /\ config.automatic \in BOOLEAN
           /\ config.released \in BOOLEAN
  BY ChainConstants DEF TypeOK, Configuration

\* The step tells what a run holds.
LEMMA RunTyped ==
    ASSUME TypeOK
    PROVE  /\ run.step \in {"IDLE", "CALLING", "ASSESSED", "DECIDED", "CONTROLLED", "DONE"}
           /\ run.step = "CALLING" => run \in Calling
           /\ run.step \in {"ASSESSED", "DECIDED", "CONTROLLED", "DONE"} => run \in Result
  BY DEF TypeOK, Idle, Calling, Result

LEMMA ClosedOrOpened ==
    ASSUME TypeOK
    PROVE  /\ breaker.failures \in Nat /\ breaker.opened \in 0..MaxTime \cup {Closed}
           /\ now \in 0..MaxTime /\ now # Closed /\ now \in Nat
           /\ NewBreaker \in [failures: Nat, opened: 0..MaxTime \cup {Closed}]
           /\ WithFailure \in [failures: Nat, opened: 0..MaxTime \cup {Closed}]
  BY ChainConstants DEF TypeOK, NewBreaker, WithFailure

LEMMA InitTypeOK == Init => TypeOK
  BY ChainConstants DEF Init, TypeOK, NewBreaker, Idle

LEMMA ObserveTypeOK ==
    ASSUME TypeOK, NEW o \in Observations, Observe(o)
    PROVE  TypeOK'
  <1> DEFINE local == AssessRisk(o)
  <1>1. o \in Observation
    BY ChainConstants
  <1>2. local \in Assessment
    BY <1>1, LocalTyped
  <1> HIDE DEF local
  <1>3. Fallback(local) \in Assessment
    BY <1>2, FallbackTyped
  <1>4. Assessed(local, "LOCAL") \in Result /\ Assessed(Fallback(local), "FALLBACK") \in Result
    BY <1>2, <1>3, AssessedTyped DEF Source
  <1>5. [step |-> "CALLING", local |-> local, attempts |-> 0] \in Calling
    BY <1>2, ChainConstants DEF Calling
  <1>6. run' \in Calling \cup Result
    BY <1>4, <1>5 DEF Observe, local
  <1>7. breaker' \in {breaker, NewBreaker}
    BY DEF Observe, AfterRecovery
  <1>8. UNCHANGED <<now, config>>
    BY DEF Observe
  <1> QED BY <1>6, <1>7, <1>8, ClosedOrOpened DEF TypeOK

LEMMA FailureTypeOK ==
    ASSUME TypeOK, NEW retryable \in BOOLEAN, RemoteFails(retryable)
    PROVE  TypeOK'
  <1>1. run \in Calling /\ run.local \in Assessment /\ run.attempts \in Nat
    BY RunTyped DEF RemoteFails, Calling
  <1>2. Assessed(Fallback(run.local), "FALLBACK") \in Result
    BY <1>1, FallbackTyped, AssessedTyped DEF Source
  <1>3. run.attempts + 1 < MAX_ATTEMPTS => [run EXCEPT !.attempts = @ + 1] \in Calling
    BY <1>1, ChainConstants DEF Calling
  <1>4. run' \in Calling \cup Result
    BY <1>2, <1>3 DEF RemoteFails
  <1>5. breaker' = WithFailure /\ UNCHANGED <<now, config>>
    BY DEF RemoteFails
  <1> QED BY <1>4, <1>5, ClosedOrOpened DEF TypeOK

LEMMA PolicyApplied ==
    ASSUME TypeOK, ApplyPolicy
    PROVE  /\ run \in Result /\ run' \in Result
           /\ run' = [run EXCEPT !.step = "DECIDED", !.action = run'.action]
           /\ run'.action = "BLOCK" =>
                 /\ run.eligible /\ RuleBlocks(run.assessment, config.rules)
                 /\ config.automatic /\ (config.demo \/ config.released)
  <1> DEFINE p == PolicyAction(run.assessment, config.rules)
             e == EligibleAction(p, run.eligible)
             r == ReleasedAction(e)
  <1>1. run \in Result
    BY RunTyped DEF ApplyPolicy
  <1>2. run.assessment \in Assessment /\ run.eligible \in BOOLEAN
    BY <1>1 DEF Result
  <1>3. p \in EnforcementAction /\ (p = "BLOCK" => RuleBlocks(run.assessment, config.rules))
    BY <1>2, ConfigTyped, PolicyTyped
  <1> HIDE DEF p
  <1>4. e \in EnforcementAction /\ (e = "BLOCK" => p = "BLOCK" /\ run.eligible)
    BY <1>3 DEF EligibleAction, EnforcementAction
  <1> HIDE DEF e
  <1>5. /\ r \in EnforcementAction
        /\ r = "BLOCK" => e = "BLOCK" /\ config.automatic /\ (config.demo \/ config.released)
    BY <1>4, ConfigTyped DEF ReleasedAction, EnforcementAction
  <1>6. run' = [run EXCEPT !.step = "DECIDED", !.action = r]
    BY DEF ApplyPolicy, p, e
  <1> HIDE DEF r
  <1>7. run' \in Result /\ run'.action = r
    BY <1>1, <1>5, <1>6 DEF Result
  <1> QED BY <1>1, <1>3, <1>4, <1>5, <1>6, <1>7

\* What the risk controls ask of a block.
ControlsAllow(result) ==
    /\ config.controls # NoControls
    /\ result.assessment.risk = "HIGH"
    /\ Cleared(result.assessment.category, result.source)
    /\ ~Killed(result.assessment.category, result.source)

LEMMA ControlsApplied ==
    ASSUME TypeOK, ApplyControls, run' # Idle
    PROVE  /\ run \in Result /\ run' \in Result
           /\ run' = [run EXCEPT !.step = "CONTROLLED", !.action = run'.action,
                                 !.upstream = run'.upstream]
           /\ run'.action = "BLOCK" => run.action = "BLOCK"
           /\ Order(run'.action) <= Order(run.action)
           /\ run'.upstream => ControlsAllow(run)
  <1> DEFINE a == run.assessment
             safe == a.risk = "SAFE" \/ a.category = NoCategory
             maximum == IF safe THEN "IGNORE" ELSE MaximumAction(a, run.source, run.eligible)
             lowered == AtMost(run.action, maximum)
  <1>1. run \in Result
    BY RunTyped DEF ApplyControls
  <1>2. a \in Assessment /\ run.eligible \in BOOLEAN /\ run.action \in EnforcementAction
    BY <1>1 DEF Result
  <1>3. /\ maximum \in EnforcementAction
        /\ maximum = "BLOCK" => /\ a.risk = "HIGH"
                                /\ Cleared(a.category, run.source) /\ ~Killed(a.category, run.source)
    <2>1. CASE safe
      BY <2>1 DEF EnforcementAction
    <2>2. CASE ~safe
      BY <1>2, <2>2, MaximumTyped
    <2> QED BY <2>1, <2>2
  <1>4. /\ config.controls # NoControls
        /\ run' = [run EXCEPT !.step = "CONTROLLED", !.action = lowered,
                              !.upstream = maximum = "BLOCK"]
    BY DEF ApplyControls
  <1> HIDE DEF maximum
  <1>5. /\ lowered \in EnforcementAction /\ Order(lowered) <= Order(run.action)
        /\ lowered = "BLOCK" => run.action = "BLOCK"
    BY <1>2, <1>3, AtMostLowers
  <1> DEFINE allowed == maximum = "BLOCK"
  <1>6. allowed \in BOOLEAN /\ (allowed => ControlsAllow(run))
    BY <1>3, <1>4 DEF ControlsAllow
  <1>7. run' = [run EXCEPT !.step = "CONTROLLED", !.action = lowered, !.upstream = allowed]
    BY <1>4
  <1> HIDE DEF lowered, allowed
  <1>8. run' \in Result /\ run'.action = lowered /\ run'.upstream = allowed
    BY <1>1, <1>5, <1>6, <1>7 DEF Result
  <1> QED BY <1>1, <1>5, <1>6, <1>7, <1>8

\* What the rollout asks of a block.
RolloutAllows(result) ==
    /\ config.rollout.mode = "LIMITED_BLOCK"
    /\ Matching(config.rollout.blocks, EventOf(result))
    /\ ActiveSwitches(config.rollout, EventOf(result)) = {}

LEMMA RolloutApplied ==
    ASSUME TypeOK, ApplyRollout
    PROVE  /\ run \in Result /\ run' \in Result
           /\ run' = [run EXCEPT !.step = "DONE", !.action = run'.action]
           /\ Order(run'.action) <= Order(run.action)
           /\ run'.action = "BLOCK" => run.action = "BLOCK" /\ run.upstream /\ RolloutAllows(run)
  <1> DEFINE rolled == Rollout(config.rollout, run.action, EventOf(run), run.upstream)
  <1>1. run \in Result
    BY RunTyped DEF ApplyRollout
  <1>2. run.action \in EnforcementAction /\ run.upstream \in BOOLEAN
    BY <1>1 DEF Result
  <1>3. /\ rolled \in EnforcementAction /\ Order(rolled) <= Order(run.action)
        /\ rolled = "BLOCK" => run.action = "BLOCK" /\ run.upstream /\ RolloutAllows(run)
    BY <1>2, RolloutLowers DEF RolloutAllows
  <1>4. run' = [run EXCEPT !.step = "DONE", !.action = rolled]
    BY DEF ApplyRollout
  <1> HIDE DEF rolled
  <1>5. run' \in Result /\ run'.action = rolled
    BY <1>1, <1>3, <1>4 DEF Result
  <1> QED BY <1>1, <1>3, <1>4, <1>5

LEMMA StepTypeOK == TypeOK /\ [Next]_vars => TypeOK'
  <1> SUFFICES ASSUME TypeOK, [Next]_vars
               PROVE  TypeOK'
    OBVIOUS
  <1>1. CASE Tick
    BY <1>1, ChainConstants DEF TypeOK, Tick
  <1>2. ASSUME NEW o \in Observations, Observe(o)
        PROVE  TypeOK'
    BY <1>2, ObserveTypeOK
  <1>3. ASSUME NEW a \in RemoteAnswers, RemoteAnswer(a)
        PROVE  TypeOK'
    <2>1. Assessed(a, "REMOTE") \in Result
      BY ChainConstants, AssessedTyped DEF Source
    <2> QED BY <1>3, <2>1, ClosedOrOpened DEF TypeOK, RemoteAnswer
  <1>4. ASSUME NEW retryable \in BOOLEAN, RemoteFails(retryable)
        PROVE  TypeOK'
    BY <1>4, FailureTypeOK
  <1>5. CASE RemoteInvalid
    BY <1>5, ClosedOrOpened DEF TypeOK, RemoteInvalid
  <1>6. CASE ApplyPolicy
    <2>1. UNCHANGED <<now, breaker, config>>
      BY <1>6 DEF ApplyPolicy
    <2> QED BY <1>6, <2>1, PolicyApplied DEF TypeOK
  <1>7. CASE ApplyControls
    <2>1. UNCHANGED <<now, breaker, config>>
      BY <1>7 DEF ApplyControls
    <2>2. run' \in {Idle} \cup Result
      BY <1>7, ControlsApplied
    <2> QED BY <2>1, <2>2 DEF TypeOK
  <1>8. CASE ApplyRollout
    <2>1. UNCHANGED <<now, breaker, config>>
      BY <1>8 DEF ApplyRollout
    <2> QED BY <1>8, <2>1, RolloutApplied DEF TypeOK
  <1>9. CASE UNCHANGED vars
    BY <1>9 DEF TypeOK, vars
  <1> QED BY <1>1, <1>2, <1>3, <1>4, <1>5, <1>6, <1>7, <1>8, <1>9 DEF Next

\* Types, with no lost or extra attempt of a call: whatever is observed, answered and
\* configured, the breaker and the assessment in progress stay well formed.
THEOREM ChainTypeCorrect == Spec => []TypeOK
  BY InitTypeOK, StepTypeOK, PTL DEF Spec

-----------------------------------------------------------------------------
(* The circuit breaker *)

\* A call in progress has added no more failures than it has made attempts.
BreakerInv ==
    /\ breaker.opened = Closed <=> breaker.failures < FAILURE_THRESHOLD
    /\ IF run.step = "CALLING"
       THEN breaker.failures <= FAILURE_THRESHOLD - 1 + run.attempts
       ELSE breaker.failures <= FAILURE_THRESHOLD - 1 + MAX_ATTEMPTS

LEMMA BreakerImplied == TypeOK /\ BreakerInv => BreakerHolds
  <1> SUFFICES ASSUME TypeOK, BreakerInv
               PROVE  BreakerHolds
    OBVIOUS
  <1>1. CASE run.step = "CALLING"
    <2>1. run.attempts \in 0..MAX_ATTEMPTS - 1
      BY <1>1, RunTyped DEF Calling
    <2> QED BY <1>1, <2>1, ClosedOrOpened, ChainConstants DEF BreakerInv, BreakerHolds
  <1>2. CASE run.step # "CALLING"
    BY <1>2 DEF BreakerInv, BreakerHolds
  <1> QED BY <1>1, <1>2

LEMMA InitBreaker == Init => BreakerInv
  BY ChainConstants DEF Init, BreakerInv, NewBreaker, Idle

\* A failure counts once, and opens the breaker at the threshold.
LEMMA FailureCounted ==
    ASSUME TypeOK, BreakerInv, run.step = "CALLING", breaker' = WithFailure
    PROVE  /\ breaker'.opened = Closed <=> breaker'.failures < FAILURE_THRESHOLD
           /\ breaker'.failures <= FAILURE_THRESHOLD - 1 + (run.attempts + 1)
           /\ run.attempts \in 0..MAX_ATTEMPTS - 1
           /\ breaker'.failures \in Nat
  <1>1. run.attempts \in 0..MAX_ATTEMPTS - 1
    BY RunTyped DEF Calling
  <1>2. breaker'.failures = breaker.failures + 1
    BY DEF WithFailure
  <1>3. breaker'.opened = IF breaker.failures + 1 >= FAILURE_THRESHOLD THEN now ELSE breaker.opened
    BY DEF WithFailure
  <1> QED BY <1>1, <1>2, <1>3, ClosedOrOpened, ChainConstants DEF BreakerInv

LEMMA StepBreaker == TypeOK /\ BreakerInv /\ [Next]_vars => BreakerInv'
  <1> SUFFICES ASSUME TypeOK, BreakerInv, [Next]_vars
               PROVE  BreakerInv'
    OBVIOUS
  <1> USE DEF BreakerInv
  <1>1. ASSUME UNCHANGED breaker, run.step # "CALLING", run'.step # "CALLING"
        PROVE  BreakerInv'
    BY <1>1
  <1>2. CASE Tick \/ UNCHANGED vars
    BY <1>2 DEF Tick, vars
  <1>3. ASSUME NEW o \in Observations, Observe(o)
        PROVE  BreakerInv'
    <2>1. run.step # "CALLING"
      BY <1>3 DEF Observe
    <2>2. CASE run'.step = "CALLING"
      <3>1. /\ run'.attempts = 0
            /\ breaker' = IF breaker.opened = Closed THEN breaker ELSE NewBreaker
        BY <1>3, <2>2 DEF Observe, Assessed, AfterRecovery
      <3> QED BY <2>1, <2>2, <3>1, ClosedOrOpened, ChainConstants DEF NewBreaker
    <2>3. CASE run'.step # "CALLING"
      BY <1>1, <1>3, <2>1, <2>3 DEF Observe
    <2> QED BY <2>2, <2>3
  <1>4. ASSUME NEW a \in RemoteAnswers, RemoteAnswer(a)
        PROVE  BreakerInv'
    BY <1>4, ChainConstants DEF RemoteAnswer, Assessed, NewBreaker
  <1>5. ASSUME NEW retryable \in BOOLEAN, RemoteFails(retryable)
        PROVE  BreakerInv'
    <2>1. /\ run.step = "CALLING" /\ breaker' = WithFailure
          /\ \/ run' = [run EXCEPT !.attempts = @ + 1]
             \/ run' = Assessed(Fallback(run.local), "FALLBACK")
      BY <1>5 DEF RemoteFails
    <2>2. run \in Calling
      BY <2>1, RunTyped
    <2>3. \/ run'.step = "CALLING" /\ run'.attempts = run.attempts + 1
          \/ run'.step # "CALLING"
      BY <2>1, <2>2 DEF Assessed, Calling
    <2> QED BY <2>1, <2>3, FailureCounted, ChainConstants
  <1>6. CASE RemoteInvalid
    <2>1. run.step = "CALLING" /\ breaker' = WithFailure /\ run'.step # "CALLING"
      BY <1>6 DEF RemoteInvalid, Idle
    <2> QED BY <2>1, FailureCounted, ChainConstants
  <1>7. CASE ApplyPolicy
    <2>1. run.step # "CALLING" /\ UNCHANGED breaker /\ run'.step = "DECIDED"
      BY <1>7, PolicyApplied DEF ApplyPolicy, Result
    <2> QED BY <1>1, <2>1
  <1>8. CASE ApplyControls
    <2>1. run.step # "CALLING" /\ UNCHANGED breaker
      BY <1>8 DEF ApplyControls
    <2>2. run' = Idle \/ run'.step = "CONTROLLED"
      BY <1>8, ControlsApplied DEF Result
    <2> QED BY <1>1, <2>1, <2>2 DEF Idle
  <1>9. CASE ApplyRollout
    <2>1. run.step # "CALLING" /\ UNCHANGED breaker /\ run'.step = "DONE"
      BY <1>9, RolloutApplied DEF ApplyRollout, Result
    <2> QED BY <1>1, <2>1
  <1> QED BY <1>2, <1>3, <1>4, <1>5, <1>6, <1>7, <1>8, <1>9 DEF Next

\* The breaker is open exactly when the threshold is reached, and a failing provider is
\* called at most one assessment's retries beyond it, for any thresholds.
THEOREM BreakerAlwaysHolds == Spec => []BreakerHolds
  <1>1. Init => TypeOK /\ BreakerInv
    BY InitTypeOK, InitBreaker
  <1>2. (TypeOK /\ BreakerInv) /\ [Next]_vars => (TypeOK /\ BreakerInv)'
    BY StepTypeOK, StepBreaker
  <1>3. TypeOK /\ BreakerInv => BreakerHolds
    BY BreakerImplied
  <1> QED BY <1>1, <1>2, <1>3, PTL DEF Spec

-----------------------------------------------------------------------------
(* The gates of a block *)

\* What the family and the release ask of a block.
FamilyAsks(result) ==
    /\ result.source = "REMOTE"
    /\ RuleBlocks(result.assessment, config.rules)
    /\ config.automatic /\ (config.demo \/ config.released)

\* Each gate that is behind a run has left what it asks for.
GatesInv ==
    /\ run.step \in {"ASSESSED", "DECIDED", "CONTROLLED", "DONE"} =>
          (run.eligible => run.source = "REMOTE")
    /\ run.step \in {"ASSESSED", "DECIDED"} => ~run.upstream
    /\ run.step \in {"DECIDED", "CONTROLLED", "DONE"} /\ run.action = "BLOCK" => FamilyAsks(run)
    /\ run.step \in {"CONTROLLED", "DONE"} /\ run.upstream => ControlsAllow(run)
    /\ run.step = "DONE" /\ run.action = "BLOCK" => run.upstream /\ RolloutAllows(run)

LEMMA GatesImplied == GatesInv => BlockNeedsEveryGate
  <1> SUFFICES ASSUME GatesInv, run.step = "DONE", run.action = "BLOCK"
               PROVE  BlockNeedsEveryGate
    BY DEF BlockNeedsEveryGate
  <1>1. FamilyAsks(run) /\ ControlsAllow(run) /\ RolloutAllows(run)
    BY DEF GatesInv
  <1> QED BY <1>1 DEF BlockNeedsEveryGate, FamilyAsks, RuleBlocks, ControlsAllow, RolloutAllows

LEMMA InitGates == Init => GatesInv
  BY DEF Init, Idle, GatesInv

\* A run that has just been assessed has passed no gate.
LEMMA AssessedGates ==
    ASSUME NEW a, NEW source, run' = Assessed(a, source)
    PROVE  GatesInv'
  BY DEF Assessed, GatesInv

LEMMA NoResultGates ==
    ASSUME run'.step \in {"IDLE", "CALLING"}
    PROVE  GatesInv'
  BY DEF GatesInv

\* What was asked of a result is asked of one that differs in step and action only.
LEMMA GatesKept ==
    ASSUME UNCHANGED config, run'.assessment = run.assessment, run'.source = run.source
    PROVE  /\ FamilyAsks(run)' <=> FamilyAsks(run)
           /\ ControlsAllow(run)' <=> ControlsAllow(run)
           /\ RolloutAllows(run)' <=> RolloutAllows(run)
  BY DEF FamilyAsks, RuleBlocks, ControlsAllow, Cleared, Killed, RolloutAllows, EventOf

LEMMA PolicyGates ==
    ASSUME TypeOK, GatesInv, ApplyPolicy
    PROVE  GatesInv'
  <1>1. /\ run \in Result
        /\ run' = [run EXCEPT !.step = "DECIDED", !.action = run'.action]
        /\ run'.action = "BLOCK" =>
              /\ run.eligible /\ RuleBlocks(run.assessment, config.rules)
              /\ config.automatic /\ (config.demo \/ config.released)
    BY PolicyApplied
  <1>2. /\ run'.step = "DECIDED" /\ run'.assessment = run.assessment /\ run'.source = run.source
        /\ run'.eligible = run.eligible /\ run'.upstream = run.upstream
    BY <1>1 DEF Result
  <1>3. run.step = "ASSESSED" /\ UNCHANGED config
    BY DEF ApplyPolicy
  <1>4. run'.action = "BLOCK" => FamilyAsks(run)
    BY <1>1, <1>3 DEF GatesInv, FamilyAsks
  <1>5. run'.action = "BLOCK" => FamilyAsks(run)'
    BY <1>2, <1>3, <1>4, GatesKept
  <1> QED BY <1>2, <1>3, <1>5 DEF GatesInv

LEMMA ControlsGates ==
    ASSUME TypeOK, GatesInv, ApplyControls, run' # Idle
    PROVE  GatesInv'
  <1>1. /\ run \in Result
        /\ run' = [run EXCEPT !.step = "CONTROLLED", !.action = run'.action,
                              !.upstream = run'.upstream]
        /\ run'.action = "BLOCK" => run.action = "BLOCK"
        /\ run'.upstream => ControlsAllow(run)
    BY ControlsApplied
  <1>2. /\ run'.step = "CONTROLLED" /\ run'.assessment = run.assessment /\ run'.source = run.source
        /\ run'.eligible = run.eligible
    BY <1>1 DEF Result
  <1>3. run.step = "DECIDED" /\ UNCHANGED config
    BY DEF ApplyControls
  <1>4. run'.action = "BLOCK" => FamilyAsks(run)'
    BY <1>1, <1>2, <1>3, GatesKept DEF GatesInv
  <1>5. run'.upstream => ControlsAllow(run)'
    BY <1>1, <1>2, <1>3, GatesKept
  <1> QED BY <1>2, <1>3, <1>4, <1>5 DEF GatesInv

LEMMA RolloutGates ==
    ASSUME TypeOK, GatesInv, ApplyRollout
    PROVE  GatesInv'
  <1>1. /\ run \in Result
        /\ run' = [run EXCEPT !.step = "DONE", !.action = run'.action]
        /\ run'.action = "BLOCK" => run.action = "BLOCK" /\ run.upstream /\ RolloutAllows(run)
    BY RolloutApplied
  <1>2. /\ run'.step = "DONE" /\ run'.assessment = run.assessment /\ run'.source = run.source
        /\ run'.eligible = run.eligible /\ run'.upstream = run.upstream
    BY <1>1 DEF Result
  <1>3. run.step \in {"DECIDED", "CONTROLLED"} /\ UNCHANGED config
    BY DEF ApplyRollout
  <1>4. run'.action = "BLOCK" => FamilyAsks(run)' /\ RolloutAllows(run)'
    BY <1>1, <1>2, <1>3, GatesKept DEF GatesInv
  <1>5. run'.upstream => ControlsAllow(run)'
    BY <1>2, <1>3, GatesKept DEF GatesInv
  <1> QED BY <1>1, <1>2, <1>3, <1>4, <1>5 DEF GatesInv

LEMMA StepGates == TypeOK /\ GatesInv /\ [Next]_vars => GatesInv'
  <1> SUFFICES ASSUME TypeOK, GatesInv, [Next]_vars
               PROVE  GatesInv'
    OBVIOUS
  <1>1. CASE Tick \/ UNCHANGED vars
    <2>1. UNCHANGED <<config, run>>
      BY <1>1 DEF Tick, vars
    <2> QED BY <2>1, GatesKept DEF GatesInv
  <1>2. ASSUME NEW o \in Observations, Observe(o)
        PROVE  GatesInv'
    <2>1. \/ run'.step = "CALLING"
          \/ run' = Assessed(AssessRisk(o), "LOCAL")
          \/ run' = Assessed(Fallback(AssessRisk(o)), "FALLBACK")
      BY <1>2 DEF Observe
    <2> QED BY <2>1, AssessedGates, NoResultGates
  <1>3. ASSUME NEW a \in RemoteAnswers, RemoteAnswer(a)
        PROVE  GatesInv'
    BY <1>3, AssessedGates DEF RemoteAnswer
  <1>4. ASSUME NEW retryable \in BOOLEAN, RemoteFails(retryable)
        PROVE  GatesInv'
    <2>1. run.step = "CALLING"
      BY <1>4 DEF RemoteFails
    <2>2. run \in Calling
      BY <2>1, RunTyped
    <2>3. run'.step = "CALLING" \/ run' = Assessed(Fallback(run.local), "FALLBACK")
      BY <1>4, <2>2 DEF RemoteFails, Calling
    <2> QED BY <2>3, AssessedGates, NoResultGates
  <1>5. CASE RemoteInvalid
    BY <1>5, NoResultGates DEF RemoteInvalid, Idle
  <1>6. CASE ApplyPolicy
    BY <1>6, PolicyGates
  <1>7. CASE ApplyControls
    BY <1>7, ControlsGates, NoResultGates DEF Idle
  <1>8. CASE ApplyRollout
    BY <1>8, RolloutGates
  <1> QED BY <1>1, <1>2, <1>3, <1>4, <1>5, <1>6, <1>7, <1>8 DEF Next

\* No block reaches a device without the remote classifier's answer, the family's first
\* rule, the release, the risk controls and the rollout, whatever the configuration.
THEOREM BlocksPassEveryGate == Spec => []BlockNeedsEveryGate
  <1>1. Init => TypeOK /\ GatesInv
    BY InitTypeOK, InitGates
  <1>2. (TypeOK /\ GatesInv) /\ [Next]_vars => (TypeOK /\ GatesInv)'
    BY StepTypeOK, StepGates
  <1>3. TypeOK /\ GatesInv => BlockNeedsEveryGate
    BY GatesImplied
  <1> QED BY <1>1, <1>2, <1>3, PTL DEF Spec

LEMMA StepLowers ==
    ASSUME TypeOK, [Next]_vars,
           run.step \in {"DECIDED", "CONTROLLED"}, run'.step \in {"CONTROLLED", "DONE"}
    PROVE  Order(run'.action) <= Order(run.action)
  <1>1. CASE UNCHANGED run
    <2>1. run.action \in EnforcementAction
      BY RunTyped DEF Result
    <2> QED BY <1>1, <2>1 DEF Order, EnforcementAction
  <1>2. CASE ApplyControls
    BY <1>2, ControlsApplied DEF Idle
  <1>3. CASE ApplyRollout
    BY <1>3, RolloutApplied
  <1>4. UNCHANGED run \/ ApplyControls \/ ApplyRollout
    BY DEF Next, vars, Tick, Observe, RemoteAnswer, RemoteFails, RemoteInvalid, ApplyPolicy
  <1> QED BY <1>1, <1>2, <1>3, <1>4

\* The gates behind the policy never make a device do more than the family's rules ask for.
THEOREM GatesAlwaysLower == Spec => GatesOnlyLower
  <1>1. TypeOK /\ [Next]_vars =>
           [run.step \in {"DECIDED", "CONTROLLED"} /\ run'.step \in {"CONTROLLED", "DONE"} =>
               Order(run'.action) <= Order(run.action)]_vars
    BY StepLowers
  <1> QED BY <1>1, ChainTypeCorrect, PTL DEF Spec, GatesOnlyLower
=============================================================================
