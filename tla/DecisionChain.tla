---------------------------- MODULE DecisionChain ----------------------------
(***************************************************************************)
(* From an observation to the action that may reach the device: local      *)
(* rules, remote classifier behind a circuit breaker, fallback             *)
(* (risk_engine/engine.py, providers.py, pipeline.py), family policy and   *)
(* release gate (guardian_core/policy.py, gates.py, agent/main.py), risk   *)
(* controls (risk_engine/calibration.py) and pilot rollout.                *)
(*                                                                         *)
(* One pipeline assesses one observation after another; the configuration  *)
(* is fixed in each behaviour, and any in Init.  Confidence is in percent. *)
(***************************************************************************)
EXTENDS PilotRollout, Sequences

CONSTANTS
    Observations,       \* what may be seen, see Observation
    RemoteAnswers,      \* what the remote classifier may say, see Assessment
    Configurations,     \* see Configuration
    NoControls,         \* the caller passes no risk controls
    Closed,             \* the breaker is not open
    FAILURE_THRESHOLD, RECOVERY, MAX_ATTEMPTS,
    MaxTime             \* bound

\* Confidence is ordered and capped, but not computed with: 0..100 stands for [0, 1].
Assessment ==
    [risk: {"SAFE", "LOW", "MEDIUM", "HIGH"}, category: RiskCategory \cup {NoCategory},
     confidence: 0..100]

\* How many kinds of personal information are asked for and given away, which other
\* markers the text has, and what else the observation holds.
Observation ==
    [contacts: 0..6, disclosures: 0..5,
     markers: SUBSET {"EDUCATIONAL", "TEXTBOOK", "ADULT", "HATE"},
     holds: SUBSET {"TEXT", "MESSAGES", "MEDIA", "FRAME"}]

Source == {"LOCAL", "REMOTE", "FALLBACK"}

PolicyRule == [category: RiskCategory, action: {"ALLOW", "ALERT", "BLOCK"},
               risk: {"SAFE", "LOW", "MEDIUM", "HIGH"}, confidence: 0..100]

\* A calibration curve is a sequence of points <<raw, calibrated>>.
CategoryControls == [curve: Seq((0..100) \X (0..100)), log: 0..100, alert: 0..100,
                     block: 0..100]

\* The categories of risk controls, those with a kill switch, and those with a block
\* approval for the exact versions.
RiskControls == [categories: [{"ADULT_CONTENT"} -> CategoryControls],
                 killed: SUBSET (RiskCategory \X (Versions \cup {Every})),
                 approved: SUBSET (RiskCategory \X Versions)]

\* demo: controlled demo, in development or test.
Configuration ==
    [rules: Seq(PolicyRule), demo: BOOLEAN, automatic: BOOLEAN, released: BOOLEAN,
     controls: RiskControls \cup {NoControls}, cohort: Cohorts,
     rollout: PilotRolloutConfig]

ASSUME ChainConstants ==
    /\ Observations \subseteq Observation
    /\ RemoteAnswers \subseteq Assessment
    /\ Configurations \subseteq Configuration
    /\ Source \subseteq Versions
    /\ Closed \notin Nat
    /\ FAILURE_THRESHOLD \in Nat \ {0} /\ MAX_ATTEMPTS \in 1..3
    /\ RECOVERY \in Nat /\ MaxTime \in Nat

VARIABLES
    now,
    breaker,        \* CircuitBreaker
    config,
    run             \* the assessment in progress

vars == <<now, breaker, config, run>>

Idle == [step |-> "IDLE"]

Calling == [step: {"CALLING"}, local: Assessment, attempts: 0..MAX_ATTEMPTS - 1]

\* versions stands for the source: each has its model and prompt.
Result == [step: {"ASSESSED", "DECIDED", "CONTROLLED", "DONE"}, assessment: Assessment,
           source: Source, eligible: BOOLEAN, action: EnforcementAction, upstream: BOOLEAN]

TypeOK ==
    /\ now \in 0..MaxTime
    /\ breaker \in [failures: Nat, opened: 0..MaxTime \cup {Closed}]
    /\ config \in Configurations
    /\ run \in {Idle} \cup Calling \cup Result

NewBreaker == [failures |-> 0, opened |-> Closed]

Init ==
    /\ now = 0
    /\ breaker = NewBreaker
    /\ config \in Configurations
    /\ run = Idle

Tick ==
    /\ now < MaxTime
    /\ now' = now + 1
    /\ UNCHANGED <<breaker, config, run>>

-----------------------------------------------------------------------------
(* Local rules *)

Lesser(a, b) == IF a < b THEN a ELSE b

Finding(risk, category, confidence) ==
    [risk |-> risk, category |-> category, confidence |-> confidence]

\* assess_risk: the first rule that applies.
AssessRisk(o) ==
    CASE o.contacts >= 3 ->
            Finding("HIGH", "DANGEROUS_CONTACT", Lesser(82 + (o.contacts - 3) * 4, 98))
      [] o.contacts \in 1..2 ->
            Finding("MEDIUM", "DANGEROUS_CONTACT", Lesser(48 + o.contacts * 10, 72))
      [] o.contacts = 0 /\ o.disclosures > 0 ->
            Finding(IF o.disclosures >= 2 THEN "HIGH" ELSE "MEDIUM", "DANGEROUS_CONTACT",
                    Lesser(58 + o.disclosures * 12, 94))
      [] OTHER ->
            IF "EDUCATIONAL" \in o.markers THEN Finding("SAFE", NoCategory, 94)
            ELSE IF "ADULT" \in o.markers THEN Finding("HIGH", "ADULT_CONTENT", 91)
            ELSE IF "HATE" \in o.markers THEN Finding("HIGH", "HATE_SPEECH", 88)
            ELSE Finding("SAFE", NoCategory, 90)

\* A textbook, or nothing at all to look at: the remote classifier is not asked.
TrustedSafe(o, local) ==
    /\ local.risk = "SAFE" /\ local.confidence >= 90
    /\ o.holds \cap {"MESSAGES", "MEDIA"} = {}
    /\ "TEXTBOOK" \in o.markers \/ o.holds \cap {"TEXT", "FRAME"} = {}

\* ConservativeFallbackProvider: unsure of what is safe, MEDIUM for what is not.
Fallback(local) ==
    IF local.risk = "SAFE"
    THEN [local EXCEPT !.confidence = Lesser(@, 50)]
    ELSE [local EXCEPT !.risk = "MEDIUM", !.confidence = Lesser(@, 69)]

-----------------------------------------------------------------------------
(* ContextualRiskPipeline.assess *)

Assessed(assessment, source) ==
    [step |-> "ASSESSED", assessment |-> assessment, source |-> source,
     eligible |-> source = "REMOTE", action |-> "IGNORE", upstream |-> FALSE]

Recovered == now - breaker.opened >= RECOVERY

\* Mutation: the failures before it opened still count after it closes again.
CloseOnly == [breaker EXCEPT !.opened = Closed]

\* allow_request starts afresh once the breaker has been open for long enough.
AfterRecovery == NewBreaker

Observe(o) ==
    /\ run.step \in {"IDLE", "DONE"}
    /\ LET local == AssessRisk(o)
       IN  IF TrustedSafe(o, local)
           THEN run' = Assessed(local, "LOCAL") /\ UNCHANGED breaker
           ELSE IF breaker.opened # Closed /\ ~Recovered
           THEN run' = Assessed(Fallback(local), "FALLBACK") /\ UNCHANGED breaker
           ELSE /\ run' = [step |-> "CALLING", local |-> local, attempts |-> 0]
                /\ breaker' = IF breaker.opened = Closed THEN breaker ELSE AfterRecovery
    /\ UNCHANGED <<now, config>>

RemoteAnswer(answer) ==
    /\ run.step = "CALLING"
    /\ breaker' = NewBreaker
    /\ run' = Assessed(answer, "REMOTE")
    /\ UNCHANGED <<now, config>>

WithFailure ==
    LET failures == breaker.failures + 1
    IN  [failures |-> failures,
         opened |-> IF failures >= FAILURE_THRESHOLD THEN now ELSE breaker.opened]

\* Mutation: one attempt too many.
FailsOnceMore(retryable) ==
    /\ run.step = "CALLING"
    /\ breaker' = WithFailure
    /\ run' = IF retryable /\ run.attempts + 1 <= MAX_ATTEMPTS
              THEN [run EXCEPT !.attempts = @ + 1]
              ELSE Assessed(Fallback(run.local), "FALLBACK")
    /\ UNCHANGED <<now, config>>

\* Only a timeout or an unavailable provider is tried again, and without asking the
\* breaker again.
RemoteFails(retryable) ==
    /\ run.step = "CALLING"
    /\ breaker' = WithFailure
    /\ run' = IF retryable /\ run.attempts + 1 < MAX_ATTEMPTS
              THEN [run EXCEPT !.attempts = @ + 1]
              ELSE Assessed(Fallback(run.local), "FALLBACK")
    /\ UNCHANGED <<now, config>>

\* The agent raises on a result with an invalid answer (reject_invalid_pipeline_output).
RemoteInvalid ==
    /\ run.step = "CALLING"
    /\ breaker' = WithFailure
    /\ run' = Idle
    /\ UNCHANGED <<now, config>>

-----------------------------------------------------------------------------
(* apply_authenticated_pipeline_policy *)

RiskOrder == [SAFE |-> 0, LOW |-> 1, MEDIUM |-> 2, HIGH |-> 3]

\* The first rule of the category decides.
FirstRule(category, rules) ==
    LET own == {i \in DOMAIN rules : rules[i].category = category}
    IN  rules[CHOOSE i \in own : \A j \in own : i <= j]

PolicyAction(a, rules) ==
    LET rule == FirstRule(a.category, rules)
    IN  IF a.risk = "SAFE" \/ a.category = NoCategory THEN "IGNORE"
        ELSE IF \A i \in DOMAIN rules : rules[i].category # a.category THEN "LOG"
        ELSE IF \/ RiskOrder[a.risk] < RiskOrder[rule.risk]
                \/ a.confidence < rule.confidence
             THEN "LOG"
        ELSE IF rule.action = "ALLOW" THEN "IGNORE" ELSE rule.action

EligibleAction(action, eligible) ==
    IF action = "BLOCK" /\ ~eligible THEN "ALERT" ELSE action

\* apply_runtime_release_gate.
ReleasedAction(action) ==
    IF /\ action = "BLOCK"
       /\ ~(config.automatic /\ (config.demo \/ config.released))
    THEN "ALERT" ELSE action

ApplyPolicy ==
    /\ run.step = "ASSESSED"
    /\ LET action == EligibleAction(PolicyAction(run.assessment, config.rules), run.eligible)
       IN  run' = [run EXCEPT !.step = "DECIDED", !.action = ReleasedAction(action)]
    /\ UNCHANGED <<now, breaker, config>>

-----------------------------------------------------------------------------
(* apply_risk_controls *)

\* Linear between the points of the curve, flat outside.
Calibrated(raw, curve) ==
    IF raw <= curve[1][1] THEN curve[1][2]
    ELSE IF raw >= curve[Len(curve)][1] THEN curve[Len(curve)][2]
    ELSE LET i == CHOOSE i \in 1..Len(curve) - 1 :
                     curve[i][1] <= raw /\ raw <= curve[i + 1][1]
         IN  curve[i][2] + ((raw - curve[i][1]) * (curve[i + 1][2] - curve[i][2]))
                           \div (curve[i + 1][1] - curve[i][1])

Killed(category, versions) == {<<category, versions>>, <<category, Every>>} \cap config.controls.killed # {}

Cleared(category, versions) == <<category, versions>> \in config.controls.approved

MaximumAction(a, versions, eligible) ==
    LET own == config.controls.categories[a.category]
        calibrated == Calibrated(a.confidence, own.curve)
    IN  IF calibrated < own.log THEN "IGNORE"
        ELSE IF calibrated < own.alert \/ a.risk = "LOW" THEN "LOG"
        ELSE IF \/ calibrated < own.block \/ a.risk # "HIGH" \/ ~eligible
                \/ Killed(a.category, versions) \/ ~Cleared(a.category, versions)
             THEN "ALERT"
        ELSE "BLOCK"

\* A category without controls is an error, and the run ends.
ApplyControls ==
    /\ run.step = "DECIDED" /\ config.controls # NoControls
    /\ LET a == run.assessment
           safe == a.risk = "SAFE" \/ a.category = NoCategory
           maximum == IF safe THEN "IGNORE" ELSE MaximumAction(a, run.source, run.eligible)
       IN  IF ~safe /\ a.category \notin DOMAIN config.controls.categories
           THEN run' = Idle
           ELSE run' = [run EXCEPT !.step = "CONTROLLED", !.action = AtMost(@, maximum),
                                   !.upstream = maximum = "BLOCK"]
    /\ UNCHANGED <<now, breaker, config>>

-----------------------------------------------------------------------------
(* apply_pilot_rollout *)

EventOf(result) ==
    [category |-> result.assessment.category, cohort |-> config.cohort,
     versions |-> result.source]

ApplyRollout ==
    /\ run.step = IF config.controls = NoControls THEN "DECIDED" ELSE "CONTROLLED"
    /\ run' = [run EXCEPT !.step = "DONE",
                          !.action = Rollout(config.rollout, @, EventOf(run), run.upstream)]
    /\ UNCHANGED <<now, breaker, config>>

-----------------------------------------------------------------------------
Next ==
    \/ Tick
    \/ \E o \in Observations : Observe(o)
    \/ \E a \in RemoteAnswers : RemoteAnswer(a)
    \/ \E retryable \in BOOLEAN : RemoteFails(retryable)
    \/ RemoteInvalid
    \/ ApplyPolicy \/ ApplyControls \/ ApplyRollout

Spec == Init /\ [][Next]_vars

-----------------------------------------------------------------------------
(* Properties *)

\* A block needs all of them at once: an answer of the remote classifier, the family rule
\* that comes first for its category asking for it, automatic blocking released, calibrated confidence with a risk
\* control approval, and a pilot approval with no kill switch in its way.  No fallback,
\* stale approval or missing caller argument makes up for any of them.
BlockNeedsEveryGate ==
    run.step = "DONE" /\ run.action = "BLOCK" =>
        /\ run.source = "REMOTE" /\ run.assessment.risk = "HIGH"
        /\ \E i \in DOMAIN config.rules :
              /\ config.rules[i].category = run.assessment.category
              /\ config.rules[i].action = "BLOCK"
              /\ config.rules[i].confidence <= run.assessment.confidence
              /\ \A j \in 1..i - 1 : config.rules[j].category # run.assessment.category
        /\ config.automatic /\ (config.demo \/ config.released)
        /\ config.controls # NoControls
        /\ Cleared(run.assessment.category, run.source)
        /\ ~Killed(run.assessment.category, run.source)
        /\ config.rollout.mode = "LIMITED_BLOCK"
        /\ Matching(config.rollout.blocks, EventOf(run))
        /\ ActiveSwitches(config.rollout, EventOf(run)) = {}

\* However failures, retries, recoveries and successes follow each other, the breaker is
\* open exactly when the threshold is reached, and a failing provider has been called at
\* most one assessment's retries beyond it.
BreakerHolds ==
    /\ breaker.opened = Closed <=> breaker.failures < FAILURE_THRESHOLD
    /\ breaker.failures <= FAILURE_THRESHOLD - 1 + MAX_ATTEMPTS

\* Whatever the policy decided, the gates after it only lower it: no approval, curve, mode
\* or switch makes a child's device do more than the family asked for.
GatesOnlyLower ==
    [][run.step \in {"DECIDED", "CONTROLLED"} /\ run'.step \in {"CONTROLLED", "DONE"} =>
          Order(run'.action) <= Order(run.action)]_vars
=============================================================================
