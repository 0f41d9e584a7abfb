---------------------------- MODULE PilotRollout ----------------------------
(***************************************************************************)
(* The rollout configuration of the pilot and the last gate an action      *)
(* passes before it reaches a device (guardian_core/pilot.py): pure        *)
(* operators, for DecisionChain and PilotControl.                          *)
(***************************************************************************)
EXTENDS Integers, FiniteSets

CONSTANTS
    Cohorts,
    Versions,       \* of model, prompt and data set, compared as a whole
    Every           \* a kill switch without category, or without cohort

RiskCategory == {"ADULT_CONTENT", "HATE_SPEECH", "DANGEROUS_CONTACT", "OTHER"}

NoCategory == "NONE"

EnforcementAction == {"IGNORE", "LOG", "ALERT", "BLOCK"}

PilotMode == {"TECHNICAL_SHADOW", "ALERT_ONLY", "LIMITED_BLOCK"}

\* approved: the conjunction of the gates an approval records.
Approval == [category: RiskCategory, cohorts: SUBSET Cohorts, versions: Versions,
             approved: BOOLEAN]

PilotKillSwitch == [id: Nat, enabled: BOOLEAN, category: RiskCategory \cup {Every},
                    cohort: Cohorts \cup {Every}, ceiling: {"LOG", "ALERT"}]

PilotRolloutConfig == [mode: PilotMode, cohorts: SUBSET Cohorts,
                       alerts: SUBSET Approval, blocks: SUBSET Approval,
                       switches: SUBSET PilotKillSwitch]

\* What the gate knows of an observation.
Event == [category: RiskCategory \cup {NoCategory}, cohort: Cohorts, versions: Versions]

Order(action) ==
    CASE action = "IGNORE" -> 0 [] action = "LOG" -> 1
      [] action = "ALERT" -> 2 [] action = "BLOCK" -> 3

AtMost(action, ceiling) == IF Order(action) > Order(ceiling) THEN ceiling ELSE action

\* Category, cohort and exact versions.
Matching(approvals, event) ==
    \E a \in approvals :
        /\ a.approved
        /\ a.category = event.category
        /\ event.cohort \in a.cohorts
        /\ a.versions = event.versions

ActiveSwitches(config, event) ==
    {s \in config.switches :
        /\ s.enabled
        /\ s.category \in {Every, event.category}
        /\ s.cohort \in {Every, event.cohort}}

\* The most restrictive switch.
Ceiling(config, event) ==
    LET ceilings == {s.ceiling : s \in ActiveSwitches(config, event)}
    IN  IF "LOG" \in ceilings THEN "LOG"
        ELSE IF ceilings # {} THEN "ALERT" ELSE "BLOCK"

\* Mutation: a caller that passes no risk controls is taken to have them.
ModeActionTrusting(config, action, event, upstream) ==
    IF event.cohort \notin config.cohorts \/ config.mode = "TECHNICAL_SHADOW"
       \/ action \in {"IGNORE", "LOG"}
    THEN AtMost(action, "LOG")
    ELSE IF action = "BLOCK" /\ config.mode = "LIMITED_BLOCK" /\ Matching(config.blocks, event)
         THEN "BLOCK"
         ELSE IF Matching(config.alerts, event) THEN "ALERT" ELSE "LOG"

\* Mutation: what is only to be logged is alerted about where alerts are approved.
ModeActionRaising(config, action, event, upstream) ==
    IF event.cohort \notin config.cohorts \/ config.mode = "TECHNICAL_SHADOW"
       \/ action = "IGNORE"
    THEN AtMost(action, "LOG")
    ELSE IF /\ action = "BLOCK" /\ config.mode = "LIMITED_BLOCK"
            /\ Matching(config.blocks, event) /\ upstream
         THEN "BLOCK"
         ELSE IF Matching(config.alerts, event) THEN "ALERT" ELSE "LOG"

\* upstream: the risk controls of release R3 allow the block.
ModeAction(config, action, event, upstream) ==
    IF event.cohort \notin config.cohorts \/ config.mode = "TECHNICAL_SHADOW"
       \/ action \in {"IGNORE", "LOG"}
    THEN AtMost(action, "LOG")
    ELSE IF /\ action = "BLOCK" /\ config.mode = "LIMITED_BLOCK"
            /\ Matching(config.blocks, event) /\ upstream
         THEN "BLOCK"
         ELSE IF Matching(config.alerts, event) THEN "ALERT" ELSE "LOG"

Rollout(config, action, event, upstream) ==
    AtMost(ModeAction(config, action, event, upstream), Ceiling(config, event))

\* Without a configuration that can be trusted. Its one cohort is nobody's.
FailSafe ==
    [mode |-> "TECHNICAL_SHADOW", cohorts |-> {}, alerts |-> {}, blocks |-> {},
     switches |-> {[id |-> 0, enabled |-> TRUE, category |-> Every, cohort |-> Every,
                    ceiling |-> "LOG"]}]
=============================================================================
