--------------------------- MODULE MCDecisionChain ---------------------------
(* Instances of DecisionChain for TLC: every release setting with a permissive family, *)
(* controls and rollout, and each of those made stricter in one way or another.        *)
EXTENDS DecisionChain

Seen(contacts, disclosures, markers, holds) ==
    [contacts |-> contacts, disclosures |-> disclosures, markers |-> markers, holds |-> holds]

MCObservations ==
    {Seen(0, 0, {}, {}), Seen(0, 0, {"EDUCATIONAL", "TEXTBOOK"}, {"TEXT"}),
     Seen(0, 0, {}, {"FRAME"}), Seen(0, 0, {"ADULT"}, {"TEXT", "FRAME"}),
     Seen(4, 0, {}, {"TEXT", "MESSAGES"}), Seen(1, 2, {"HATE"}, {"MESSAGES"}),
     Seen(0, 2, {"HATE"}, {"MESSAGES"}), Seen(0, 0, {"HATE"}, {"TEXT"})}

MCAnswers ==
    {Finding("SAFE", NoCategory, 90), Finding("HIGH", "ADULT_CONTENT", 95),
     Finding("HIGH", "ADULT_CONTENT", 70), Finding("LOW", "ADULT_CONTENT", 95),
     Finding("HIGH", "HATE_SPEECH", 95)}

Rule(category, action) ==
    [category |-> category, action |-> action, risk |-> "MEDIUM", confidence |-> 60]

MCRules ==
    {<<Rule("ADULT_CONTENT", "BLOCK"), Rule("DANGEROUS_CONTACT", "BLOCK")>>,
     <<Rule("ADULT_CONTENT", "ALERT"), Rule("ADULT_CONTENT", "BLOCK")>>,
     <<Rule("ADULT_CONTENT", "ALLOW")>>}

Curve == [curve |-> <<<<20, 10>>, <<60, 50>>, <<100, 90>>>>, log |-> 20, alert |-> 50,
          block |-> 80]

Controls(killed, versions) ==
    [categories |-> [c \in {"ADULT_CONTENT"} |-> Curve],
     killed |-> killed, approved |-> {<<"ADULT_CONTENT", versions>>}]

MCControls ==
    {NoControls, Controls({}, "REMOTE"), Controls({}, "RETIRED"),
     Controls({<<"ADULT_CONTENT", Every>>}, "REMOTE")}

Approved(versions, gates) ==
    [category |-> "ADULT_CONTENT", cohorts |-> {"pilot"}, versions |-> versions,
     approved |-> gates]

KillSwitch(enabled, category, ceiling) ==
    [id |-> 1, enabled |-> enabled, category |-> category, cohort |-> Every, ceiling |-> ceiling]

Pilot(mode, blocks, switches) ==
    [mode |-> mode, cohorts |-> {"pilot"}, alerts |-> {Approved("REMOTE", TRUE)},
     blocks |-> blocks, switches |-> switches]

MCRollouts ==
    {FailSafe, Pilot("ALERT_ONLY", {}, {}),
     Pilot("LIMITED_BLOCK", {Approved("REMOTE", TRUE)}, {KillSwitch(FALSE, Every, "LOG")}),
     Pilot("LIMITED_BLOCK", {Approved("REMOTE", TRUE)}, {KillSwitch(TRUE, "ADULT_CONTENT", "ALERT")}),
     Pilot("LIMITED_BLOCK", {Approved("RETIRED", TRUE), Approved("REMOTE", FALSE)},
           {KillSwitch(TRUE, "HATE_SPEECH", "LOG")})}

MCConfigurations ==
    [rules: MCRules, demo: BOOLEAN, automatic: BOOLEAN, released: BOOLEAN,
     controls: MCControls, cohort: {"pilot", "others"}, rollout: MCRollouts]
=============================================================================
