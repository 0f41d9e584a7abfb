----------------------------- MODULE MCObserver -----------------------------
(* An instance of Observer for TLC: an alerting configuration to activate, one kill    *)
(* switch to set, two operators.                                                       *)
EXTENDS Observer, TLC

Alerting == [mode |-> "ALERT_ONLY", cohorts |-> {"pilot"},
             alerts |-> {[category |-> "ADULT_CONTENT", cohorts |-> {"pilot"},
                          versions |-> "v1", approved |-> TRUE]},
             blocks |-> {}, switches |-> {}]

KillSwitch == [id |-> 1, enabled |-> TRUE, category |-> Every, cohort |-> Every, ceiling |-> "LOG"]

Stopped == [Alerting EXCEPT !.switches = {KillSwitch}]

MCActivatable == {Alerting, Stopped}

MCSwitches == {KillSwitch}

Symmetry == Permutations(Operators)
=============================================================================
