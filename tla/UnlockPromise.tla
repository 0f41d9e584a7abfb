--------------------------- MODULE UnlockPromise ---------------------------
(***************************************************************************)
(* What the control plane promises a parent about one incident, whatever   *)
(* tables, handlers and retries it uses: the decision is taken once and    *)
(* for good, an unlock puts exactly one order in the queue in the same     *)
(* instant, and an order that was queued is eventually settled.            *)
(***************************************************************************)
CONSTANTS
    Incidents,
    Served     \* the incidents on a device whose commands expire

VARIABLES
    decision,  \* decision[i]: what the parent has said about incident i
    order      \* order[i]: where the unlock order of incident i is

promiseVars == <<decision, order>>

TypeOK ==
    /\ decision \in [Incidents -> {"none", "noted", "open", "unlocked", "kept"}]
    /\ order \in [Incidents -> {"none", "queued", "settled"}]

Init ==
    /\ decision = [i \in Incidents |-> "none"]
    /\ order = [i \in Incidents |-> "none"]

\* A reported incident waits for the parent, or is only noted (an alert).
Report(i) ==
    /\ decision[i] = "none"
    /\ \E d \in {"noted", "open"} : decision' = [decision EXCEPT ![i] = d]
    /\ UNCHANGED order

Unlock(i) ==
    /\ decision[i] = "open"
    /\ decision' = [decision EXCEPT ![i] = "unlocked"]
    /\ order' = [order EXCEPT ![i] = "queued"]

Keep(i) ==
    /\ decision[i] = "open"
    /\ decision' = [decision EXCEPT ![i] = "kept"]
    /\ UNCHANGED order

\* One poll may settle several orders of a device at once.
Settle(S) ==
    /\ S # {}
    /\ \A i \in S : order[i] = "queued"
    /\ order' = [i \in Incidents |-> IF i \in S THEN "settled" ELSE order[i]]
    /\ UNCHANGED decision

Next ==
    \/ \E i \in Incidents : Report(i) \/ Unlock(i) \/ Keep(i)
    \/ \E S \in SUBSET Incidents : Settle(S)

Spec == Init /\ [][Next]_promiseVars

FairSpec ==
    /\ Spec
    /\ \A i \in Served : WF_promiseVars(\E S \in SUBSET Incidents : i \in S /\ Settle(S))
=============================================================================
