------------------------------ MODULE Observer ------------------------------
(***************************************************************************)
(* The observation loop of the agent with its offline outbox               *)
(* (agent/main.py run_observer, agent/outbox.py, agent/observer.py,        *)
(* agent/state.py), under the pilot configuration that operators change    *)
(* meanwhile: every call of the API may fail, with or without having       *)
(* reached it, and the process may end at any step and start again.        *)
(*                                                                         *)
(* What the server does with a report is IncidentServer's subject; the     *)
(* decision before the rollout gate is DecisionChain's, any action here.   *)
(* Screens are points whose distance is that of the perceptual hashes.     *)
(***************************************************************************)
EXTENDS PilotControl

CONSTANTS
    Screens, CHANGE_THRESHOLD,
    Category, Cohort, Version,  \* of every observation
    DefaultConfig,              \* the configuration file used while nothing is active
    MAXIMUM_ITEMS, FLUSH_LIMIT,
    MaxReports, MaxPairings     \* bounds

ASSUME ObserverConstants ==
    /\ Screens \subseteq Nat /\ CHANGE_THRESHOLD \in Nat
    /\ DefaultConfig \in PilotRolloutConfig
    /\ MAXIMUM_ITEMS \in Nat \ {0} /\ FLUSH_LIMIT \in Nat \ {0}
    /\ MaxReports \in Nat /\ MaxPairings \in Nat \ {0}
    /\ None \notin Nat

VARIABLES
    step,           \* where the observer is, "DOWN" while its process does not run
    rollout,        \* the configuration it loaded when it started
    credential,     \* the credential it loaded then
    keychain,       \* the device's credential
    lastHash,       \* of the screen, in memory
    savedHash,      \* and in the state file
    outbox,         \* the queue file
    queue,          \* flush: the rest of the queue it read
    delivered,      \* and how many items it has delivered
    reports,        \* history: how many messages were ever composed
    received,       \* history: the ones the server has got, but for the abandoned
    flushed,        \* history: the ones it has got out of the outbox
    abandoned       \* history: the ones whose sending ended the process

memory == <<step, rollout, credential, lastHash, queue, delivered>>
histories == <<reports, received, flushed, abandoned>>
observerVars == <<memory, keychain, savedHash, outbox, histories>>
vars == <<controlVars, observerVars>>

Step == {"DOWN", "FLUSH", "CAPTURE", "ASSESS", "REPORT"}

\* Messages are numbered in the order they are composed.
OutboxItem == [id: 1..MaxReports, credential: 1..MaxPairings]

ObserverTypeOK ==
    /\ step \in Step
    /\ rollout \in PilotRolloutConfig
    /\ credential \in 1..keychain
    /\ keychain \in 1..MaxPairings
    /\ lastHash \in Screens \cup {None} /\ savedHash \in Screens \cup {None}
    /\ outbox \in Seq(OutboxItem) /\ Len(outbox) <= MAXIMUM_ITEMS
    /\ queue \in Seq(OutboxItem) /\ Len(queue) + delivered <= MAXIMUM_ITEMS
    /\ delivered \in 0..FLUSH_LIMIT
    /\ reports \in 0..MaxReports
    /\ received \subseteq 1..reports
    /\ flushed \subseteq received
    /\ abandoned \subseteq 1..reports

TypeOK == ControlTypeOK /\ ObserverTypeOK

Init ==
    /\ ControlInit
    /\ step = "DOWN"
    /\ rollout = FailSafe
    /\ credential = 1 /\ keychain = 1
    /\ lastHash = None /\ savedHash = None
    /\ outbox = <<>> /\ queue = <<>>
    /\ delivered = 0
    /\ reports = 0 /\ received = {} /\ flushed = {} /\ abandoned = {}

-----------------------------------------------------------------------------
(* The process *)

\* load_runtime_pilot_rollout.
RuntimeRollout == IF active = None THEN DefaultConfig ELSE active

\* A cycle begins with flush reading the queue.
NewCycle(items) == step' = "FLUSH" /\ queue' = items /\ delivered' = 0

\* Configuration, credential and last hash are read here and never again.
Start ==
    /\ step = "DOWN"
    /\ NewCycle(outbox)
    /\ rollout' = RuntimeRollout
    /\ credential' = keychain
    /\ lastHash' = savedHash
    /\ UNCHANGED <<controlVars, keychain, savedHash, outbox, histories>>

\* The process ends, and its memory with it.
End ==
    /\ step' = "DOWN"
    /\ rollout' = FailSafe /\ credential' = 1 /\ lastHash' = None
    /\ queue' = <<>> /\ delivered' = 0

\* Killed, or an error that main() answers: no permission, the heartbeat, the policy or the
\* upload of the evidence failed, an invalid classifier answer.
Stop ==
    /\ step # "DOWN"
    /\ End
    /\ UNCHANGED <<controlVars, keychain, savedHash, outbox, histories>>

\* The device is paired again; a running observer keeps its credential.
PairAgain ==
    /\ keychain < MaxPairings
    /\ keychain' = keychain + 1
    /\ UNCHANGED <<controlVars, memory, savedHash, outbox, histories>>

-----------------------------------------------------------------------------
(* PersistentOutbox.flush *)

MayDeliver == delivered < FLUSH_LIMIT /\ queue # <<>>

\* An item queued under another credential is never sent.
OwnItem == queue[1].credential = credential

\* The file still holds the item until the end of the flush.
Deliver ==
    /\ step = "FLUSH" /\ MayDeliver /\ OwnItem
    /\ queue' = Tail(queue)
    /\ delivered' = delivered + 1
    /\ received' = received \cup {queue[1].id}
    /\ flushed' = flushed \cup {queue[1].id}
    /\ UNCHANGED <<controlVars, step, rollout, credential, keychain, lastHash, savedHash,
                   outbox, reports, abandoned>>

EndFlush(items) ==
    /\ step' = "CAPTURE"
    /\ outbox' = items
    /\ queue' = <<>> /\ delivered' = 0
    /\ UNCHANGED <<controlVars, rollout, credential, keychain, lastHash, savedHash, reports,
                   abandoned>>

\* Mutation: the item that could not be delivered is dropped.
WithoutHead == Tail(queue)

\* The item stays at the head (its count of attempts is read nowhere).
AfterFailure == queue

\* A GuardianAPIError: no connection, or an error for an answer, which the API may have
\* given after it recorded the message.
DeliveryFails(reached) ==
    /\ step = "FLUSH" /\ MayDeliver
    /\ reached => OwnItem
    /\ EndFlush(AfterFailure)
    /\ received' = IF reached THEN received \cup {queue[1].id} ELSE received
    /\ flushed' = IF reached THEN flushed \cup {queue[1].id} ELSE flushed

Flushed ==
    /\ step = "FLUSH" /\ ~MayDeliver
    /\ EndFlush(queue)
    /\ UNCHANGED <<received, flushed>>

\* The client does not translate a time out or a broken connection while it waits for the
\* answer: the error ends the process, the file unsaved.
DeliveryUnanswered(reached) ==
    /\ step = "FLUSH" /\ MayDeliver /\ OwnItem
    /\ End
    /\ received' = IF reached THEN received \cup {queue[1].id} ELSE received
    /\ flushed' = IF reached THEN flushed \cup {queue[1].id} ELSE flushed
    /\ UNCHANGED <<controlVars, keychain, savedHash, outbox, reports, abandoned>>

-----------------------------------------------------------------------------
(* One observation *)

Distance(a, b) == IF a < b THEN b - a ELSE a - b

Changed(screen) == lastHash = None \/ Distance(screen, lastHash) > CHANGE_THRESHOLD

\* capture_if_changed: the hash in memory becomes the new one either way.  A changed one
\* is in the file before anything is made of it.
Capture(screen) ==
    /\ step = "CAPTURE"
    /\ lastHash' = screen
    /\ IF Changed(screen)
       THEN step' = "ASSESS" /\ savedHash' = screen /\ UNCHANGED <<queue, delivered>>
       ELSE NewCycle(outbox) /\ UNCHANGED savedHash
    /\ UNCHANGED <<controlVars, rollout, credential, keychain, outbox, histories>>

Observed == [category |-> Category, cohort |-> Cohort, versions |-> Version]

\* The observer passes no risk controls to apply_pilot_rollout.
Decision(proposed) == Rollout(rollout, proposed, Observed, FALSE)

Message == [id |-> reports + 1, credential |-> credential]

\* Mutation: the capacity is not enforced.
EnqueueAlways == outbox' = Append(outbox, Message)

Enqueue == Len(outbox) < MAXIMUM_ITEMS /\ outbox' = Append(outbox, Message)

Compose ==
    /\ reports < MaxReports
    /\ reports' = reports + 1
    /\ UNCHANGED <<controlVars, keychain, savedHash, flushed>>

\* record_pilot_telemetry_or_queue, create_incident_or_queue: the loop goes on only with
\* the message received or queued.
SendOrQueue(answered, reached) ==
    /\ answered => reached
    /\ Compose
    /\ received' = IF reached THEN received \cup {reports + 1} ELSE received
    /\ IF answered THEN UNCHANGED outbox ELSE Enqueue
    /\ UNCHANGED <<rollout, credential, lastHash, abandoned>>

\* Telemetry goes out once the decision is taken; an ALERT or a BLOCK is reported after it.
SendTelemetry(proposed, answered, reached) ==
    /\ step = "ASSESS"
    /\ SendOrQueue(answered, reached)
    /\ IF Decision(proposed) \in {"ALERT", "BLOCK"}
       THEN step' = "REPORT" /\ UNCHANGED <<queue, delivered>>
       ELSE NewCycle(outbox')

ReportIncident(answered, reached) ==
    /\ step = "REPORT"
    /\ SendOrQueue(answered, reached)
    /\ NewCycle(outbox')

\* The API may have got the message or not.
Abandon ==
    /\ step \in {"ASSESS", "REPORT"}
    /\ Compose
    /\ abandoned' = abandoned \cup {reports + 1}
    /\ End
    /\ UNCHANGED <<outbox, received>>

\* enqueue raises what main() does not catch.
OutboxFull == Len(outbox) >= MAXIMUM_ITEMS /\ Abandon

\* The message is not queued: see DeliveryUnanswered.
SendUnanswered == Abandon

-----------------------------------------------------------------------------
Next ==
    \/ ControlNext /\ UNCHANGED observerVars
    \/ Start \/ Stop \/ PairAgain
    \/ Deliver \/ Flushed
    \/ \E reached \in BOOLEAN : DeliveryFails(reached) \/ DeliveryUnanswered(reached)
    \/ OutboxFull \/ SendUnanswered
    \/ \E screen \in Screens : Capture(screen)
    \/ \E answered, reached \in BOOLEAN :
          \/ \E proposed \in EnforcementAction : SendTelemetry(proposed, answered, reached)
          \/ ReportIncident(answered, reached)

Spec == Init /\ [][Next]_vars

-----------------------------------------------------------------------------
(* Properties *)

Ids(items) == {items[i].id : i \in DOMAIN items}

\* Whatever calls fail, answers get lost and processes end, also between a delivery and
\* the save that takes it off the file: a message the loop went on from is at the server
\* or in the outbox, and the server gets the queued ones in the order they were queued.
QueueDelivered ==
    /\ (1..reports) \ abandoned \subseteq received \cup Ids(outbox)
    /\ \A i \in flushed, j \in flushed \cup Ids(outbox) : j < i => j \in flushed
=============================================================================
