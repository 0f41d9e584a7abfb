--------------------------- MODULE IncidentServer ---------------------------
(***************************************************************************)
(* The control plane's incidents and device commands: GuardianStore in     *)
(* api/storage.py and DeviceIdentityStore in api/device_identity.py.       *)
(*                                                                         *)
(* FastAPI runs the endpoints on a thread pool and sqlite3 opens a         *)
(* transaction at the first write only, so a handler that reads, checks    *)
(* and then writes is two steps: the read runs on its own, everything from *)
(* the first write to the commit is atomic.  A handler between its two     *)
(* steps is a record in "decisions" (parent endpoints), "polls" or "acks"  *)
(* (device endpoints).  A call the code answers without writing (a wrong   *)
(* status, an unknown id) changes nothing and is left out.                 *)
(***************************************************************************)
EXTENDS Naturals, Sequences, FiniteSets

CONSTANTS
    Devices,            \* the devices of the store
    DemoDevices,        \* those without a credential, served by the demo routes
    Keys,               \* deduplication keys an agent derives from what it saw
    Incidents,          \* incident ids (uuid4) the store may hand out
    ParentHandlers,     \* threads serving request-unlock, unlock, keep-blocked
    DeviceHandlers,     \* threads serving a device's poll and ack requests
    CommandTTL,         \* COMMAND_TTL
    MaxCommandAttempts, \* MAX_COMMAND_ATTEMPTS
    Backoff,            \* Backoff[n]: wait after the n-th delivery
    BatchLimit,         \* LIMIT of the delivery query
    MaxTime,            \* bound: the clock stops here, and the last command is
                        \* created early enough to expire before that
    MaxCommands         \* bound: commands ever created

ASSUME ServerConstants ==
    /\ Devices # {}
    /\ DemoDevices \subseteq Devices
    /\ Keys # {}
    /\ CommandTTL \in Nat \ {0}
    /\ MaxCommandAttempts \in Nat \ {0}
    /\ Backoff \in [1..MaxCommandAttempts -> Nat \ {0}]
    /\ BatchLimit \in Nat \ {0}
    /\ MaxTime \in Nat
    /\ MaxCommands \in Nat

VARIABLES
    clock,      \* the wall clock every handler reads
    incidents,  \* table incidents
    commands,   \* table device_commands: row c has the autoincrement id c
    decisions,  \* parent requests between their read and their write
    polls,      \* command polls between prepare's read and the write
    acks        \* acknowledgements between their read and their write

vars == <<clock, incidents, commands, decisions, polls, acks>>

IncidentStatus ==
    {"NONE", "DETECTED", "BLOCKED", "UNLOCK_REQUESTED", "UNLOCKED", "KEPT_BLOCKED"}

\* "NONE" marks an id with no row; a replay row has its key suffixed with a
\* fresh uuid, so it collides with no later insertion.
Incident == [status: IncidentStatus, device: Devices, key: Keys, replay: BOOLEAN]

CommandStatus == {"PENDING", "DELIVERED", "ACKNOWLEDGED", "FAILED", "EXPIRED"}

\* prepared: protocol version, idempotency key and expiry are set.  The key is
\* unlock:<incident>, the expiry created + CommandTTL; next is next_attempt_at
\* (0 for NULL, which is due at once too).
Command == [incident: Incidents, created: Nat, status: CommandStatus,
            prepared: BOOLEAN, attempts: 0..MaxCommandAttempts, next: Nat]

Decision == [handler: ParentHandlers, op: {"request_unlock", "unlock", "keep_blocked"},
             incident: Incidents, created: Nat]

Poll == [handler: DeviceHandlers, device: Devices, after: Nat, at: Nat,
         unprepared: SUBSET (1..MaxCommands)]

\* An ack that found rows to prepare decides inside its transaction; one that
\* found none (unprepared = {}) has already decided what it will write.
Ack == [handler: DeviceHandlers, command: 1..MaxCommands,
        write: {"ACKNOWLEDGED", "FAILED", "EXPIRED"},
        unprepared: SUBSET (1..MaxCommands)]

TypeOK ==
    /\ clock \in Nat
    /\ incidents \in [Incidents -> Incident]
    /\ commands \in Seq(Command)
    /\ Len(commands) <= MaxCommands
    /\ decisions \subseteq Decision
    /\ polls \subseteq Poll
    /\ acks \subseteq Ack

CommandIds == DOMAIN commands

ParentIdle(h) == \A w \in decisions : w.handler # h

DeviceIdle(h) == \A w \in polls \cup acks : w.handler # h

-----------------------------------------------------------------------------
(* Incidents *)

\* The row the UNIQUE(family, device, deduplication_key) constraint collides
\* with: replay rows carry a key of their own.
Originals(d, k) ==
    {i \in Incidents : /\ incidents[i].status # "NONE"
                       /\ incidents[i].device = d
                       /\ incidents[i].key = k
                       /\ ~incidents[i].replay}

\* Mutation: the policy's action is stored as the status.
InsertAction(d, k, i, blocked, replay) ==
    /\ incidents[i].status = "NONE"
    /\ incidents' = [incidents EXCEPT ![i] =
            [status |-> IF blocked THEN "BLOCK" ELSE "ALERT",
             device |-> d, key |-> k, replay |-> replay]]

InsertIncident(d, k, i, blocked, replay) ==
    /\ incidents[i].status = "NONE"
    /\ incidents' = [incidents EXCEPT ![i] =
            [status |-> IF blocked THEN "BLOCKED" ELSE "DETECTED",
             device |-> d, key |-> k, replay |-> replay]]

\* Mutation: a kept block is replayed too.
CreateIncidentAfterDecision(d, k, i, blocked) ==
    /\ \/ /\ Originals(d, k) = {}
          /\ InsertIncident(d, k, i, blocked, FALSE)
       \/ /\ \E o \in Originals(d, k) : incidents[o].status \in {"UNLOCKED", "KEPT_BLOCKED"}
          /\ InsertIncident(d, k, i, blocked, TRUE)
       \/ i \in Originals(d, k) /\ UNCHANGED incidents
    /\ UNCHANGED <<clock, commands, decisions, polls, acks>>

\* Mutation: an observation is never replayed.
CreateIncidentOnce(d, k, i, blocked) ==
    /\ \/ Originals(d, k) = {} /\ InsertIncident(d, k, i, blocked, FALSE)
       \/ i \in Originals(d, k) /\ UNCHANGED incidents
    /\ UNCHANGED <<clock, commands, decisions, polls, acks>>

\* i is the incident the response names: a new row, a new replay row when the
\* original was unlocked, otherwise the existing original (no write).
CreateIncident(d, k, i, blocked) ==
    /\ \/ /\ Originals(d, k) = {}
          /\ InsertIncident(d, k, i, blocked, FALSE)
       \/ /\ \E o \in Originals(d, k) : incidents[o].status = "UNLOCKED"
          /\ InsertIncident(d, k, i, blocked, TRUE)
       \/ /\ i \in Originals(d, k)
          /\ incidents[i].status # "UNLOCKED"
          /\ UNCHANGED incidents
    /\ UNCHANGED <<clock, commands, decisions, polls, acks>>

\* Mutation: a decision may be taken again after an unlock.
UndecidedOrUnlocked == {"BLOCKED", "UNLOCK_REQUESTED", "UNLOCKED"}

Undecided == {"BLOCKED", "UNLOCK_REQUESTED"}

\* SELECT status, the guard, and for unlock the creation time the endpoint
\* took from the clock before calling the store.
DecisionRead(h, op, i) ==
    /\ ParentIdle(h)
    /\ incidents[i].status \in Undecided
    /\ op = "unlock" => clock + CommandTTL <= MaxTime
    /\ decisions' = decisions \cup
            {[handler |-> h, op |-> op, incident |-> i,
              created |-> IF op = "unlock" THEN clock ELSE 0]}
    /\ UNCHANGED <<clock, incidents, commands, polls, acks>>

\* The UPDATE names the row by id only: the status read earlier is not checked
\* again.
SetIncidentStatus(i, s) == incidents' = [incidents EXCEPT ![i].status = s]

RequestUnlockWrite(w) ==
    /\ w.op = "request_unlock"
    /\ SetIncidentStatus(w.incident, "UNLOCK_REQUESTED")
    /\ decisions' = decisions \ {w}
    /\ UNCHANGED <<clock, commands, polls, acks>>

KeepBlockedWrite(w) ==
    /\ w.op = "keep_blocked"
    /\ SetIncidentStatus(w.incident, "KEPT_BLOCKED")
    /\ decisions' = decisions \ {w}
    /\ UNCHANGED <<clock, commands, polls, acks>>

NewCommand(i, created) ==
    [incident |-> i, created |-> created, status |-> "PENDING",
     prepared |-> FALSE, attempts |-> 0, next |-> 0]

\* Mutation: the status is committed without the command.
UnlockStatusOnly(w) ==
    /\ w.op = "unlock"
    /\ SetIncidentStatus(w.incident, "UNLOCKED")
    /\ decisions' = decisions \ {w}
    /\ UNCHANGED <<clock, commands, polls, acks>>

UnlockWrite(w) ==
    /\ w.op = "unlock"
    /\ Len(commands) < MaxCommands
    /\ SetIncidentStatus(w.incident, "UNLOCKED")
    /\ commands' = Append(commands, NewCommand(w.incident, w.created))
    /\ decisions' = decisions \ {w}
    /\ UNCHANGED <<clock, polls, acks>>

-----------------------------------------------------------------------------
(* Device commands *)

Expiry(row) == row.created + CommandTTL

\* Mutation: off by one.
ExpiredEarly(row, t) == row.prepared /\ Expiry(row) <= t + 1

ExpiredAt(row, t) == row.prepared /\ Expiry(row) <= t

CommandDevice(c) == incidents[commands[c].incident].device

Unprepared == {c \in CommandIds : ~commands[c].prepared}

\* Mutation: preparing a row makes it pending again.
PreparedPending(S) ==
    [c \in CommandIds |->
        IF c \in S
        THEN [commands[c] EXCEPT !.prepared = TRUE, !.status = "PENDING",
                                 !.next = commands[c].created]
        ELSE commands[c]]

\* The updates of _prepare_commands over the rows S read before.
Prepared(S) ==
    [c \in CommandIds |->
        IF c \in S
        THEN [commands[c] EXCEPT !.prepared = TRUE, !.next = commands[c].created]
        ELSE commands[c]]

\* The unique index on (device_id, idempotency_key) rejects a second command of
\* one incident: the statement raises and the whole request is rolled back.
KeyConflict(S) ==
    \E c \in S, d \in CommandIds :
        /\ c # d
        /\ commands[c].incident = commands[d].incident
        /\ commands[d].prepared \/ d \in S

\* authenticated_commands is a coroutine and calls the store on the event loop:
\* one round at a time, whoever polls.
PollRead(h, d, after) ==
    /\ DeviceIdle(h)
    /\ polls = {}
    /\ polls' = polls \cup {[handler |-> h, device |-> d, after |-> after,
                             at |-> clock, unprepared |-> Unprepared]}
    /\ UNCHANGED <<clock, incidents, commands, decisions, acks>>

\* Mutation: pending rows do not expire.
SweptDeliveredOnly(row, t) ==
    IF row.status = "DELIVERED" /\ ExpiredAt(row, t)
    THEN [row EXCEPT !.status = "EXPIRED"]
    ELSE IF row.status = "DELIVERED" /\ row.attempts >= MaxCommandAttempts
    THEN [row EXCEPT !.status = "FAILED"]
    ELSE row

\* The two bulk updates of pending_commands, on the polling device's own rows.
Swept(row, t) ==
    IF row.status \in {"PENDING", "DELIVERED"} /\ ExpiredAt(row, t)
    THEN [row EXCEPT !.status = "EXPIRED"]
    ELSE IF row.status = "DELIVERED" /\ row.attempts >= MaxCommandAttempts
    THEN [row EXCEPT !.status = "FAILED"]
    ELSE row

Delivered(row, t) ==
    [row EXCEPT !.status = "DELIVERED", !.attempts = row.attempts + 1,
                !.next = t + Backoff[row.attempts + 1]]

\* The delivery query: the cursor skips pending rows, never delivered ones.
Due(c, row, w) ==
    /\ row.status \in {"PENDING", "DELIVERED"}
    /\ c > w.after \/ row.status = "DELIVERED"
    /\ row.next <= w.at

SweptRow(w, c) ==
    IF CommandDevice(c) = w.device
    THEN Swept(Prepared(w.unprepared)[c], w.at)
    ELSE Prepared(w.unprepared)[c]

\* The ids a poll answers with, oldest first up to the limit.
Batch(w) ==
    LET due == {c \in CommandIds : CommandDevice(c) = w.device /\ Due(c, SweptRow(w, c), w)}
    IN  {c \in due : Cardinality({e \in due : e < c}) < BatchLimit}

PollWrite(w) ==
    /\ ~KeyConflict(w.unprepared)
    /\ commands' = [c \in CommandIds |->
            IF c \in Batch(w) THEN Delivered(SweptRow(w, c), w.at) ELSE SweptRow(w, c)]
    /\ polls' = polls \ {w}
    /\ UNCHANGED <<clock, incidents, decisions, acks>>

\* IntegrityError: the response is a 500 and nothing is written.
PollConflict(w) ==
    /\ KeyConflict(w.unprepared)
    /\ polls' = polls \ {w}
    /\ UNCHANGED <<clock, incidents, commands, decisions, acks>>

\* Mutation: a recorded outcome may be overwritten.
AckRefusedIfPending(row, t) == row.status = "PENDING" /\ ~ExpiredAt(row, t)

\* The answers that write nothing: an outcome is recorded already, or the row
\* was never delivered.
AckRefused(row, t) ==
    \/ row.status \in {"ACKNOWLEDGED", "FAILED"}
    \/ row.status = "PENDING" /\ ~ExpiredAt(row, t)

\* Mutation: the reported result is ignored.
AckStatusExecuted(row, t, reported) ==
    IF row.status = "EXPIRED" \/ ExpiredAt(row, t) THEN "EXPIRED" ELSE "ACKNOWLEDGED"

AckStatus(row, t, reported) ==
    IF row.status = "EXPIRED" \/ ExpiredAt(row, t) THEN "EXPIRED" ELSE reported

\* With nothing to prepare the row is read outside any transaction and the
\* write decided here happens later, by id.
AckRead(h, c, reported) ==
    /\ DeviceIdle(h)
    /\ CommandDevice(c) \notin DemoDevices
    /\ Unprepared = {} => ~AckRefused(commands[c], clock)
    /\ acks' = acks \cup
            {[handler |-> h, command |-> c, unprepared |-> Unprepared,
              write |-> IF Unprepared = {} THEN AckStatus(commands[c], clock, reported)
                                           ELSE reported]}
    /\ UNCHANGED <<clock, incidents, commands, decisions, polls>>

AckWrite(w) ==
    /\ w.unprepared = {}
    /\ commands' = [commands EXCEPT ![w.command].status = w.write]
    /\ acks' = acks \ {w}
    /\ UNCHANGED <<clock, incidents, decisions, polls>>

\* Rows to prepare: their updates, the read, the decision and the write are one
\* transaction.
AckPreparing(w) ==
    /\ w.unprepared # {}
    /\ ~KeyConflict(w.unprepared)
    /\ LET row == Prepared(w.unprepared)[w.command] IN
       commands' = IF AckRefused(row, clock)
                   THEN Prepared(w.unprepared)
                   ELSE [Prepared(w.unprepared) EXCEPT
                            ![w.command].status = AckStatus(row, clock, w.write)]
    /\ acks' = acks \ {w}
    /\ UNCHANGED <<clock, incidents, decisions, polls>>

AckConflict(w) ==
    /\ KeyConflict(w.unprepared)
    /\ acks' = acks \ {w}
    /\ UNCHANGED <<clock, incidents, commands, decisions, polls>>

\* The demo route, one UPDATE guarded by status = PENDING.  Its client,
\* poll_demo_commands, acknowledges the commands of its own device.
LegacyAcknowledge(c) ==
    /\ CommandDevice(c) \in DemoDevices
    /\ commands[c].status = "PENDING"
    /\ commands' = [commands EXCEPT ![c].status = "ACKNOWLEDGED"]
    /\ UNCHANGED <<clock, incidents, decisions, polls, acks>>

-----------------------------------------------------------------------------
(* Environment *)

Tick ==
    /\ clock < MaxTime
    /\ clock' = clock + 1
    /\ UNCHANGED <<incidents, commands, decisions, polls, acks>>

\* The API process dies or is restarted: committed rows stay, requests between
\* their read and their write are gone.
ApiRestart ==
    /\ decisions \cup polls \cup acks # {}
    /\ decisions' = {}
    /\ polls' = {}
    /\ acks' = {}
    /\ UNCHANGED <<clock, incidents, commands>>

NoRow == [status |-> "NONE", device |-> CHOOSE d \in Devices : TRUE,
          key |-> CHOOSE k \in Keys : TRUE, replay |-> FALSE]

Init ==
    /\ clock = 0
    /\ incidents = [i \in Incidents |-> NoRow]
    /\ commands = <<>>
    /\ decisions = {}
    /\ polls = {}
    /\ acks = {}

ParentRequest ==
    \E h \in ParentHandlers, i \in Incidents :
        \E op \in {"request_unlock", "unlock", "keep_blocked"} : DecisionRead(h, op, i)

ParentCommit ==
    \E w \in decisions : RequestUnlockWrite(w) \/ KeepBlockedWrite(w) \/ UnlockWrite(w)

DeviceReport ==
    \E d \in Devices, k \in Keys, i \in Incidents, blocked \in BOOLEAN :
        CreateIncident(d, k, i, blocked)

DevicePoll ==
    \E h \in DeviceHandlers, d \in Devices \ DemoDevices :
        \E after \in 0..Len(commands) : PollRead(h, d, after)

DeviceAck ==
    \E h \in DeviceHandlers, c \in CommandIds :
        \E reported \in {"ACKNOWLEDGED", "FAILED"} : AckRead(h, c, reported)

PollCommit == \E w \in polls : PollWrite(w) \/ PollConflict(w)

AckCommit == \E w \in acks : AckWrite(w) \/ AckPreparing(w) \/ AckConflict(w)

Next ==
    \/ ParentRequest
    \/ ParentCommit
    \/ DeviceReport
    \/ DevicePoll
    \/ PollCommit
    \/ DeviceAck
    \/ AckCommit
    \/ \E c \in CommandIds : LegacyAcknowledge(c)
    \/ Tick
    \/ ApiRestart

Spec == Init /\ [][Next]_vars

\* The clock runs; an agent polls again and again (poll_commands loops, and the
\* service manager restarts it), and some polls are answered although the API
\* restarts: hence strong fairness.  A handler that started finishes.  Nothing
\* is assumed of parents, of acknowledgements or of new incidents.
Fairness ==
    /\ WF_vars(Tick)
    /\ \A d \in Devices \ DemoDevices :
        SF_vars(\E h \in DeviceHandlers : \E after \in 0..Len(commands) : PollRead(h, d, after))
    /\ SF_vars(PollCommit)
    /\ WF_vars(AckCommit)

FairSpec == Spec /\ Fairness
-----------------------------------------------------------------------------
(* Properties *)

\* An unlock is never recorded without the order that carries it out: the
\* status update and the insertion of the command are one transaction.
UnlockedHasCommand ==
    \A i \in Incidents : incidents[i].status = "UNLOCKED" =>
        \E c \in CommandIds : commands[c].incident = i

\* A command exists only for an incident whose parent decision stands at
\* UNLOCKED: a kept block is never lifted by an order left in the queue.
CommandMeansUnlocked ==
    \A c \in CommandIds : incidents[commands[c].incident].status = "UNLOCKED"

\* One unlock order per incident, which the unique idempotency key of
\* _prepare_commands takes for granted.
OneCommandPerIncident ==
    \A c, e \in CommandIds : commands[c].incident = commands[e].incident => c = e

\* A second round of an observation (a replay row) exists only once the
\* original incident was unlocked for good.
ReplayAfterUnlock ==
    \A i \in Incidents : incidents[i].replay =>
        \E o \in Originals(incidents[i].device, incidents[i].key) :
            incidents[o].status = "UNLOCKED"

\* README: BLOCKED, then UNLOCK_REQUESTED, then UNLOCKED or KEPT_BLOCKED, and
\* a decision is final.
StatusRank == [s \in IncidentStatus |->
    CASE s = "NONE" -> 0
      [] s \in {"DETECTED", "BLOCKED"} -> 1
      [] s = "UNLOCK_REQUESTED" -> 2
      [] s \in {"UNLOCKED", "KEPT_BLOCKED"} -> 3]

LifecycleForward ==
    [][\A i \in Incidents :
        \/ incidents'[i].status = incidents[i].status
        \/ StatusRank[incidents'[i].status] > StatusRank[incidents[i].status]]_vars

Terminal == {"ACKNOWLEDGED", "FAILED", "EXPIRED"}

\* A command that reached a terminal state is never put back in the queue,
\* whatever stale poll or acknowledgement is still in flight.
TerminalForGood ==
    [][\A c \in CommandIds :
        commands[c].status \in Terminal => commands'[c].status \in Terminal]_vars

\* The first outcome recorded for a command is the one that stays.
OutcomeRecordedOnce ==
    [][\A c \in CommandIds :
        commands[c].status \in Terminal => commands'[c].status = commands[c].status]_vars

\* A retried delivery is accounted for: a pending command was never sent, a
\* delivered one was sent at least once, and only an expiry or the retry
\* budget ends a command that no device answered.
AttemptsExplained ==
    \A c \in CommandIds :
        /\ commands[c].status = "PENDING" => commands[c].attempts = 0
        /\ commands[c].status = "DELIVERED" => commands[c].attempts > 0
        /\ commands[c].status = "EXPIRED" => Expiry(commands[c]) <= clock

\* Every unlock order reaches an outcome the parent can be told: answered,
\* expired, or given up after the retry budget.
EveryCommandSettles ==
    \A c \in 1..MaxCommands :
        (c \in CommandIds /\ CommandDevice(c) \notin DemoDevices)
            ~> (c \in CommandIds /\ commands[c].status \in Terminal)

-----------------------------------------------------------------------------
(* The promise to the parent, as a refinement *)

DecisionOf(i) ==
    CASE incidents[i].status = "NONE" -> "none"
      [] incidents[i].status = "DETECTED" -> "noted"
      [] incidents[i].status \in Undecided -> "open"
      [] incidents[i].status = "UNLOCKED" -> "unlocked"
      [] incidents[i].status = "KEPT_BLOCKED" -> "kept"

OrderOf(i) ==
    IF \E c \in CommandIds : commands[c].incident = i
    THEN IF \E c \in CommandIds : /\ commands[c].incident = i
                                  /\ commands[c].status \notin Terminal
         THEN "queued" ELSE "settled"
    ELSE "none"

Promise == INSTANCE UnlockPromise WITH
    Served <- Incidents,
    decision <- [i \in Incidents |-> DecisionOf(i)],
    order <- [i \in Incidents |-> OrderOf(i)]

\* With one parent request at a time the tables implement the promise: no
\* decision is undone and every decision has the order it needs, once.
PromiseKept == Promise!Spec

\* With fair polling as well, every queued order is settled in the end.
PromiseFulfilled == Promise!FairSpec
=============================================================================
