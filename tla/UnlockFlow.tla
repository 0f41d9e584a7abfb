----------------------------- MODULE UnlockFlow -----------------------------
(***************************************************************************)
(* An unlock from the parent's decision to the child's screen: the control *)
(* plane of IncidentServer together with the agent processes of one device *)
(* (agent/main.py: live-demo and poll), their long polls (api/main.py) and *)
(* the two files they share, the blocked applications (agent/enforcer.py)  *)
(* and the command cursor (agent/state.py).                                *)
(*                                                                         *)
(* A request that fails, times out or is answered with an error raises in  *)
(* the agent and ends the process; somebody may start another one.  The    *)
(* faults an instance allows are in "Faults".                              *)
(***************************************************************************)
EXTENDS IncidentServer

CONSTANTS
    Device,         \* the device the processes run on
    Agents,         \* agent processes that may run at the same time
    Apps,           \* applications
    AppOf,          \* AppOf[k]: the application of the observation with key k
    NoKey,          \* not a key: nothing to report
    NoHandler,      \* not a handler: no request outstanding
    Once,           \* poll --once: return after one answer
    Wait,           \* wait_seconds of the long poll
    ClientTimeout,  \* timeout of GuardianAPIClient
    Faults          \* which of crash, loss and restart may happen

ASSUME FlowConstants ==
    /\ Device \in Devices \ DemoDevices
    /\ AppOf \in [Keys -> Apps]
    /\ NoKey \notin Keys
    /\ NoHandler \notin DeviceHandlers
    /\ Once \in BOOLEAN
    /\ Wait \in Nat
    /\ ClientTimeout \in Nat \ {0}
    /\ Faults \subseteq {"crash", "loss", "restart"}

VARIABLES
    blockedFile,  \* agent-state.json: DemoEnforcer's blocked_apps
    cursorFile,   \* runtime-state.json: last_command_id
    procs,        \* the running processes and what they hold in memory
    longPolls,    \* polls the API is still serving, heard or not
    executed      \* history: commands whose unblock reached the file

agentVars == <<blockedFile, cursorFile, procs, longPolls, executed>>
flowVars == <<vars, agentVars>>

\* down; reporting: about to POST the incident; blocking: the incident has an
\* id; saving: the file is truncated and being written; polling: top of the
\* loop; waiting: a poll is out; working: commands to handle; answering: the
\* result of the first one is known; awaiting: its ack is out.
Pc == {"down", "reporting", "blocking", "saving", "polling", "waiting",
       "working", "answering", "awaiting"}

\* What a process knows of a command: its id and whether it came with an expiry.
Item == [id: 1..MaxCommands, prepared: BOOLEAN]

Process == [pc: Pc, mem: SUBSET Apps, cursor: 0..MaxCommands, batch: Seq(Item),
            key: Keys \cup {NoKey}, result: {"ACKNOWLEDGED", "FAILED"},
            request: DeviceHandlers \cup {NoHandler}]

LongPoll == [handler: DeviceHandlers, after: 0..MaxCommands, since: Nat]

FlowTypeOK ==
    /\ TypeOK
    /\ blockedFile \in [readable: BOOLEAN, apps: SUBSET Apps]
    /\ cursorFile \in 0..MaxCommands
    /\ procs \in [Agents -> Process]
    /\ longPolls \subseteq LongPoll
    /\ executed \subseteq 1..MaxCommands

Down == [pc |-> "down", mem |-> {}, cursor |-> 0, batch |-> <<>>, key |-> NoKey,
         result |-> "FAILED", request |-> NoHandler]

FlowInit ==
    /\ Init
    /\ blockedFile = [readable |-> TRUE, apps |-> {}]
    /\ cursorFile = 0
    /\ procs = [a \in Agents |-> Down]
    /\ longPolls = {}
    /\ executed = {}

AppOfCommand(c) == AppOf[incidents[commands[c].incident].key]

HandlerFree(h) == DeviceIdle(h) /\ \A p \in longPolls : p.handler # h

Exit(a) == procs' = [procs EXCEPT ![a] = Down]

-----------------------------------------------------------------------------
(* Files *)

\* _load: an unreadable file counts as nothing blocked.
LoadedApps == IF blockedFile.readable THEN blockedFile.apps ELSE {}

\* _save is write_text: the file is truncated first and written afterwards.
\* Every process writes the whole of its own set.
Save(a, apps) ==
    /\ blockedFile' = [readable |-> FALSE, apps |-> {}]
    /\ procs' = [procs EXCEPT ![a].pc = "saving", ![a].mem = apps]

\* The write ends a block (no command at hand: poll_commands then loads the
\* cursor) or an unblock (its outcome is EXECUTED).
FinishSave(a) ==
    /\ procs[a].pc = "saving"
    /\ blockedFile' = [readable |-> TRUE, apps |-> procs[a].mem]
    /\ IF procs[a].batch = <<>>
       THEN /\ procs' = [procs EXCEPT ![a].pc = "polling", ![a].key = NoKey,
                                      ![a].cursor = cursorFile]
            /\ UNCHANGED executed
       ELSE /\ procs' = [procs EXCEPT ![a].pc = "answering", ![a].result = "ACKNOWLEDGED"]
            /\ executed' = executed \cup {Head(procs[a].batch).id}
    /\ UNCHANGED <<vars, cursorFile, longPolls>>

-----------------------------------------------------------------------------
(* A process starts, reports what it saw and blocks the application *)

StartPoll(a) ==
    /\ procs[a].pc = "down"
    /\ procs' = [procs EXCEPT ![a].pc = "polling", ![a].mem = LoadedApps,
                              ![a].cursor = cursorFile]
    /\ UNCHANGED <<vars, blockedFile, cursorFile, longPolls, executed>>

\* live-demo --wait-for-unlock: the enforcer loads its file before the POST.
\* Bound: an incident id is left for the report.
StartLiveDemo(a, k) ==
    /\ procs[a].pc = "down"
    /\ \E i \in Incidents : incidents[i].status = "NONE"
    /\ procs' = [procs EXCEPT ![a].pc = "reporting", ![a].mem = LoadedApps, ![a].key = k]
    /\ UNCHANGED <<vars, blockedFile, cursorFile, longPolls, executed>>

\* The incident is stored; the process hears of it or its request fails.
Report(a, i) ==
    /\ procs[a].pc = "reporting"
    /\ CreateIncident(Device, procs[a].key, i, TRUE)
    /\ \/ procs' = [procs EXCEPT ![a].pc = "blocking"]
       \/ "loss" \in Faults /\ Exit(a)
    /\ UNCHANGED <<blockedFile, cursorFile, longPolls, executed>>

\* enforcer.block, whatever status the incident came back with.
Block(a) ==
    /\ procs[a].pc = "blocking"
    /\ Save(a, procs[a].mem \cup {AppOf[procs[a].key]})
    /\ UNCHANGED <<vars, cursorFile, longPolls, executed>>

-----------------------------------------------------------------------------
(* The long poll *)

SendPoll(a, h) ==
    /\ procs[a].pc = "polling"
    /\ HandlerFree(h)
    /\ longPolls' = longPolls \cup {[handler |-> h, after |-> procs[a].cursor, since |-> clock]}
    /\ procs' = [procs EXCEPT ![a].pc = "waiting", ![a].request = h]
    /\ UNCHANGED <<vars, blockedFile, cursorFile, executed>>

\* One round of authenticated_commands, every 0.25 s until it has an answer.
PollRound(p) ==
    /\ PollRead(p.handler, Device, p.after)
    /\ UNCHANGED agentVars

Caller(a, h) == procs[a].request = h

\* The answers of a poll: its batch, oldest first.
ItemsOf(w) ==
    LET positions == 1..Cardinality(Batch(w))
        ascending == {f \in [positions -> Batch(w)] :
                        \A m, n \in positions : m < n => f[m] < f[n]}
    IN  {[n \in positions |-> [id |-> f[n], prepared |-> SweptRow(w, f[n]).prepared]] :
            f \in ascending}

Received(a, items) ==
    [procs EXCEPT ![a].request = NoHandler, ![a].batch = items,
                  ![a].pc = IF items # <<>> THEN "working" ELSE "polling"]

\* The answer goes to whoever still listens, or nowhere.  An empty answer of
\* poll --once ends the process.
PollAnswer(w, p) ==
    /\ p.handler = w.handler
    /\ PollWrite(w)
    /\ IF Batch(w) = {} /\ clock < p.since + Wait
       THEN UNCHANGED <<procs, longPolls>>
       ELSE /\ longPolls' = longPolls \ {p}
            /\ \/ \E a \in Agents :
                    /\ Caller(a, w.handler)
                    /\ \/ /\ Batch(w) # {} \/ ~Once
                          /\ \E items \in ItemsOf(w) : procs' = Received(a, items)
                       \/ /\ (Once /\ Batch(w) = {}) \/ "loss" \in Faults
                          /\ Exit(a)
               \/ /\ \A a \in Agents : ~Caller(a, w.handler)
                  /\ UNCHANGED procs
    /\ UNCHANGED <<blockedFile, cursorFile, executed>>

\* The request dies with a 500: its client exits.
PollFails(w, p) ==
    /\ p.handler = w.handler
    /\ PollConflict(w)
    /\ longPolls' = longPolls \ {p}
    /\ procs' = [a \in Agents |-> IF Caller(a, w.handler) THEN Down ELSE procs[a]]
    /\ UNCHANGED <<blockedFile, cursorFile, executed>>

\* urlopen gives up while the API goes on serving the poll.
PollTimeout(a, p) ==
    /\ Caller(a, p.handler)
    /\ p.since + ClientTimeout <= clock
    /\ Exit(a)
    /\ UNCHANGED <<vars, blockedFile, cursorFile, longPolls, executed>>

-----------------------------------------------------------------------------
(* Commands *)

\* Mutation: the expiry is not compared with the clock.
ExecutableUnexpired(item) == item.prepared

\* No expiry is MALFORMED_COMMAND, a past one COMMAND_EXPIRED.
Executable(item) == item.prepared /\ clock < Expiry(commands[item.id])

Handle(a) ==
    /\ procs[a].pc = "working"
    /\ LET item == Head(procs[a].batch) IN
       IF Executable(item)
       THEN Save(a, procs[a].mem \ {AppOfCommand(item.id)})
       ELSE /\ procs' = [procs EXCEPT ![a].pc = "answering", ![a].result = "FAILED"]
            /\ UNCHANGED blockedFile
    /\ UNCHANGED <<vars, cursorFile, longPolls, executed>>

SendAck(a, h) ==
    /\ procs[a].pc = "answering"
    /\ HandlerFree(h)
    /\ AckRead(h, Head(procs[a].batch).id, procs[a].result)
    /\ procs' = [procs EXCEPT ![a].pc = "awaiting", ![a].request = h]
    /\ UNCHANGED <<blockedFile, cursorFile, longPolls, executed>>

\* Mutation: off by one.
CursorBeyond(a, id) == id + 1

NextCursor(a, id) == IF id > procs[a].cursor THEN id ELSE procs[a].cursor

\* After the ack the cursor is saved (atomically) and the loop goes on.
Advanced(a) ==
    LET id == Head(procs[a].batch).id
        next == NextCursor(a, id)
        rest == Tail(procs[a].batch)
    IN  /\ cursorFile' = next
        /\ procs' = [procs EXCEPT ![a] =
                IF rest = <<>> /\ Once THEN Down
                ELSE [@ EXCEPT !.cursor = next, !.batch = rest, !.request = NoHandler,
                               !.pc = IF rest = <<>> THEN "polling" ELSE "working"]]

Answered(a, accepted) ==
    \/ accepted /\ Advanced(a)
    \/ (~accepted \/ "loss" \in Faults) /\ Exit(a) /\ UNCHANGED cursorFile

\* The row is settled already (answered 200) or was never delivered (409);
\* neither writes.
AckUnwritten(a) ==
    /\ procs[a].pc = "answering"
    /\ Unprepared = {}
    /\ LET row == commands[Head(procs[a].batch).id] IN
       /\ AckRefused(row, clock)
       /\ Answered(a, row.status # "PENDING")
    /\ UNCHANGED <<vars, blockedFile, longPolls, executed>>

\* A write of EXPIRED is answered 409.
AckAnswer(a, w) ==
    /\ Caller(a, w.handler)
    /\ \/ AckWrite(w) /\ Answered(a, w.write # "EXPIRED")
       \/ AckPreparing(w) /\ Answered(a, commands'[w.command].status \notin {"PENDING", "EXPIRED"})
       \/ AckConflict(w) /\ Answered(a, FALSE)
    /\ UNCHANGED <<blockedFile, longPolls, executed>>

\* The client went away before the handler finished.
AckUnheard(w) ==
    /\ \A a \in Agents : ~Caller(a, w.handler)
    /\ AckWrite(w) \/ AckPreparing(w) \/ AckConflict(w)
    /\ UNCHANGED agentVars

-----------------------------------------------------------------------------
(* Faults *)

Crash(a) ==
    /\ "crash" \in Faults
    /\ procs[a].pc # "down"
    /\ Exit(a)
    /\ UNCHANGED <<vars, blockedFile, cursorFile, longPolls, executed>>

\* Open requests break: their clients exit.
RestartApi ==
    /\ "restart" \in Faults
    /\ decisions' = {} /\ polls' = {} /\ acks' = {} /\ longPolls' = {}
    /\ decisions \cup polls \cup acks \cup longPolls # {}
    /\ procs' = [a \in Agents |-> IF Caller(a, NoHandler) THEN procs[a] ELSE Down]
    /\ UNCHANGED <<clock, incidents, commands, blockedFile, cursorFile, executed>>

-----------------------------------------------------------------------------
AgentStep(a) ==
    \/ FinishSave(a)
    \/ \E i \in Incidents : Report(a, i)
    \/ Block(a)
    \/ \E h \in DeviceHandlers : SendPoll(a, h) \/ SendAck(a, h)
    \/ Handle(a)
    \/ AckUnwritten(a)

ApiStep ==
    \/ \E p \in longPolls : PollRound(p)
    \/ \E w \in polls, p \in longPolls : PollAnswer(w, p) \/ PollFails(w, p)
    \/ \E w \in acks : AckUnheard(w) \/ \E a \in Agents : AckAnswer(a, w)

FlowNext ==
    \/ (ParentRequest \/ ParentCommit \/ Tick) /\ UNCHANGED agentVars
    \/ \E a \in Agents : \/ StartPoll(a)
                         \/ \E k \in Keys : StartLiveDemo(a, k)
                         \/ AgentStep(a)
                         \/ \E p \in longPolls : PollTimeout(a, p)
                         \/ Crash(a)
    \/ ApiStep
    \/ RestartApi

FlowSpec == FlowInit /\ [][FlowNext]_flowVars

-----------------------------------------------------------------------------
(* Properties *)

\* The commands process a is unblocking for in this step.
Lifts(a) ==
    IF procs[a].pc = "working" /\ procs'[a].pc = "saving"
    THEN {Head(procs[a].batch).id} ELSE {}

\* ADR-0004: an expired command is never executed, and no application is
\* released unless a parent unlocked the incident behind the order.
LiftedByLiveDecision ==
    [][\A a \in Agents : \A c \in Lifts(a) :
        /\ incidents[commands[c].incident].status = "UNLOCKED"
        /\ clock < Expiry(commands[c])]_flowVars

\* A command the parent sees ACKNOWLEDGED was carried out: its unblock had
\* reached the file before the ack was sent, whatever crashed in between.
AcknowledgedMeansExecuted ==
    \A c \in CommandIds : commands[c].status = "ACKNOWLEDGED" => c \in executed

\* The cursor hides no order: a pending one that is still good lies beyond the
\* cursor of the file and of every process.
CursorNeverSkips ==
    \A c \in CommandIds :
        (commands[c].status = "PENDING" /\ clock < Expiry(commands[c])) =>
            /\ c > cursorFile
            /\ \A a \in Agents : procs[a].pc # "down" => c > procs[a].cursor

\* When everything reported about an application has been unlocked and
\* acknowledged, no block of it is left on the device.
Released(app) ==
    \A i \in Incidents :
        (incidents[i].status # "NONE" /\ AppOf[incidents[i].key] = app) =>
            \E c \in CommandIds : /\ commands[c].incident = i
                                  /\ commands[c].status = "ACKNOWLEDGED"

AcknowledgedIsLifted ==
    \A app \in Apps : Released(app) =>
        /\ app \notin blockedFile.apps
        /\ \A a \in Agents : app \notin procs[a].mem
=============================================================================
