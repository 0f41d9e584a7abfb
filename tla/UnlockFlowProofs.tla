-------------------------- MODULE UnlockFlowProofs --------------------------
(***************************************************************************)
(* Proofs about UnlockFlow for every number of agent processes, handlers,  *)
(* incidents, commands and applications, whichever faults may happen.      *)
(***************************************************************************)
EXTENDS UnlockFlow, IncidentServerProofs, FiniteSetTheorems

-----------------------------------------------------------------------------
(* The inductive invariant, part one: who holds what *)

\* Nothing an agent holds lies beyond the commands there are.
WithinCommands ==
    /\ cursorFile \in 0..Len(commands)
    /\ executed \subseteq CommandIds
    /\ \A p \in longPolls : p.after \in 0..Len(commands)
    /\ \A a \in Agents :
          /\ procs[a].cursor \in 0..Len(commands)
          /\ \A n \in DOMAIN procs[a].batch : procs[a].batch[n].id \in CommandIds

\* The program counter says which fields are in use.
Shaped ==
    \A a \in Agents :
        /\ procs[a].pc \in {"working", "answering", "awaiting"} => procs[a].batch # <<>>
        /\ procs[a].pc \notin {"working", "answering", "awaiting", "saving"} =>
              procs[a].batch = <<>>
        /\ procs[a].pc \in {"reporting", "blocking"} => procs[a].key \in Keys
        /\ procs[a].pc \notin {"waiting", "awaiting"} => procs[a].request = NoHandler

\* A handler serves one request, and a round of a long poll belongs to it.
Connections ==
    /\ \A p, q \in longPolls : p.handler = q.handler => p = q
    /\ \A v, w \in acks : v.handler = w.handler => v = w
    /\ \A p \in longPolls, w \in acks : p.handler # w.handler
    /\ \A v, w \in polls : v = w
    /\ \A w \in polls : /\ w.device = Device
                        /\ \E p \in longPolls : p.handler = w.handler /\ p.after = w.after

\* A process that waits has a request of its own out, and nobody else's.
Requests ==
    /\ \A a \in Agents :
          /\ procs[a].pc = "waiting" =>
                \E p \in longPolls : /\ p.handler = procs[a].request
                                     /\ p.after = procs[a].cursor
          /\ procs[a].pc = "awaiting" =>
                \E w \in acks : /\ w.handler = procs[a].request
                                /\ w.command = Head(procs[a].batch).id
    /\ \A a, b \in Agents :
          procs[a].request = procs[b].request /\ procs[a].request # NoHandler => a = b

FlowInv ==
    /\ FlowTypeOK
    /\ ServerInv
    /\ WithinCommands
    /\ Shaped
    /\ Connections
    /\ Requests

\* Part two: whoever says ACKNOWLEDGED, or is about to, has the unblock in the
\* file already.
Executed ==
    /\ \A c \in CommandIds : commands[c].status = "ACKNOWLEDGED" => c \in executed
    /\ \A w \in acks : w.write = "ACKNOWLEDGED" => w.command \in executed
    /\ \A a \in Agents :
          (procs[a].pc \in {"answering", "awaiting"} /\ procs[a].result = "ACKNOWLEDGED") =>
              Head(procs[a].batch).id \in executed

-----------------------------------------------------------------------------
(* Part three, for one agent process: nothing below a cursor is still due *)

OneAgent == \A a, b \in Agents : a = b

Good(c) == commands[c].status = "PENDING" /\ clock < Expiry(commands[c])

\* No command up to n waits for a delivery.
Passed(n) == \A c \in CommandIds : c <= n => ~Good(c)

\* Every incident and every order is the one device's.
OwnOrders ==
    /\ \A i \in Incidents : incidents[i].status # "NONE" => incidents[i].device = Device
    /\ \A c \in CommandIds : incidents[commands[c].incident].status # "NONE"
    /\ \A w \in decisions : incidents[w.incident].status # "NONE"
    /\ \A w \in polls \cup acks : w.unprepared \subseteq CommandIds

\* No row is dated ahead of the clock.
Dated ==
    /\ \A c \in CommandIds : /\ commands[c].created <= clock
                             /\ commands[c].status = "PENDING" => commands[c].next <= clock
    /\ \A w \in decisions : w.created <= clock

\* While the agent waits for a poll, whatever is pending was due when the poll
\* read the clock, and no acknowledgement in flight can postpone it.
DueWhenRead ==
    \A w \in polls : (\E a \in Agents : procs[a].request = w.handler) =>
        /\ \A c \in CommandIds : commands[c].status = "PENDING" => commands[c].next <= w.at
        /\ \A c \in w.unprepared : commands[c].created <= w.at
        /\ \A v \in acks : \A c \in v.unprepared : commands[c].created <= w.at

CursorsPassed ==
    /\ Passed(cursorFile)
    /\ \A a \in Agents : /\ Passed(procs[a].cursor)
                         /\ \A n \in DOMAIN procs[a].batch : Passed(procs[a].batch[n].id)

CursorInv == FlowInv /\ OwnOrders /\ Dated /\ DueWhenRead /\ CursorsPassed

-----------------------------------------------------------------------------
(* Part four, for one agent process and one parent request at a time: every *)
(* block is owed to an incident whose unlock was not executed               *)

Unexecuted(app, i) ==
    /\ incidents[i].status # "NONE"
    /\ AppOf[incidents[i].key] = app
    /\ \A c \in executed : commands[c].incident # i

BlocksOwed ==
    /\ \A app \in blockedFile.apps : \E i \in Incidents : Unexecuted(app, i)
    /\ \A a \in Agents :
          /\ \A app \in procs[a].mem : \E i \in Incidents : Unexecuted(app, i)
          /\ procs[a].pc = "blocking" =>
                \E i \in Incidents : Unexecuted(AppOf[procs[a].key], i)
          /\ (procs[a].pc = "saving" /\ procs[a].batch # <<>>) =>
                AppOfCommand(Head(procs[a].batch).id) \notin procs[a].mem

-----------------------------------------------------------------------------
(* What the steps of a process do to its record *)

\* Process a becomes q, the others stay what they are.
Becomes(a, q) == procs' = [procs EXCEPT ![a] = q]

LEMMA BecomesOne ==
    ASSUME procs \in [Agents -> Process], NEW a \in Agents, NEW q \in Process, Becomes(a, q)
    PROVE  /\ procs' \in [Agents -> Process]
           /\ procs'[a] = q
           /\ \A b \in Agents : b # a => procs'[b] = procs[b]
  BY DEF Becomes

LEMMA DownFacts ==
    /\ Down \in Process
    /\ Down.pc = "down" /\ Down.mem = {} /\ Down.cursor = 0 /\ Down.batch = <<>>
    /\ Down.request = NoHandler /\ Down.key = NoKey /\ Down.result = "FAILED"
  <1>1. 0 \in 0..MaxCommands
    BY ServerConstants
  <1>2. <<>> \in Seq(Item)
    BY EmptySeq
  <1> QED BY <1>1, <1>2 DEF Down, Process, Pc

LEMMA ProcessFacts ==
    ASSUME FlowTypeOK, NEW a \in Agents
    PROVE  /\ procs[a] \in Process
           /\ procs[a].pc \in Pc
           /\ procs[a].mem \subseteq Apps
           /\ procs[a].cursor \in 0..MaxCommands
           /\ procs[a].batch \in Seq(Item)
           /\ procs[a].key \in Keys \cup {NoKey}
           /\ procs[a].result \in {"ACKNOWLEDGED", "FAILED"}
           /\ procs[a].request \in DeviceHandlers \cup {NoHandler}
  BY DEF FlowTypeOK, Process

LEMMA FileFacts ==
    ASSUME FlowTypeOK
    PROVE  LoadedApps \subseteq Apps /\ blockedFile.apps \subseteq Apps
  BY DEF FlowTypeOK, LoadedApps

\* The first command at hand is one of the batch, and the rest is a batch too.
LEMMA BatchFacts ==
    ASSUME FlowInv, NEW a \in Agents, procs[a].batch # <<>>
    PROVE  /\ Head(procs[a].batch) \in Item
           /\ Head(procs[a].batch).id \in CommandIds
           /\ \E n \in DOMAIN procs[a].batch : Head(procs[a].batch) = procs[a].batch[n]
           /\ Tail(procs[a].batch) \in Seq(Item)
           /\ \A n \in DOMAIN Tail(procs[a].batch) :
                 \E m \in DOMAIN procs[a].batch : Tail(procs[a].batch)[n] = procs[a].batch[m]
  <1> DEFINE b == procs[a].batch
  <1>1. b \in Seq(Item) /\ b # <<>>
    BY ProcessFacts DEF FlowInv
  <1>2. /\ Head(b) \in Item /\ Tail(b) \in Seq(Item)
        /\ Len(b) \in Nat \ {0} /\ DOMAIN b = 1..Len(b)
        /\ Len(Tail(b)) = Len(b) - 1 /\ DOMAIN Tail(b) = 1..Len(Tail(b))
        /\ Head(b) = b[1]
        /\ \A n \in 1..Len(Tail(b)) : Tail(b)[n] = b[n + 1]
    BY <1>1, HeadTailProperties, LenProperties, EmptySeq
  <1>3. 1 \in DOMAIN b /\ \A n \in DOMAIN Tail(b) : n + 1 \in DOMAIN b
    BY <1>2
  <1>4. Head(b).id \in CommandIds
    BY <1>2, <1>3 DEF FlowInv, WithinCommands
  <1> HIDE DEF b
  <1>5. \A n \in DOMAIN Tail(b) : \E m \in DOMAIN b : Tail(b)[n] = b[m]
    BY <1>2, <1>3
  <1> QED BY <1>2, <1>3, <1>4, <1>5 DEF b

LEMMA ExitEffect ==
    ASSUME FlowTypeOK, NEW a \in Agents, Exit(a)
    PROVE  Becomes(a, Down)
  BY DEF Exit, Becomes

LEMMA StartPollEffect ==
    ASSUME FlowTypeOK, NEW a \in Agents, StartPoll(a)
    PROVE  \E q \in Process :
             /\ Becomes(a, q)
             /\ q.pc = "polling" /\ q.mem = LoadedApps /\ q.cursor = cursorFile
             /\ q.batch = procs[a].batch /\ q.key = procs[a].key
             /\ q.result = procs[a].result /\ q.request = procs[a].request
  <1> DEFINE q == [procs[a] EXCEPT !.pc = "polling", !.mem = LoadedApps, !.cursor = cursorFile]
  <1>1. procs[a] \in Process /\ LoadedApps \subseteq Apps /\ cursorFile \in 0..MaxCommands
    BY ProcessFacts, FileFacts DEF FlowTypeOK
  <1>2. /\ q \in Process
        /\ q.pc = "polling" /\ q.mem = LoadedApps /\ q.cursor = cursorFile
        /\ q.batch = procs[a].batch /\ q.key = procs[a].key
        /\ q.result = procs[a].result /\ q.request = procs[a].request
    BY <1>1 DEF Process, Pc
  <1>3. Becomes(a, q)
    BY <1>1 DEF StartPoll, Becomes, FlowTypeOK
  <1> HIDE DEF q
  <1> QED BY <1>2, <1>3

LEMMA StartLiveDemoEffect ==
    ASSUME FlowTypeOK, NEW a \in Agents, NEW k \in Keys,
           StartLiveDemo(a, k)
    PROVE  \E q \in Process :
             /\ Becomes(a, q)
             /\ q.pc = "reporting" /\ q.mem = LoadedApps
             /\ q.cursor = procs[a].cursor /\ q.batch = procs[a].batch
             /\ q.key = k /\ q.result = procs[a].result
             /\ q.request = procs[a].request
  <1> DEFINE q == [procs[a] EXCEPT !.pc = "reporting", !.mem = LoadedApps, !.key = k]
  <1>1. procs[a] \in Process /\ LoadedApps \subseteq Apps
    BY ProcessFacts, FileFacts
  <1>2. /\ q \in Process
        /\ q.pc = "reporting" /\ q.mem = LoadedApps
        /\ q.cursor = procs[a].cursor /\ q.batch = procs[a].batch
        /\ q.key = k /\ q.result = procs[a].result
        /\ q.request = procs[a].request
    BY <1>1 DEF Process, Pc
  <1>3. Becomes(a, q)
    BY <1>1 DEF StartLiveDemo, Becomes, FlowTypeOK
  <1> HIDE DEF q
  <1> QED BY <1>2, <1>3

\* The process hears of its incident.
LEMMA ReportedEffect ==
    ASSUME FlowTypeOK, NEW a \in Agents, procs' = [procs EXCEPT ![a].pc = "blocking"]
    PROVE  \E q \in Process :
             /\ Becomes(a, q)
             /\ q.pc = "blocking" /\ q.mem = procs[a].mem
             /\ q.cursor = procs[a].cursor /\ q.batch = procs[a].batch
             /\ q.key = procs[a].key /\ q.result = procs[a].result
             /\ q.request = procs[a].request
  <1> DEFINE q == [procs[a] EXCEPT !.pc = "blocking"]
  <1>1. procs[a] \in Process
    BY ProcessFacts
  <1>2. /\ q \in Process
        /\ q.pc = "blocking" /\ q.mem = procs[a].mem
        /\ q.cursor = procs[a].cursor /\ q.batch = procs[a].batch
        /\ q.key = procs[a].key /\ q.result = procs[a].result
        /\ q.request = procs[a].request
    BY <1>1 DEF Process, Pc
  <1>3. Becomes(a, q)
    BY <1>1 DEF Becomes, FlowTypeOK
  <1> HIDE DEF q
  <1> QED BY <1>2, <1>3

LEMMA SaveEffect ==
    ASSUME FlowTypeOK, NEW a \in Agents, NEW apps \in SUBSET Apps,
           Save(a, apps)
    PROVE  \E q \in Process :
             /\ Becomes(a, q)
             /\ q.pc = "saving" /\ q.mem = apps
             /\ q.cursor = procs[a].cursor /\ q.batch = procs[a].batch
             /\ q.key = procs[a].key /\ q.result = procs[a].result
             /\ q.request = procs[a].request
  <1> DEFINE q == [procs[a] EXCEPT !.pc = "saving", !.mem = apps]
  <1>1. procs[a] \in Process
    BY ProcessFacts
  <1>2. /\ q \in Process
        /\ q.pc = "saving" /\ q.mem = apps
        /\ q.cursor = procs[a].cursor /\ q.batch = procs[a].batch
        /\ q.key = procs[a].key /\ q.result = procs[a].result
        /\ q.request = procs[a].request
    BY <1>1 DEF Process, Pc
  <1>3. Becomes(a, q)
    BY <1>1 DEF Save, Becomes, FlowTypeOK
  <1> HIDE DEF q
  <1> QED BY <1>2, <1>3

LEMMA BlockSavedEffect ==
    ASSUME FlowTypeOK, NEW a \in Agents, FinishSave(a), procs[a].batch = <<>>
    PROVE  \E q \in Process :
             /\ Becomes(a, q)
             /\ q.pc = "polling" /\ q.mem = procs[a].mem
             /\ q.cursor = cursorFile /\ q.batch = procs[a].batch
             /\ q.key = NoKey /\ q.result = procs[a].result
             /\ q.request = procs[a].request
  <1> DEFINE q == [procs[a] EXCEPT !.pc = "polling", !.cursor = cursorFile, !.key = NoKey]
  <1>1. procs[a] \in Process /\ cursorFile \in 0..MaxCommands
    BY ProcessFacts DEF FlowTypeOK
  <1>2. /\ q \in Process
        /\ q.pc = "polling" /\ q.mem = procs[a].mem
        /\ q.cursor = cursorFile /\ q.batch = procs[a].batch
        /\ q.key = NoKey /\ q.result = procs[a].result
        /\ q.request = procs[a].request
    BY <1>1 DEF Process, Pc
  <1>3. Becomes(a, q)
    BY <1>1 DEF FinishSave, Becomes, FlowTypeOK
  <1> HIDE DEF q
  <1> QED BY <1>2, <1>3

LEMMA UnblockSavedEffect ==
    ASSUME FlowTypeOK, NEW a \in Agents, FinishSave(a), procs[a].batch # <<>>
    PROVE  \E q \in Process :
             /\ Becomes(a, q)
             /\ q.pc = "answering" /\ q.mem = procs[a].mem
             /\ q.cursor = procs[a].cursor /\ q.batch = procs[a].batch
             /\ q.key = procs[a].key /\ q.result = "ACKNOWLEDGED"
             /\ q.request = procs[a].request
  <1> DEFINE q == [procs[a] EXCEPT !.pc = "answering", !.result = "ACKNOWLEDGED"]
  <1>1. procs[a] \in Process
    BY ProcessFacts
  <1>2. /\ q \in Process
        /\ q.pc = "answering" /\ q.mem = procs[a].mem
        /\ q.cursor = procs[a].cursor /\ q.batch = procs[a].batch
        /\ q.key = procs[a].key /\ q.result = "ACKNOWLEDGED"
        /\ q.request = procs[a].request
    BY <1>1 DEF Process, Pc
  <1>3. Becomes(a, q)
    BY <1>1 DEF FinishSave, Becomes, FlowTypeOK
  <1> HIDE DEF q
  <1> QED BY <1>2, <1>3

LEMMA SendPollEffect ==
    ASSUME FlowTypeOK, NEW a \in Agents, NEW h \in DeviceHandlers,
           SendPoll(a, h)
    PROVE  \E q \in Process :
             /\ Becomes(a, q)
             /\ q.pc = "waiting" /\ q.mem = procs[a].mem
             /\ q.cursor = procs[a].cursor /\ q.batch = procs[a].batch
             /\ q.key = procs[a].key /\ q.result = procs[a].result
             /\ q.request = h
  <1> DEFINE q == [procs[a] EXCEPT !.pc = "waiting", !.request = h]
  <1>1. procs[a] \in Process
    BY ProcessFacts
  <1>2. /\ q \in Process
        /\ q.pc = "waiting" /\ q.mem = procs[a].mem
        /\ q.cursor = procs[a].cursor /\ q.batch = procs[a].batch
        /\ q.key = procs[a].key /\ q.result = procs[a].result
        /\ q.request = h
    BY <1>1 DEF Process, Pc
  <1>3. Becomes(a, q)
    BY <1>1 DEF SendPoll, Becomes, FlowTypeOK
  <1> HIDE DEF q
  <1> QED BY <1>2, <1>3

LEMMA ReceivedEffect ==
    ASSUME FlowTypeOK, NEW a \in Agents, NEW items \in Seq(Item),
           procs' = Received(a, items)
    PROVE  \E q \in Process :
             /\ Becomes(a, q)
             /\ q.pc = (IF items # <<>> THEN "working" ELSE "polling")
             /\ q.mem = procs[a].mem /\ q.cursor = procs[a].cursor
             /\ q.batch = items /\ q.key = procs[a].key
             /\ q.result = procs[a].result /\ q.request = NoHandler
  <1> DEFINE q == [procs[a] EXCEPT !.pc = IF items # <<>> THEN "working" ELSE "polling", !.batch = items, !.request = NoHandler]
  <1>1. procs[a] \in Process
    BY ProcessFacts
  <1>2. /\ q \in Process
        /\ q.pc = (IF items # <<>> THEN "working" ELSE "polling")
        /\ q.mem = procs[a].mem /\ q.cursor = procs[a].cursor
        /\ q.batch = items /\ q.key = procs[a].key
        /\ q.result = procs[a].result /\ q.request = NoHandler
    BY <1>1 DEF Process, Pc
  <1>3. Becomes(a, q)
    BY <1>1 DEF Received, Becomes, FlowTypeOK
  <1> HIDE DEF q
  <1> QED BY <1>2, <1>3

LEMMA NotExecutedEffect ==
    ASSUME FlowTypeOK, NEW a \in Agents, procs' = [procs EXCEPT ![a].pc = "answering", ![a].result = "FAILED"]
    PROVE  \E q \in Process :
             /\ Becomes(a, q)
             /\ q.pc = "answering" /\ q.mem = procs[a].mem
             /\ q.cursor = procs[a].cursor /\ q.batch = procs[a].batch
             /\ q.key = procs[a].key /\ q.result = "FAILED"
             /\ q.request = procs[a].request
  <1> DEFINE q == [procs[a] EXCEPT !.pc = "answering", !.result = "FAILED"]
  <1>1. procs[a] \in Process
    BY ProcessFacts
  <1>2. /\ q \in Process
        /\ q.pc = "answering" /\ q.mem = procs[a].mem
        /\ q.cursor = procs[a].cursor /\ q.batch = procs[a].batch
        /\ q.key = procs[a].key /\ q.result = "FAILED"
        /\ q.request = procs[a].request
    BY <1>1 DEF Process, Pc
  <1>3. Becomes(a, q)
    BY <1>1 DEF Becomes, FlowTypeOK
  <1> HIDE DEF q
  <1> QED BY <1>2, <1>3

LEMMA SendAckEffect ==
    ASSUME FlowTypeOK, NEW a \in Agents, NEW h \in DeviceHandlers,
           SendAck(a, h)
    PROVE  \E q \in Process :
             /\ Becomes(a, q)
             /\ q.pc = "awaiting" /\ q.mem = procs[a].mem
             /\ q.cursor = procs[a].cursor /\ q.batch = procs[a].batch
             /\ q.key = procs[a].key /\ q.result = procs[a].result
             /\ q.request = h
  <1> DEFINE q == [procs[a] EXCEPT !.pc = "awaiting", !.request = h]
  <1>1. procs[a] \in Process
    BY ProcessFacts
  <1>2. /\ q \in Process
        /\ q.pc = "awaiting" /\ q.mem = procs[a].mem
        /\ q.cursor = procs[a].cursor /\ q.batch = procs[a].batch
        /\ q.key = procs[a].key /\ q.result = procs[a].result
        /\ q.request = h
    BY <1>1 DEF Process, Pc
  <1>3. Becomes(a, q)
    BY <1>1 DEF SendAck, Becomes, FlowTypeOK
  <1> HIDE DEF q
  <1> QED BY <1>2, <1>3

LEMMA AdvancedEffect ==
    ASSUME FlowInv, NEW a \in Agents, procs[a].batch # <<>>, Advanced(a)
    PROVE  /\ cursorFile' \in {procs[a].cursor, Head(procs[a].batch).id}
           /\ \/ Becomes(a, Down)
              \/ \E q \in Process :
                   /\ Becomes(a, q)
                   /\ q.pc \in {"polling", "working"}
                   /\ q.pc = "polling" <=> Tail(procs[a].batch) = <<>>
                   /\ q.mem = procs[a].mem /\ q.cursor = cursorFile'
                   /\ q.batch = Tail(procs[a].batch) /\ q.request = NoHandler
  <1> DEFINE next == NextCursor(a, Head(procs[a].batch).id)
             rest == Tail(procs[a].batch)
             q == [procs[a] EXCEPT !.cursor = next, !.batch = rest, !.request = NoHandler,
                          !.pc = IF rest = <<>> THEN "polling" ELSE "working"]
  <1>1. procs[a] \in Process /\ rest \in Seq(Item)
    BY ProcessFacts, BatchFacts DEF FlowInv
  <1>2. next \in {procs[a].cursor, Head(procs[a].batch).id} /\ cursorFile' = next
    BY DEF NextCursor, Advanced
  <1>3. next \in 0..MaxCommands
    <2>1. Head(procs[a].batch).id \in 1..MaxCommands
      BY BatchFacts DEF Item
    <2>2. 1..MaxCommands \subseteq 0..MaxCommands
      BY ServerConstants
    <2> QED BY <1>1, <1>2, <2>1, <2>2, ProcessFacts DEF FlowInv
  <1>4. procs' = [procs EXCEPT ![a] = IF rest = <<>> /\ Once THEN Down ELSE q]
    BY <1>1 DEF Advanced, FlowInv, FlowTypeOK
  <1> HIDE DEF next, rest
  <1>5. /\ q \in Process
        /\ q.pc \in {"polling", "working"}
        /\ q.pc = "polling" <=> rest = <<>>
        /\ q.mem = procs[a].mem /\ q.cursor = next
        /\ q.batch = rest /\ q.request = NoHandler
    BY <1>1, <1>3 DEF Process, Pc
  <1> HIDE DEF q
  <1>6. Becomes(a, Down) \/ Becomes(a, q)
    BY <1>4 DEF Becomes
  <1>7. q.cursor = cursorFile'
    BY <1>2, <1>5
  <1> QED BY <1>2, <1>5, <1>6, <1>7 DEF rest

\* The processes a restart of the API or a failed request leaves alone.
LEMMA DownAllEffect ==
    ASSUME FlowTypeOK, NEW S,
           procs' = [a \in Agents |-> IF a \in S THEN Down ELSE procs[a]]
    PROVE  /\ procs' \in [Agents -> Process]
           /\ \A a \in Agents : procs'[a] = Down \/ (a \notin S /\ procs'[a] = procs[a])
  BY DownFacts DEF FlowTypeOK

-----------------------------------------------------------------------------
(* What a poll answers *)

LEMMA SweptRowFacts ==
    ASSUME ServerInv, NEW w \in polls, NEW c \in CommandIds
    PROVE  /\ SweptRow(w, c) \in Command
           /\ SweptRow(w, c).status \in {commands[c].status} \cup {"EXPIRED", "FAILED"}
           /\ SweptRow(w, c).created = commands[c].created
  <1>1. Prepared(w.unprepared)[c] \in Command
        /\ Prepared(w.unprepared)[c].status = commands[c].status
        /\ Prepared(w.unprepared)[c].created = commands[c].created
    BY PreparedRows DEF ServerInv, TypeOK
  <1>2. w.at \in Nat
    BY DEF ServerInv, TypeOK, Poll
  <1> QED BY <1>1, <1>2, SweptRowOf DEF SweptRow

LEMMA ItemsFacts ==
    ASSUME ServerInv, NEW w \in polls, NEW items \in ItemsOf(w)
    PROVE  /\ items \in Seq(Item)
           /\ \A n \in DOMAIN items : items[n].id \in Batch(w)
  <1> DEFINE k == Cardinality(Batch(w))
  <1>1. CommandIds = 1..Len(commands) /\ Len(commands) \in Nat
        /\ CommandIds \subseteq 1..MaxCommands
    BY CommandFacts DEF ServerInv
  <1>2. Batch(w) \subseteq CommandIds
    BY DEF Batch
  <1>3. k \in Nat
    <2>1. IsFiniteSet(CommandIds)
      BY <1>1, FS_Interval
    <2>2. IsFiniteSet(Batch(w))
      BY <1>2, <2>1, FS_Subset
    <2> QED BY <2>2, FS_CardinalityType
  <1>4. PICK f \in [1..k -> Batch(w)] :
          items = [n \in 1..k |-> [id |-> f[n], prepared |-> SweptRow(w, f[n]).prepared]]
    BY DEF ItemsOf
  <1>5. \A n \in 1..k : /\ f[n] \in Batch(w)
                        /\ f[n] \in 1..MaxCommands
                        /\ SweptRow(w, f[n]).prepared \in BOOLEAN
    BY <1>1, <1>2, <1>4, SweptRowFacts DEF Command
  <1>6. \A n \in 1..k : items[n] \in Item /\ items[n].id \in Batch(w)
    BY <1>4, <1>5 DEF Item
  <1>7. items \in [1..k -> Item]
    BY <1>4, <1>6
  <1> HIDE DEF k
  <1>8. items \in Seq(Item) /\ DOMAIN items = 1..k
    BY <1>3, <1>7, SeqDef
  <1> QED BY <1>6, <1>8

-----------------------------------------------------------------------------
(* The flow implements the control plane *)

\* The control plane's steps without the demo route, which serves no device
\* that has a credential.
OwnNext ==
    \/ ParentRequest \/ ParentCommit \/ DeviceReport \/ DevicePoll \/ PollCommit
    \/ DeviceAck \/ AckCommit \/ Tick \/ ApiRestart

LEMMA FlowServerStep == FlowInv /\ [FlowNext]_flowVars => [OwnNext]_vars
  <1> SUFFICES ASSUME FlowInv, [FlowNext]_flowVars PROVE [OwnNext]_vars
    OBVIOUS
  <1> USE DEF OwnNext
  <1>1. CASE (ParentRequest \/ ParentCommit \/ Tick) /\ UNCHANGED agentVars
    BY <1>1
  <1>2. ASSUME NEW a \in Agents,
               \/ StartPoll(a) \/ (\E k \in Keys : StartLiveDemo(a, k))
               \/ FinishSave(a) \/ Block(a) \/ Handle(a) \/ AckUnwritten(a)
               \/ (\E h \in DeviceHandlers : SendPoll(a, h))
               \/ (\E p \in longPolls : PollTimeout(a, p))
               \/ Crash(a)
        PROVE  [OwnNext]_vars
    <2>1. UNCHANGED vars
      BY <1>2 DEF StartPoll, StartLiveDemo, FinishSave, Block, Handle, AckUnwritten, SendPoll,
                  PollTimeout, Crash
    <2> QED BY <2>1
  <1>3. ASSUME NEW a \in Agents, NEW i \in Incidents, Report(a, i) PROVE [OwnNext]_vars
    <2>1. procs[a].key \in Keys /\ Device \in Devices
      BY <1>3, FlowConstants DEF FlowInv, Shaped, Report
    <2>2. DeviceReport
      BY <1>3, <2>1 DEF Report, DeviceReport
    <2> QED BY <2>2
  <1>4. ASSUME NEW a \in Agents, NEW h \in DeviceHandlers, SendAck(a, h) PROVE [OwnNext]_vars
    <2>1. procs[a].batch # <<>>
      BY <1>4 DEF FlowInv, Shaped, SendAck
    <2>2. Head(procs[a].batch).id \in CommandIds
          /\ procs[a].result \in {"ACKNOWLEDGED", "FAILED"}
      BY <2>1, BatchFacts, ProcessFacts DEF FlowInv
    <2>3. DeviceAck
      BY <1>4, <2>2 DEF SendAck, DeviceAck
    <2> QED BY <2>3
  <1>5. ASSUME NEW p \in longPolls, PollRound(p) PROVE [OwnNext]_vars
    <2>1. /\ p.handler \in DeviceHandlers
          /\ p.after \in 0..Len(commands)
          /\ Device \in Devices \ DemoDevices
      BY FlowConstants DEF FlowInv, FlowTypeOK, LongPoll, WithinCommands
    <2>2. DevicePoll
      BY <1>5, <2>1 DEF PollRound, DevicePoll
    <2> QED BY <2>2
  <1>6. ASSUME NEW w \in polls, NEW p \in longPolls, PollAnswer(w, p) \/ PollFails(w, p)
        PROVE  [OwnNext]_vars
    BY <1>6 DEF PollAnswer, PollFails, PollCommit
  <1>7. ASSUME NEW w \in acks, AckUnheard(w) \/ \E a \in Agents : AckAnswer(a, w)
        PROVE  [OwnNext]_vars
    BY <1>7 DEF AckUnheard, AckAnswer, AckCommit
  <1>8. CASE RestartApi
    <2>1. CASE decisions \cup polls \cup acks # {}
      BY <1>8, <2>1 DEF RestartApi, ApiRestart
    <2>2. CASE decisions \cup polls \cup acks = {}
      BY <1>8, <2>2 DEF RestartApi, vars
    <2> QED BY <2>1, <2>2
  <1>9. CASE UNCHANGED flowVars
    BY <1>9 DEF flowVars, vars
  <1> QED BY <1>1, <1>2, <1>3, <1>4, <1>5, <1>6, <1>7, <1>8, <1>9
          DEF FlowNext, AgentStep, ApiStep

\* A command's status changes by a delivery, an expiry, an exhausted budget or
\* an acknowledgement in flight, and a new command is pending.
StatusMoves ==
    \A c \in CommandIds' :
        IF c \in CommandIds
        THEN \/ commands'[c].status \in {commands[c].status, "DELIVERED", "EXPIRED", "FAILED"}
             \/ \E w \in acks : w.command = c /\ commands'[c].status = w.write
        ELSE commands'[c].status = "PENDING"

LEMMA PollStatusMoves ==
    ASSUME ServerInv, NEW w \in polls, PollWrite(w)
    PROVE  StatusMoves
  <1>1. \A c \in CommandIds :
          commands'[c] = IF c \in Batch(w) THEN Delivered(SweptRow(w, c), w.at)
                                           ELSE SweptRow(w, c)
    BY DEF PollWrite
  <1>2. CommandIds' = CommandIds
    BY DEF PollWrite, CommandIds
  <1>3. \A c \in CommandIds : Delivered(SweptRow(w, c), w.at).status = "DELIVERED"
    <2> TAKE c \in CommandIds
    <2>1. SweptRow(w, c) \in Command
      BY SweptRowFacts
    <2> QED BY <2>1 DEF Delivered, Command
  <1> QED BY <1>1, <1>2, <1>3, SweptRowFacts DEF StatusMoves

LEMMA AckStatusMoves ==
    ASSUME ServerInv, NEW w \in acks, AckWrite(w) \/ AckPreparing(w)
    PROVE  StatusMoves
  <1> DEFINE P == Prepared(w.unprepared)
             row == P[w.command]
  <1>1. w.write \in {"ACKNOWLEDGED", "FAILED", "EXPIRED"}
    BY DEF ServerInv, TypeOK, Ack
  <1>2. /\ P \in [CommandIds -> Command]
        /\ \A c \in CommandIds : P[c].status = commands[c].status
        /\ commands \in [CommandIds -> Command]
    BY PreparedRows, CommandFacts DEF ServerInv, TypeOK, CommandIds
  <1> HIDE DEF P
  <1>3. CASE AckWrite(w)
    <2>1. commands' = [commands EXCEPT ![w.command].status = w.write]
      BY <1>3 DEF AckWrite
    <2>2. CommandIds' = CommandIds
      BY <1>2, <2>1 DEF CommandIds
    <2>3. \A c \in CommandIds :
            commands'[c].status = IF c = w.command THEN w.write ELSE commands[c].status
      BY <1>2, <2>1 DEF Command
    <2> QED BY <2>2, <2>3 DEF StatusMoves
  <1>4. CASE AckPreparing(w)
    <2>1. \/ commands' = P
          \/ commands' = [P EXCEPT ![w.command].status = AckStatus(row, clock, w.write)]
      BY <1>4 DEF AckPreparing, P
    <2>2. CommandIds' = CommandIds
      BY <1>2, <2>1 DEF CommandIds
    <2>3. AckStatus(row, clock, w.write) \in {"EXPIRED", w.write}
      BY DEF AckStatus
    <2> DEFINE s == AckStatus(row, clock, w.write)
    <2> HIDE DEF s
    <2>4. \A c \in CommandIds :
            \/ commands'[c].status = commands[c].status
            \/ c = w.command /\ commands'[c].status = s
      BY <1>2, <2>1 DEF Command, s
    <2> QED BY <2>2, <2>3, <2>4 DEF StatusMoves, s
  <1> QED BY <1>3, <1>4

LEMMA SameStatuses ==
    ASSUME UNCHANGED commands
    PROVE  StatusMoves
  BY DEF StatusMoves, CommandIds

LEMMA StatusStep ==
    ASSUME ServerInv, [OwnNext]_vars
    PROVE  StatusMoves
  <1>1. CASE ParentCommit
    <2>1. PICK w \in decisions : RequestUnlockWrite(w) \/ KeepBlockedWrite(w) \/ UnlockWrite(w)
      BY <1>1 DEF ParentCommit
    <2>2. CASE RequestUnlockWrite(w) \/ KeepBlockedWrite(w)
      BY <2>2, SameStatuses DEF RequestUnlockWrite, KeepBlockedWrite
    <2>3. CASE UnlockWrite(w)
      <3> DEFINE n == Len(commands) + 1
      <3>1. /\ CommandIds' = CommandIds \cup {n}
            /\ commands'[n] = NewCommand(w.incident, w.created)
            /\ \A c \in CommandIds : commands'[c] = commands[c]
        BY <2>3, UnlockAppends
      <3> HIDE DEF n
      <3>2. commands'[n].status = "PENDING"
        BY <3>1 DEF NewCommand
      <3> QED BY <3>1, <3>2 DEF StatusMoves
    <2> QED BY <2>1, <2>2, <2>3
  <1>2. CASE PollCommit
    BY <1>2, PollStatusMoves, SameStatuses DEF PollCommit, PollConflict
  <1>3. CASE AckCommit
    BY <1>3, AckStatusMoves, SameStatuses DEF AckCommit, AckConflict
  <1>4. CASE DeviceReport
    BY <1>4, SameStatuses DEF DeviceReport, CreateIncident
  <1>5. CASE ParentRequest \/ DevicePoll \/ DeviceAck \/ Tick \/ ApiRestart \/ UNCHANGED vars
    BY <1>5, SameStatuses DEF ParentRequest, DecisionRead, DevicePoll, PollRead, DeviceAck,
                              AckRead, Tick, ApiRestart, vars
  <1> QED BY <1>1, <1>2, <1>3, <1>4, <1>5 DEF OwnNext

\* What every step of the flow does to the tables.
LEMMA ServerEffect ==
    ASSUME FlowInv, [FlowNext]_flowVars
    PROVE  /\ ServerInv' /\ RowsKept /\ StatusMoves
           /\ TypeOK /\ TypeOK'
           /\ CommandIds \subseteq CommandIds'
           /\ CommandIds \subseteq 1..MaxCommands
           /\ 0..Len(commands) \subseteq 0..Len(commands')
           /\ Len(commands') \in 0..MaxCommands
  <1>1. ServerInv' /\ RowsKept /\ StatusMoves
    BY FlowServerStep, ServerInvStep, StatusStep DEF OwnNext, Next, FlowInv
  <1>2. CommandIds \subseteq CommandIds'
    BY <1>1 DEF RowsKept
  <1>3. TypeOK /\ TypeOK'
    BY <1>1 DEF FlowInv, ServerInv
  <1>4. Len(commands) \in Nat /\ CommandIds = 1..Len(commands)
        /\ CommandIds \subseteq 1..MaxCommands
    BY <1>3, CommandFacts
  <1>5. /\ Len(commands') \in Nat /\ CommandIds' = 1..Len(commands')
        /\ Len(commands') <= MaxCommands
    BY <1>3, LenProperties DEF TypeOK, CommandIds
  <1>6. Len(commands) <= Len(commands')
    BY <1>2, <1>4, <1>5
  <1> QED BY <1>1, <1>2, <1>3, <1>4, <1>5, <1>6, ServerConstants

-----------------------------------------------------------------------------
(* Part one of the invariant is inductive *)

\* A record a process may have: its fields agree and name commands there are.
ShapedAs(q) ==
    /\ q.pc \in {"working", "answering", "awaiting"} => q.batch # <<>>
    /\ q.pc \notin {"working", "answering", "awaiting", "saving"} => q.batch = <<>>
    /\ q.pc \in {"reporting", "blocking"} => q.key \in Keys
    /\ q.pc \notin {"waiting", "awaiting"} => q.request = NoHandler

Fits(q) ==
    /\ q \in Process
    /\ ShapedAs(q)
    /\ q.cursor \in 0..Len(commands)
    /\ \A n \in DOMAIN q.batch : q.batch[n].id \in CommandIds

LEMMA AllFit ==
    ASSUME FlowInv
    PROVE  \A a \in Agents : Fits(procs[a])
  BY ProcessFacts DEF FlowInv, WithinCommands, Shaped, Fits, ShapedAs

LEMMA DownFits ==
    ASSUME FlowInv
    PROVE  Fits(Down)
  <1>1. 0 \in 0..Len(commands)
    BY CommandFacts DEF FlowInv, ServerInv
  <1>2. DOMAIN Down.batch = {}
    BY DownFacts, EmptySeq
  <1> QED BY <1>1, <1>2, DownFacts DEF Fits, ShapedAs

LEMMA FitStays ==
    ASSUME FlowInv, [FlowNext]_flowVars,
           procs' \in [Agents -> Process],
           \A a \in Agents : Fits(procs'[a]),
           blockedFile' \in [readable: BOOLEAN, apps: SUBSET Apps],
           cursorFile' \in 0..Len(commands),
           executed' \subseteq CommandIds,
           longPolls' \subseteq LongPoll,
           \A p \in longPolls' : p.after \in 0..Len(commands)
    PROVE  FlowTypeOK' /\ WithinCommands' /\ Shaped'
  <1>1. /\ TypeOK'
        /\ CommandIds \subseteq CommandIds'
        /\ CommandIds \subseteq 1..MaxCommands
        /\ 0..Len(commands) \subseteq 0..Len(commands')
        /\ Len(commands) \in 0..MaxCommands
    BY ServerEffect, CommandFacts DEF FlowInv, ServerInv, TypeOK
  <1>2. cursorFile' \in 0..MaxCommands /\ executed' \subseteq 1..MaxCommands
    BY <1>1, ServerConstants
  <1>3. FlowTypeOK'
    BY <1>1, <1>2 DEF FlowTypeOK
  <1>4. WithinCommands'
    BY <1>1 DEF WithinCommands, Fits
  <1>5. Shaped'
    BY DEF Shaped, Fits, ShapedAs
  <1> QED BY <1>3, <1>4, <1>5

\* No handler is lost that a process waits for.
KeepsRequest(b) ==
    /\ \A p \in longPolls : p.handler = procs[b].request => p \in longPolls'
    /\ \A w \in acks : w.handler = procs[b].request => w \in acks'

LEMMA RequestsFreed ==
    ASSUME FlowInv,
           longPolls' \subseteq longPolls, acks' \subseteq acks, polls' \subseteq polls,
           \A w \in polls', p \in longPolls : p.handler = w.handler => p \in longPolls',
           \A b \in Agents :
              \/ procs'[b].request = NoHandler /\ procs'[b].pc \notin {"waiting", "awaiting"}
              \/ procs'[b] = procs[b] /\ KeepsRequest(b)
    PROVE  Connections' /\ Requests'
  <1>1. Connections'
    BY DEF FlowInv, Connections
  <1>2. ASSUME NEW b \in Agents, procs'[b].pc = "waiting"
        PROVE  \E p \in longPolls' : /\ p.handler = procs'[b].request
                                     /\ p.after = procs'[b].cursor
    <2>1. procs'[b] = procs[b] /\ KeepsRequest(b)
      BY <1>2
    <2> QED BY <1>2, <2>1 DEF FlowInv, Requests, KeepsRequest
  <1>3. ASSUME NEW b \in Agents, procs'[b].pc = "awaiting"
        PROVE  \E w \in acks' : /\ w.handler = procs'[b].request
                                /\ w.command = Head(procs'[b].batch).id
    <2>1. procs'[b] = procs[b] /\ KeepsRequest(b)
      BY <1>3
    <2> QED BY <1>3, <2>1 DEF FlowInv, Requests, KeepsRequest
  <1>4. ASSUME NEW a \in Agents, NEW b \in Agents,
               procs'[a].request = procs'[b].request, procs'[a].request # NoHandler
        PROVE  a = b
    BY <1>4 DEF FlowInv, Requests
  <1>5. Requests'
    BY <1>2, <1>3, <1>4 DEF Requests
  <1> QED BY <1>1, <1>5

\* A step of one process that leaves every request where it is.
LEMMA LocalStep ==
    ASSUME FlowInv, [FlowNext]_flowVars,
           NEW a \in Agents, NEW q, Becomes(a, q), Fits(q),
           q.pc \notin {"waiting", "awaiting"},
           UNCHANGED <<polls, acks, longPolls>>,
           blockedFile' \in [readable: BOOLEAN, apps: SUBSET Apps],
           cursorFile' \in 0..Len(commands),
           executed' \subseteq CommandIds
    PROVE  FlowInv'
  <1>1. /\ procs' \in [Agents -> Process]
        /\ procs'[a] = q
        /\ \A b \in Agents : b # a => procs'[b] = procs[b]
    BY BecomesOne DEF Fits, FlowInv, FlowTypeOK
  <1>2. \A b \in Agents : Fits(procs'[b])
    BY <1>1, AllFit
  <1>3. FlowTypeOK' /\ WithinCommands' /\ Shaped'
    BY <1>1, <1>2, FitStays DEF FlowInv, FlowTypeOK, WithinCommands
  <1>4. q.request = NoHandler
    BY DEF Fits, ShapedAs
  <1>5. Connections' /\ Requests'
    BY <1>1, <1>4, RequestsFreed DEF KeepsRequest
  <1> QED BY <1>3, <1>5, ServerEffect DEF FlowInv

\* A process that ends or is killed.
LEMMA ExitStep ==
    ASSUME FlowInv, [FlowNext]_flowVars, NEW a \in Agents, Exit(a),
           UNCHANGED <<polls, acks, longPolls, blockedFile, cursorFile, executed>>
    PROVE  FlowInv'
  <1>1. Becomes(a, Down)
    BY ExitEffect DEF FlowInv
  <1>2. Down.pc = "down" /\ Fits(Down)
    BY DownFacts, DownFits
  <1> QED BY <1>1, <1>2, LocalStep DEF FlowInv, FlowTypeOK, WithinCommands

LEMMA StartPollStep ==
    ASSUME FlowInv, [FlowNext]_flowVars, NEW a \in Agents, StartPoll(a)
    PROVE  FlowInv'
  <1>1. PICK q \in Process :
          /\ Becomes(a, q)
          /\ q.pc = "polling" /\ q.cursor = cursorFile
          /\ q.batch = procs[a].batch /\ q.request = procs[a].request
    BY StartPollEffect DEF FlowInv
  <1>2. procs[a].pc = "down"
    BY DEF StartPoll
  <1>3. Fits(q)
    BY <1>1, <1>2, AllFit DEF Fits, ShapedAs, FlowInv, WithinCommands
  <1> QED BY <1>1, <1>3, LocalStep DEF StartPoll, FlowInv, FlowTypeOK, WithinCommands, vars

LEMMA StartLiveDemoStep ==
    ASSUME FlowInv, [FlowNext]_flowVars, NEW a \in Agents, NEW k \in Keys, StartLiveDemo(a, k)
    PROVE  FlowInv'
  <1>1. PICK q \in Process :
          /\ Becomes(a, q)
          /\ q.pc = "reporting" /\ q.cursor = procs[a].cursor /\ q.key = k
          /\ q.batch = procs[a].batch /\ q.request = procs[a].request
    BY StartLiveDemoEffect DEF FlowInv
  <1>2. procs[a].pc = "down"
    BY DEF StartLiveDemo
  <1>3. Fits(q)
    BY <1>1, <1>2, AllFit DEF Fits, ShapedAs
  <1> QED BY <1>1, <1>3, LocalStep DEF StartLiveDemo, FlowInv, FlowTypeOK, WithinCommands, vars

LEMMA ReportStep ==
    ASSUME FlowInv, [FlowNext]_flowVars, NEW a \in Agents, NEW i \in Incidents, Report(a, i)
    PROVE  FlowInv'
  <1>1. UNCHANGED <<polls, acks, longPolls, blockedFile, cursorFile, executed>>
    BY DEF Report, CreateIncident
  <1>2. CASE procs' = [procs EXCEPT ![a].pc = "blocking"]
    <2>1. PICK q \in Process :
            /\ Becomes(a, q)
            /\ q.pc = "blocking" /\ q.cursor = procs[a].cursor /\ q.key = procs[a].key
            /\ q.batch = procs[a].batch /\ q.request = procs[a].request
      BY <1>2, ReportedEffect DEF FlowInv
    <2>2. procs[a].pc = "reporting"
      BY DEF Report
    <2>3. Fits(q)
      BY <2>1, <2>2, AllFit DEF Fits, ShapedAs
    <2> QED BY <1>1, <2>1, <2>3, LocalStep DEF FlowInv, FlowTypeOK, WithinCommands
  <1>3. CASE Exit(a)
    BY <1>1, <1>3, ExitStep
  <1> QED BY <1>2, <1>3 DEF Report

LEMMA BlockStep ==
    ASSUME FlowInv, [FlowNext]_flowVars, NEW a \in Agents, Block(a)
    PROVE  FlowInv'
  <1> DEFINE apps == procs[a].mem \cup {AppOf[procs[a].key]}
  <1>1. procs[a].pc = "blocking" /\ Save(a, apps)
        /\ UNCHANGED <<polls, acks, longPolls, cursorFile, executed>>
    BY DEF Block, vars
  <1>2. apps \in SUBSET Apps
    BY <1>1, ProcessFacts, FlowConstants DEF FlowInv, Shaped
  <1> HIDE DEF apps
  <1>3. PICK q \in Process :
          /\ Becomes(a, q)
          /\ q.pc = "saving" /\ q.cursor = procs[a].cursor
          /\ q.batch = procs[a].batch /\ q.request = procs[a].request
    BY <1>1, <1>2, SaveEffect DEF FlowInv
  <1>4. Fits(q)
    BY <1>1, <1>3, AllFit DEF Fits, ShapedAs
  <1>5. blockedFile' \in [readable: BOOLEAN, apps: SUBSET Apps]
    BY <1>1 DEF Save
  <1> QED BY <1>1, <1>3, <1>4, <1>5, LocalStep DEF FlowInv, FlowTypeOK, WithinCommands

LEMMA FinishSaveStep ==
    ASSUME FlowInv, [FlowNext]_flowVars, NEW a \in Agents, FinishSave(a)
    PROVE  FlowInv'
  <1>1. /\ procs[a].pc = "saving"
        /\ blockedFile' = [readable |-> TRUE, apps |-> procs[a].mem]
        /\ UNCHANGED <<polls, acks, longPolls, cursorFile>>
    BY DEF FinishSave, vars
  <1>2. blockedFile' \in [readable: BOOLEAN, apps: SUBSET Apps]
    BY <1>1, ProcessFacts DEF FlowInv
  <1>3. CASE procs[a].batch = <<>>
    <2>1. PICK q \in Process :
            /\ Becomes(a, q)
            /\ q.pc = "polling" /\ q.cursor = cursorFile
            /\ q.batch = procs[a].batch /\ q.request = procs[a].request
      BY <1>3, BlockSavedEffect DEF FlowInv
    <2>2. Fits(q)
      BY <1>1, <1>3, <2>1, AllFit DEF Fits, ShapedAs, FlowInv, WithinCommands
    <2>3. executed' = executed
      BY <1>3 DEF FinishSave
    <2> QED BY <1>1, <1>2, <2>1, <2>2, <2>3, LocalStep DEF FlowInv, FlowTypeOK, WithinCommands
  <1>4. CASE procs[a].batch # <<>>
    <2>1. PICK q \in Process :
            /\ Becomes(a, q)
            /\ q.pc = "answering" /\ q.cursor = procs[a].cursor
            /\ q.batch = procs[a].batch /\ q.request = procs[a].request
      BY <1>4, UnblockSavedEffect DEF FlowInv
    <2>2. Fits(q)
      BY <1>1, <1>4, <2>1, AllFit DEF Fits, ShapedAs
    <2>3. executed' = executed \cup {Head(procs[a].batch).id}
      BY <1>4 DEF FinishSave
    <2>4. executed' \subseteq CommandIds
      BY <1>4, <2>3, BatchFacts DEF FlowInv, WithinCommands
    <2> QED BY <1>1, <1>2, <2>1, <2>2, <2>4, LocalStep DEF FlowInv, FlowTypeOK, WithinCommands
  <1> QED BY <1>3, <1>4

LEMMA HandleStep ==
    ASSUME FlowInv, [FlowNext]_flowVars, NEW a \in Agents, Handle(a)
    PROVE  FlowInv'
  <1> DEFINE item == Head(procs[a].batch)
             apps == procs[a].mem \ {AppOfCommand(item.id)}
  <1>1. /\ procs[a].pc = "working"
        /\ UNCHANGED <<polls, acks, longPolls, cursorFile, executed>>
    BY DEF Handle, vars
  <1>2. CASE Executable(item)
    <2>1. Save(a, apps)
      BY <1>2 DEF Handle
    <2>2. apps \in SUBSET Apps
      BY ProcessFacts DEF FlowInv
    <2> HIDE DEF apps
    <2>3. PICK q \in Process :
            /\ Becomes(a, q)
            /\ q.pc = "saving" /\ q.cursor = procs[a].cursor
            /\ q.batch = procs[a].batch /\ q.request = procs[a].request
      BY <2>1, <2>2, SaveEffect DEF FlowInv
    <2>4. Fits(q)
      BY <1>1, <2>3, AllFit DEF Fits, ShapedAs
    <2>5. blockedFile' \in [readable: BOOLEAN, apps: SUBSET Apps]
      BY <2>1 DEF Save
    <2> QED BY <1>1, <2>3, <2>4, <2>5, LocalStep DEF FlowInv, FlowTypeOK, WithinCommands
  <1>3. CASE ~Executable(item)
    <2>1. PICK q \in Process :
            /\ Becomes(a, q)
            /\ q.pc = "answering" /\ q.cursor = procs[a].cursor
            /\ q.batch = procs[a].batch /\ q.request = procs[a].request
      BY <1>3, NotExecutedEffect DEF Handle, FlowInv
    <2>2. Fits(q)
      BY <1>1, <2>1, AllFit DEF Fits, ShapedAs
    <2>3. blockedFile' = blockedFile
      BY <1>3 DEF Handle
    <2> QED BY <1>1, <2>1, <2>2, <2>3, LocalStep DEF FlowInv, FlowTypeOK, WithinCommands
  <1> QED BY <1>2, <1>3

\* The record an answered acknowledgement leaves, and the cursor saved with it.
LEMMA AnsweredEffect ==
    ASSUME FlowInv, NEW a \in Agents, procs[a].pc \in {"answering", "awaiting"},
           NEW accepted \in BOOLEAN, Answered(a, accepted)
    PROVE  /\ cursorFile' \in {cursorFile, procs[a].cursor, Head(procs[a].batch).id}
           /\ cursorFile' \in 0..Len(commands)
           /\ \E q \in Process :
                /\ Becomes(a, q) /\ Fits(q)
                /\ q.pc \in {"down", "polling", "working"}
                /\ q.request = NoHandler
                /\ q.mem \subseteq procs[a].mem
                /\ q.cursor \in {0, cursorFile'}
                /\ \A n \in DOMAIN q.batch : \E m \in DOMAIN procs[a].batch :
                      q.batch[n] = procs[a].batch[m]
  <1>1. CASE Exit(a) /\ UNCHANGED cursorFile
    <2>1. Becomes(a, Down)
      BY <1>1, ExitEffect DEF FlowInv
    <2>2. DOMAIN Down.batch = {}
      BY DownFacts, EmptySeq
    <2> QED BY <1>1, <2>1, <2>2, DownFacts, DownFits DEF FlowInv, WithinCommands
  <1>2. CASE Advanced(a)
    <2>1. procs[a].batch # <<>>
      BY DEF FlowInv, Shaped
    <2>2. cursorFile' \in {procs[a].cursor, Head(procs[a].batch).id}
      BY <1>2, <2>1, AdvancedEffect
    <2>3. cursorFile' \in 0..Len(commands)
      <3>1. Head(procs[a].batch).id \in 0..Len(commands)
        BY <2>1, BatchFacts, CommandFacts DEF FlowInv, ServerInv
      <3> QED BY <2>2, <3>1 DEF FlowInv, WithinCommands
    <2>4. CASE Becomes(a, Down)
      <3>1. DOMAIN Down.batch = {}
        BY DownFacts, EmptySeq
      <3> QED BY <2>2, <2>3, <2>4, <3>1, DownFacts, DownFits
    <2>5. CASE \E q \in Process :
                 /\ Becomes(a, q)
                 /\ q.pc \in {"polling", "working"}
                 /\ q.pc = "polling" <=> Tail(procs[a].batch) = <<>>
                 /\ q.mem = procs[a].mem /\ q.cursor = cursorFile'
                 /\ q.batch = Tail(procs[a].batch) /\ q.request = NoHandler
      <3>1. PICK q \in Process :
               /\ Becomes(a, q)
               /\ q.pc \in {"polling", "working"}
               /\ q.pc = "polling" <=> Tail(procs[a].batch) = <<>>
               /\ q.mem = procs[a].mem /\ q.cursor = cursorFile'
               /\ q.batch = Tail(procs[a].batch) /\ q.request = NoHandler
        BY <2>5
      <3>2. \A n \in DOMAIN q.batch : \E m \in DOMAIN procs[a].batch :
               q.batch[n] = procs[a].batch[m]
        BY <2>1, <3>1, BatchFacts
      <3>3. \A n \in DOMAIN q.batch : q.batch[n].id \in CommandIds
        BY <3>2 DEF FlowInv, WithinCommands
      <3>4. Fits(q)
        BY <2>3, <3>1, <3>3 DEF Fits, ShapedAs
      <3> QED BY <2>2, <2>3, <3>1, <3>2, <3>4
    <2> QED BY <1>2, <2>1, <2>4, <2>5, AdvancedEffect
  <1> QED BY <1>1, <1>2 DEF Answered

LEMMA AckUnwrittenStep ==
    ASSUME FlowInv, [FlowNext]_flowVars, NEW a \in Agents, AckUnwritten(a)
    PROVE  FlowInv'
  <1>1. /\ procs[a].pc = "answering"
        /\ UNCHANGED <<polls, acks, longPolls, blockedFile, executed>>
    BY DEF AckUnwritten, vars
  <1>2. PICK accepted \in BOOLEAN : Answered(a, accepted)
    BY DEF AckUnwritten
  <1>3. PICK q \in Process : Becomes(a, q) /\ Fits(q) /\ q.pc \in {"down", "polling", "working"}
    BY <1>1, <1>2, AnsweredEffect
  <1>4. cursorFile' \in 0..Len(commands)
    BY <1>1, <1>2, AnsweredEffect
  <1> QED BY <1>1, <1>3, <1>4, LocalStep DEF FlowInv, FlowTypeOK, WithinCommands

\* A free handler serves nobody.
LEMMA FreeHandler ==
    ASSUME FlowInv, NEW h \in DeviceHandlers, HandlerFree(h)
    PROVE  /\ h # NoHandler
           /\ \A w \in polls \cup acks : w.handler # h
           /\ \A p \in longPolls : p.handler # h
           /\ \A b \in Agents : procs[b].request # h
  <1>1. h # NoHandler
    BY FlowConstants
  <1>2. /\ \A w \in polls \cup acks : w.handler # h
        /\ \A p \in longPolls : p.handler # h
    BY DEF HandlerFree, DeviceIdle
  <1>3. ASSUME NEW b \in Agents, procs[b].request = h PROVE FALSE
    <2>1. procs[b].pc \in {"waiting", "awaiting"}
      BY <1>1, <1>3 DEF FlowInv, Shaped
    <2> QED BY <1>2, <1>3, <2>1 DEF FlowInv, Requests
  <1> QED BY <1>1, <1>2, <1>3

LEMMA SendPollStep ==
    ASSUME FlowInv, [FlowNext]_flowVars, NEW a \in Agents, NEW h \in DeviceHandlers,
           SendPoll(a, h)
    PROVE  FlowInv'
  <1> DEFINE p == [handler |-> h, after |-> procs[a].cursor, since |-> clock]
  <1>1. PICK q \in Process :
          /\ Becomes(a, q)
          /\ q.pc = "waiting" /\ q.cursor = procs[a].cursor
          /\ q.batch = procs[a].batch /\ q.request = h
    BY SendPollEffect DEF FlowInv
  <1>2. /\ procs[a].pc = "polling" /\ HandlerFree(h)
        /\ longPolls' = longPolls \cup {p}
        /\ UNCHANGED <<polls, acks, blockedFile, cursorFile, executed>>
    BY DEF SendPoll, vars
  <1>3. p.handler = h /\ p.after = procs[a].cursor /\ p \in LongPoll
    BY ProcessFacts DEF LongPoll, FlowInv, FlowTypeOK, TypeOK
  <1> HIDE DEF p
  <1>4. /\ procs' \in [Agents -> Process]
        /\ procs'[a] = q
        /\ \A b \in Agents : b # a => procs'[b] = procs[b]
    BY <1>1, BecomesOne DEF FlowInv, FlowTypeOK
  <1>5. Fits(q)
    BY <1>1, <1>2, AllFit DEF Fits, ShapedAs
  <1>6. \A b \in Agents : Fits(procs'[b])
    BY <1>4, <1>5, AllFit
  <1>7. FlowTypeOK' /\ WithinCommands' /\ Shaped'
    BY <1>2, <1>3, <1>4, <1>6, FitStays DEF FlowInv, FlowTypeOK, WithinCommands
  <1>8. /\ h # NoHandler
        /\ \A w \in polls \cup acks : w.handler # h
        /\ \A r \in longPolls : r.handler # h
        /\ \A b \in Agents : procs[b].request # h
    BY <1>2, FreeHandler
  <1>9. Connections'
    BY <1>2, <1>3, <1>8 DEF FlowInv, Connections
  <1>10. Requests'
    BY <1>1, <1>2, <1>3, <1>4, <1>8 DEF FlowInv, Requests
  <1> QED BY <1>7, <1>9, <1>10, ServerEffect DEF FlowInv

LEMMA SendAckStep ==
    ASSUME FlowInv, [FlowNext]_flowVars, NEW a \in Agents, NEW h \in DeviceHandlers,
           SendAck(a, h)
    PROVE  FlowInv'
  <1>1. PICK q \in Process :
          /\ Becomes(a, q)
          /\ q.pc = "awaiting" /\ q.cursor = procs[a].cursor
          /\ q.batch = procs[a].batch /\ q.request = h
    BY SendAckEffect DEF FlowInv
  <1>2. /\ procs[a].pc = "answering" /\ HandlerFree(h)
        /\ AckRead(h, Head(procs[a].batch).id, procs[a].result)
        /\ UNCHANGED <<polls, longPolls, blockedFile, cursorFile, executed>>
    BY DEF SendAck, AckRead
  <1> DEFINE c == Head(procs[a].batch).id
             w == [handler |-> h, command |-> c, unprepared |-> Unprepared,
                   write |-> IF Unprepared = {}
                             THEN AckStatus(commands[c], clock, procs[a].result)
                             ELSE procs[a].result]
  <1>3. acks' = acks \cup {w} /\ w.handler = h /\ w.command = Head(procs[a].batch).id
    BY <1>2 DEF AckRead
  <1> HIDE DEF w
  <1>4. /\ procs' \in [Agents -> Process]
        /\ procs'[a] = q
        /\ \A b \in Agents : b # a => procs'[b] = procs[b]
    BY <1>1, BecomesOne DEF FlowInv, FlowTypeOK
  <1>5. Fits(q)
    BY <1>1, <1>2, AllFit DEF Fits, ShapedAs
  <1>6. \A b \in Agents : Fits(procs'[b])
    BY <1>4, <1>5, AllFit
  <1>7. FlowTypeOK' /\ WithinCommands' /\ Shaped'
    BY <1>2, <1>4, <1>6, FitStays DEF FlowInv, FlowTypeOK, WithinCommands
  <1>8. /\ h # NoHandler
        /\ \A v \in polls \cup acks : v.handler # h
        /\ \A r \in longPolls : r.handler # h
        /\ \A b \in Agents : procs[b].request # h
    BY <1>2, FreeHandler
  <1>9. Connections'
    BY <1>2, <1>3, <1>8 DEF FlowInv, Connections
  <1>10. Requests'
    BY <1>1, <1>2, <1>3, <1>4, <1>8 DEF FlowInv, Requests
  <1> QED BY <1>7, <1>9, <1>10, ServerEffect DEF FlowInv

\* A step of the API alone.
LEMMA SameProcesses ==
    ASSUME FlowInv, [FlowNext]_flowVars,
           UNCHANGED <<procs, blockedFile, cursorFile, executed>>,
           longPolls' \subseteq longPolls
    PROVE  FlowTypeOK' /\ WithinCommands' /\ Shaped'
  BY AllFit, FitStays DEF FlowInv, FlowTypeOK, WithinCommands

LEMMA PollRoundStep ==
    ASSUME FlowInv, [FlowNext]_flowVars, NEW p \in longPolls, PollRound(p)
    PROVE  FlowInv'
  <1>1. /\ DeviceIdle(p.handler) /\ polls = {}
        /\ UNCHANGED <<acks, procs, blockedFile, cursorFile, executed, longPolls>>
    BY DEF PollRound, PollRead, agentVars
  <1> DEFINE w == [handler |-> p.handler, device |-> Device, after |-> p.after,
                   at |-> clock, unprepared |-> Unprepared]
  <1>2. polls' = {w} /\ w.handler = p.handler /\ w.after = p.after /\ w.device = Device
    BY <1>1 DEF PollRound, PollRead
  <1> HIDE DEF w
  <1>3. Connections' /\ Requests'
    BY <1>1, <1>2 DEF FlowInv, Connections, Requests
  <1> QED BY <1>1, <1>3, SameProcesses, ServerEffect DEF FlowInv

LEMMA PollAnswerStep ==
    ASSUME FlowInv, [FlowNext]_flowVars, NEW w \in polls, NEW p \in longPolls, PollAnswer(w, p)
    PROVE  FlowInv'
  <1>1. /\ p.handler = w.handler /\ polls' = polls \ {w}
        /\ UNCHANGED <<acks, blockedFile, cursorFile, executed>>
    BY DEF PollAnswer, PollWrite
  <1>2. polls' = {}
    BY <1>1 DEF FlowInv, Connections
  <1>3. CASE UNCHANGED <<procs, longPolls>>
    <2>1. Connections' /\ Requests'
      BY <1>1, <1>2, <1>3 DEF FlowInv, Connections, Requests
    <2> QED BY <1>1, <1>3, <2>1, SameProcesses, ServerEffect DEF FlowInv
  <1>4. CASE longPolls' = longPolls \ {p} /\ UNCHANGED procs
             /\ \A a \in Agents : ~Caller(a, w.handler)
    <2>1. \A b \in Agents : KeepsRequest(b)
      BY <1>1, <1>4 DEF KeepsRequest, Caller
    <2>2. \A b \in Agents :
            \/ procs'[b].request = NoHandler /\ procs'[b].pc \notin {"waiting", "awaiting"}
            \/ procs'[b] = procs[b] /\ KeepsRequest(b)
      BY <1>4, <2>1
    <2>3. Connections' /\ Requests'
      BY <1>1, <1>2, <1>4, <2>2, RequestsFreed
    <2> QED BY <1>1, <1>4, <2>3, SameProcesses, ServerEffect DEF FlowInv
  <1>5. ASSUME NEW a \in Agents, Caller(a, w.handler), longPolls' = longPolls \ {p},
               NEW q, Becomes(a, q), Fits(q), q.pc \notin {"waiting", "awaiting"}
        PROVE  FlowInv'
    <2>1. /\ procs' \in [Agents -> Process]
          /\ procs'[a] = q
          /\ \A b \in Agents : b # a => procs'[b] = procs[b]
      BY <1>5, BecomesOne DEF Fits, FlowInv, FlowTypeOK
    <2>2. \A b \in Agents : Fits(procs'[b])
      BY <1>5, <2>1, AllFit
    <2>3. FlowTypeOK' /\ WithinCommands' /\ Shaped'
      BY <1>1, <1>5, <2>1, <2>2, FitStays DEF FlowInv, FlowTypeOK, WithinCommands
    <2>4. w.handler # NoHandler
      BY FlowConstants DEF FlowInv, ServerInv, TypeOK, Poll
    <2>5. \A b \in Agents : b # a => KeepsRequest(b)
      BY <1>1, <1>5, <2>4 DEF KeepsRequest, Caller, FlowInv, Requests
    <2>6. \A b \in Agents :
            \/ procs'[b].request = NoHandler /\ procs'[b].pc \notin {"waiting", "awaiting"}
            \/ procs'[b] = procs[b] /\ KeepsRequest(b)
      BY <1>5, <2>1, <2>5 DEF Fits, ShapedAs
    <2>7. Connections' /\ Requests'
      BY <1>1, <1>2, <1>5, <2>6, RequestsFreed
    <2> QED BY <2>3, <2>7, ServerEffect DEF FlowInv
  <1>6. ASSUME NEW a \in Agents, Caller(a, w.handler), longPolls' = longPolls \ {p}, Exit(a)
        PROVE  FlowInv'
    <2>1. Becomes(a, Down) /\ Fits(Down) /\ Down.pc = "down"
      BY <1>6, ExitEffect, DownFits, DownFacts DEF FlowInv
    <2> QED BY <1>5, <1>6, <2>1
  <1>7. ASSUME NEW a \in Agents, Caller(a, w.handler), longPolls' = longPolls \ {p},
               NEW items \in ItemsOf(w), procs' = Received(a, items)
        PROVE  FlowInv'
    <2>1. items \in Seq(Item) /\ \A n \in DOMAIN items : items[n].id \in CommandIds
      BY ItemsFacts DEF FlowInv, Batch
    <2>2. PICK q \in Process :
            /\ Becomes(a, q)
            /\ q.pc = (IF items # <<>> THEN "working" ELSE "polling")
            /\ q.cursor = procs[a].cursor /\ q.batch = items /\ q.request = NoHandler
      BY <1>7, <2>1, ReceivedEffect DEF FlowInv
    <2>3. Fits(q)
      BY <2>1, <2>2, AllFit DEF Fits, ShapedAs
    <2> QED BY <1>5, <1>7, <2>2, <2>3
  <1> QED BY <1>3, <1>4, <1>6, <1>7 DEF PollAnswer

\* Requests of several processes break at once.
LEMMA ProcessesBreak ==
    ASSUME FlowInv, [FlowNext]_flowVars, NEW S,
           procs' = [a \in Agents |-> IF a \in S THEN Down ELSE procs[a]],
           UNCHANGED <<blockedFile, cursorFile, executed>>,
           longPolls' \subseteq longPolls, acks' \subseteq acks, polls' \subseteq polls,
           \A w \in polls', p \in longPolls : p.handler = w.handler => p \in longPolls',
           \A b \in Agents : b \notin S => KeepsRequest(b)
    PROVE  FlowInv'
  <1>1. /\ procs' \in [Agents -> Process]
        /\ \A a \in Agents : procs'[a] = Down \/ (a \notin S /\ procs'[a] = procs[a])
    BY DownAllEffect DEF FlowInv
  <1>2. \A b \in Agents : Fits(procs'[b])
    BY <1>1, AllFit, DownFits
  <1>3. FlowTypeOK' /\ WithinCommands' /\ Shaped'
    BY <1>1, <1>2, FitStays DEF FlowInv, FlowTypeOK, WithinCommands
  <1>4. \A b \in Agents :
          \/ procs'[b].request = NoHandler /\ procs'[b].pc \notin {"waiting", "awaiting"}
          \/ procs'[b] = procs[b] /\ KeepsRequest(b)
    BY <1>1, DownFacts
  <1>5. Connections' /\ Requests'
    BY <1>4, RequestsFreed
  <1> QED BY <1>3, <1>5, ServerEffect DEF FlowInv

LEMMA PollFailsStep ==
    ASSUME FlowInv, [FlowNext]_flowVars, NEW w \in polls, NEW p \in longPolls, PollFails(w, p)
    PROVE  FlowInv'
  <1> DEFINE S == {a \in Agents : Caller(a, w.handler)}
  <1>1. /\ p.handler = w.handler /\ polls' = polls \ {w} /\ longPolls' = longPolls \ {p}
        /\ UNCHANGED <<acks, blockedFile, cursorFile, executed>>
        /\ procs' = [a \in Agents |-> IF a \in S THEN Down ELSE procs[a]]
    BY DEF PollFails, PollConflict
  <1>2. polls' = {}
    BY <1>1 DEF FlowInv, Connections
  <1>3. \A b \in Agents : b \notin S => KeepsRequest(b)
    BY <1>1 DEF KeepsRequest, Caller
  <1> HIDE DEF S
  <1> QED BY <1>1, <1>2, <1>3, ProcessesBreak

LEMMA RestartApiStep ==
    ASSUME FlowInv, [FlowNext]_flowVars, RestartApi
    PROVE  FlowInv'
  <1> DEFINE S == {a \in Agents : ~Caller(a, NoHandler)}
  <1>1. /\ polls' = {} /\ acks' = {} /\ longPolls' = {}
        /\ UNCHANGED <<blockedFile, cursorFile, executed>>
        /\ procs' = [a \in Agents |-> IF a \in S THEN Down ELSE procs[a]]
    BY DEF RestartApi
  <1>2. \A b \in Agents : b \notin S => KeepsRequest(b)
    <2> SUFFICES ASSUME NEW b \in Agents, procs[b].request = NoHandler PROVE KeepsRequest(b)
      BY DEF Caller
    <2>1. /\ \A p \in longPolls : p.handler # NoHandler
          /\ \A w \in acks : w.handler # NoHandler
      BY FlowConstants DEF FlowInv, FlowTypeOK, TypeOK, LongPoll, Ack
    <2> QED BY <2>1 DEF KeepsRequest
  <1> HIDE DEF S
  <1> QED BY <1>1, <1>2, ProcessesBreak

LEMMA AckAnswerStep ==
    ASSUME FlowInv, [FlowNext]_flowVars, NEW w \in acks, NEW a \in Agents, AckAnswer(a, w)
    PROVE  /\ FlowInv'
           /\ procs[a].pc = "awaiting" /\ w.command = Head(procs[a].batch).id
           /\ \E accepted \in BOOLEAN : Answered(a, accepted)
  <1>1. /\ Caller(a, w.handler) /\ acks' = acks \ {w}
        /\ UNCHANGED <<polls, longPolls, blockedFile, executed>>
    BY DEF AckAnswer, AckWrite, AckPreparing, AckConflict
  <1>2. w.handler # NoHandler
    BY FlowConstants DEF FlowInv, ServerInv, TypeOK, Ack
  <1>3. procs[a].pc = "awaiting" /\ w.command = Head(procs[a].batch).id
    <2>1. procs[a].pc \in {"waiting", "awaiting"}
      BY <1>1, <1>2 DEF FlowInv, Shaped, Caller
    <2>2. procs[a].pc # "waiting"
      BY <1>1 DEF FlowInv, Requests, Connections, Caller
    <2> QED BY <1>1, <2>1, <2>2 DEF FlowInv, Requests, Connections, Caller
  <1>4. PICK accepted \in BOOLEAN : Answered(a, accepted)
    BY DEF AckAnswer
  <1>5. PICK q \in Process : Becomes(a, q) /\ Fits(q) /\ q.pc \in {"down", "polling", "working"}
    BY <1>3, <1>4, AnsweredEffect
  <1>6. cursorFile' \in 0..Len(commands)
    BY <1>3, <1>4, AnsweredEffect
  <1>7. /\ procs' \in [Agents -> Process]
        /\ procs'[a] = q
        /\ \A b \in Agents : b # a => procs'[b] = procs[b]
    BY <1>5, BecomesOne DEF FlowInv, FlowTypeOK
  <1>8. \A b \in Agents : Fits(procs'[b])
    BY <1>5, <1>7, AllFit
  <1>9. FlowTypeOK' /\ WithinCommands' /\ Shaped'
    BY <1>1, <1>6, <1>7, <1>8, FitStays DEF FlowInv, FlowTypeOK, WithinCommands
  <1>10. \A b \in Agents : b # a => KeepsRequest(b)
    BY <1>1, <1>2 DEF KeepsRequest, Caller, FlowInv, Requests
  <1>11. \A b \in Agents :
           \/ procs'[b].request = NoHandler /\ procs'[b].pc \notin {"waiting", "awaiting"}
           \/ procs'[b] = procs[b] /\ KeepsRequest(b)
    BY <1>5, <1>7, <1>10 DEF Fits, ShapedAs
  <1>12. Connections' /\ Requests'
    BY <1>1, <1>11, RequestsFreed
  <1> QED BY <1>3, <1>4, <1>9, <1>12, ServerEffect DEF FlowInv

LEMMA AckUnheardStep ==
    ASSUME FlowInv, [FlowNext]_flowVars, NEW w \in acks, AckUnheard(w)
    PROVE  FlowInv'
  <1>1. /\ \A a \in Agents : ~Caller(a, w.handler)
        /\ acks' = acks \ {w}
        /\ UNCHANGED <<polls, procs, longPolls, blockedFile, cursorFile, executed>>
    BY DEF AckUnheard, AckWrite, AckPreparing, AckConflict, agentVars
  <1>2. \A b \in Agents : KeepsRequest(b)
    BY <1>1 DEF KeepsRequest, Caller
  <1>3. \A b \in Agents :
          \/ procs'[b].request = NoHandler /\ procs'[b].pc \notin {"waiting", "awaiting"}
          \/ procs'[b] = procs[b] /\ KeepsRequest(b)
    BY <1>1, <1>2
  <1>4. Connections' /\ Requests'
    BY <1>1, <1>3, RequestsFreed
  <1> QED BY <1>1, <1>4, SameProcesses, ServerEffect DEF FlowInv

\* Steps that leave the agents and every device request alone.
LEMMA ParentStep ==
    ASSUME FlowInv, [FlowNext]_flowVars, UNCHANGED <<polls, acks, agentVars>>
    PROVE  FlowInv'
  <1>1. UNCHANGED <<polls, acks, procs, longPolls, blockedFile, cursorFile, executed>>
    BY DEF agentVars
  <1>2. Connections' /\ Requests'
    BY <1>1 DEF FlowInv, Connections, Requests
  <1> QED BY <1>1, <1>2, SameProcesses, ServerEffect DEF FlowInv

LEMMA FlowInvInit == FlowInit => FlowInv
  <1> SUFFICES ASSUME FlowInit PROVE FlowInv
    OBVIOUS
  <1>1. ServerInv
    BY ServerInvInit DEF FlowInit
  <1>2. commands = <<>> /\ Len(commands) = 0 /\ CommandIds = {} /\ 0 \in 0..Len(commands)
    BY EmptySeq DEF FlowInit, Init, CommandIds
  <1>3. \A a \in Agents : procs[a] = Down
    BY DEF FlowInit
  <1>4. DOMAIN Down.batch = {}
    BY DownFacts, EmptySeq
  <1>5. FlowTypeOK
    BY <1>1, DownFacts, ServerConstants DEF FlowInit, FlowTypeOK, ServerInv
  <1>6. WithinCommands /\ Shaped
    BY <1>2, <1>3, <1>4, DownFacts DEF FlowInit, WithinCommands, Shaped
  <1>7. Connections /\ Requests
    BY <1>3, DownFacts DEF FlowInit, Init, Connections, Requests
  <1> QED BY <1>1, <1>5, <1>6, <1>7 DEF FlowInv

LEMMA FlowInvStep == FlowInv /\ [FlowNext]_flowVars => FlowInv'
  <1> SUFFICES ASSUME FlowInv, [FlowNext]_flowVars PROVE FlowInv'
    OBVIOUS
  <1>1. CASE (ParentRequest \/ ParentCommit \/ Tick) /\ UNCHANGED agentVars
    <2>1. UNCHANGED <<polls, acks>>
      BY <1>1 DEF ParentRequest, DecisionRead, ParentCommit, RequestUnlockWrite,
                  KeepBlockedWrite, UnlockWrite, Tick
    <2> QED BY <1>1, <2>1, ParentStep
  <1>2. ASSUME NEW a \in Agents,
               \/ StartPoll(a) \/ (\E k \in Keys : StartLiveDemo(a, k))
               \/ (\E p \in longPolls : PollTimeout(a, p)) \/ Crash(a)
        PROVE  FlowInv'
    <2>1. CASE (\E p \in longPolls : PollTimeout(a, p)) \/ Crash(a)
      BY <2>1, ExitStep DEF PollTimeout, Crash, vars
    <2> QED BY <1>2, <2>1, StartPollStep, StartLiveDemoStep
  <1>3. ASSUME NEW a \in Agents, AgentStep(a) PROVE FlowInv'
    BY <1>3, FinishSaveStep, ReportStep, BlockStep, SendPollStep, SendAckStep, HandleStep,
       AckUnwrittenStep DEF AgentStep
  <1>4. CASE ApiStep
    BY <1>4, PollRoundStep, PollAnswerStep, PollFailsStep, AckUnheardStep, AckAnswerStep
       DEF ApiStep
  <1>5. CASE RestartApi
    BY <1>5, RestartApiStep
  <1>6. CASE UNCHANGED flowVars
    BY <1>6, ParentStep DEF flowVars, vars
  <1> QED BY <1>1, <1>2, <1>3, <1>4, <1>5, <1>6 DEF FlowNext

LEMMA FlowInvariant == FlowSpec => []FlowInv
  BY FlowInvInit, FlowInvStep, PTL DEF FlowSpec

\* Every reachable state is well typed, whatever crashes, is lost or restarts:
\* no process handles a command that does not exist or answers nothing.
THEOREM FlowTypeCorrect == FlowSpec => []FlowTypeOK
  BY FlowInvariant, PTL DEF FlowInv

\* The agents, the long polls and the faults only ever make the control plane
\* take its own steps: everything proved about Spec holds of the flow.
THEOREM FlowImplementsServer == FlowSpec => Spec
  <1>1. FlowInit => Init
    BY DEF FlowInit
  <1>2. FlowInv /\ [FlowNext]_flowVars => [Next]_vars
    BY FlowServerStep DEF OwnNext, Next
  <1> QED BY <1>1, <1>2, FlowInvariant, PTL DEF FlowSpec, Spec

\* When parent requests do not overlap, what a parent is promised about an
\* incident is kept with the agents and their faults there too.
THEOREM FlowKeepsPromise ==
    ASSUME OneParent
    PROVE  FlowSpec => PromiseKept
  BY FlowImplementsServer, ServerKeepsPromise, PTL

-----------------------------------------------------------------------------
(* What a step of the flow does to the agents *)

\* What a step may do to process b.
Moves(b) ==
    /\ procs'[b].cursor \in {0, procs[b].cursor, cursorFile, cursorFile'}
    /\ \/ \A n \in DOMAIN procs'[b].batch : \E m \in DOMAIN procs[b].batch :
             procs'[b].batch[n] = procs[b].batch[m]
       \/ \E w \in polls : /\ PollWrite(w) /\ procs[b].request = w.handler
                           /\ \A n \in DOMAIN procs'[b].batch : procs'[b].batch[n].id \in Batch(w)
    /\ \/ procs'[b].request \in {procs[b].request, NoHandler}
       \/ \A w \in polls : w.handler # procs'[b].request
    /\ (procs'[b].pc \in {"answering", "awaiting"} /\ procs'[b].result = "ACKNOWLEDGED") =>
          \/ /\ procs[b].pc \in {"answering", "awaiting"}
             /\ procs[b].result = "ACKNOWLEDGED" /\ procs'[b].batch = procs[b].batch
          \/ Head(procs'[b].batch).id \in executed'
    /\ \A app \in procs'[b].mem :
          \/ app \in procs[b].mem \cup blockedFile.apps
          \/ procs[b].pc = "blocking" /\ app = AppOf[procs[b].key]
    /\ procs'[b].pc = "blocking" =>
          \/ procs'[b] = procs[b]
          \/ procs'[b].key = procs[b].key /\ \E i \in Incidents : Report(b, i)
    /\ (procs[b].pc = "working" /\ procs'[b].pc = "saving") =>
          Executable(Head(procs[b].batch))
    /\ (procs'[b].pc = "saving" /\ procs'[b].batch # <<>>) =>
          \/ procs'[b] = procs[b]
          \/ /\ procs'[b].batch = procs[b].batch
             /\ AppOfCommand(Head(procs[b].batch).id) \notin procs'[b].mem

\* What a step may do to the files.
FilesMove ==
    /\ \/ cursorFile' = cursorFile
       \/ \E b \in Agents : /\ procs[b].batch # <<>>
                            /\ cursorFile' \in {procs[b].cursor, Head(procs[b].batch).id}
    /\ \/ executed' = executed /\ blockedFile'.apps \subseteq blockedFile.apps
       \/ \E b \in Agents : FinishSave(b)

LEMMA StayingMoves ==
    ASSUME NEW b \in Agents, procs'[b] = procs[b]
    PROVE  Moves(b)
  BY DEF Moves

LEMMA DownMoves ==
    ASSUME NEW b \in Agents, procs'[b] = Down
    PROVE  Moves(b)
  <1>1. DOMAIN Down.batch = {}
    BY DownFacts, EmptySeq
  <1> QED BY <1>1, DownFacts DEF Moves

LEMMA OthersMove ==
    ASSUME FlowInv, NEW a \in Agents, NEW q \in Process, Becomes(a, q), Moves(a)
    PROVE  \A b \in Agents : Moves(b)
  BY BecomesOne, StayingMoves DEF FlowInv, FlowTypeOK

LEMMA ExitMoves ==
    ASSUME FlowInv, NEW a \in Agents, Exit(a)
    PROVE  \A b \in Agents : Moves(b)
  <1>1. Becomes(a, Down) /\ procs'[a] = Down
    BY ExitEffect, DownFacts, BecomesOne DEF FlowInv, FlowTypeOK
  <1> QED BY <1>1, DownFacts, DownMoves, OthersMove

LEMMA StartMoves ==
    ASSUME FlowInv, NEW a \in Agents, StartPoll(a) \/ \E k \in Keys : StartLiveDemo(a, k)
    PROVE  (\A b \in Agents : Moves(b)) /\ FilesMove
  <1>1. PICK q \in Process :
          /\ Becomes(a, q)
          /\ q.pc \in {"polling", "reporting"} /\ q.mem = LoadedApps
          /\ q.cursor \in {cursorFile, procs[a].cursor}
          /\ q.batch = procs[a].batch /\ q.request = procs[a].request
    BY StartPollEffect, StartLiveDemoEffect DEF FlowInv
  <1>2. procs'[a] = q
    BY <1>1, BecomesOne DEF FlowInv, FlowTypeOK
  <1>3. q.mem \subseteq blockedFile.apps
    BY <1>1 DEF LoadedApps
  <1>4. Moves(a)
    BY <1>1, <1>2, <1>3 DEF Moves
  <1>5. FilesMove
    BY DEF StartPoll, StartLiveDemo, FilesMove
  <1> QED BY <1>1, <1>4, <1>5, OthersMove

LEMMA ReportMoves ==
    ASSUME FlowInv, NEW a \in Agents, NEW i \in Incidents, Report(a, i)
    PROVE  (\A b \in Agents : Moves(b)) /\ FilesMove
  <1>1. CASE procs' = [procs EXCEPT ![a].pc = "blocking"]
    <2>1. PICK q \in Process :
            /\ Becomes(a, q)
            /\ q.pc = "blocking" /\ q.mem = procs[a].mem /\ q.cursor = procs[a].cursor
            /\ q.key = procs[a].key
            /\ q.batch = procs[a].batch /\ q.request = procs[a].request
      BY <1>1, ReportedEffect DEF FlowInv
    <2>2. procs'[a] = q
      BY <2>1, BecomesOne DEF FlowInv, FlowTypeOK
    <2>3. \E j \in Incidents : Report(a, j)
      OBVIOUS
    <2>4. Moves(a)
      BY <2>1, <2>2, <2>3 DEF Moves
    <2> QED BY <2>1, <2>4, OthersMove DEF Report, FilesMove
  <1>2. CASE Exit(a)
    BY <1>2, ExitMoves DEF Report, FilesMove
  <1> QED BY <1>1, <1>2 DEF Report

LEMMA BlockMoves ==
    ASSUME FlowInv, NEW a \in Agents, Block(a)
    PROVE  (\A b \in Agents : Moves(b)) /\ FilesMove
  <1> DEFINE apps == procs[a].mem \cup {AppOf[procs[a].key]}
  <1>1. procs[a].pc = "blocking" /\ Save(a, apps) /\ UNCHANGED <<cursorFile, executed>>
    BY DEF Block
  <1>2. apps \in SUBSET Apps
    BY <1>1, ProcessFacts, FlowConstants DEF FlowInv, Shaped
  <1>3. PICK q \in Process :
          /\ Becomes(a, q)
          /\ q.pc = "saving" /\ q.mem = apps /\ q.cursor = procs[a].cursor
          /\ q.batch = procs[a].batch /\ q.request = procs[a].request
    <2> HIDE DEF apps
    <2> QED BY <1>1, <1>2, SaveEffect DEF FlowInv
  <1>4. procs'[a] = q /\ q.batch = <<>>
    BY <1>1, <1>3, BecomesOne DEF FlowInv, FlowTypeOK, Shaped
  <1>5. Moves(a)
    BY <1>1, <1>3, <1>4 DEF Moves
  <1>6. blockedFile'.apps = {}
    BY <1>1 DEF Save
  <1> QED BY <1>1, <1>3, <1>5, <1>6, OthersMove DEF FilesMove

LEMMA FinishSaveMoves ==
    ASSUME FlowInv, NEW a \in Agents, FinishSave(a)
    PROVE  (\A b \in Agents : Moves(b)) /\ FilesMove
  <1>1. cursorFile' = cursorFile /\ FilesMove
    BY DEF FinishSave, FilesMove
  <1>2. CASE procs[a].batch = <<>>
    <2>1. PICK q \in Process :
            /\ Becomes(a, q)
            /\ q.pc = "polling" /\ q.mem = procs[a].mem /\ q.cursor = cursorFile
            /\ q.batch = procs[a].batch /\ q.request = procs[a].request
      BY <1>2, BlockSavedEffect DEF FlowInv
    <2>2. procs'[a] = q
      BY <2>1, BecomesOne DEF FlowInv, FlowTypeOK
    <2>3. Moves(a)
      BY <2>1, <2>2 DEF Moves
    <2> QED BY <1>1, <2>1, <2>3, OthersMove
  <1>3. CASE procs[a].batch # <<>>
    <2>1. PICK q \in Process :
            /\ Becomes(a, q)
            /\ q.pc = "answering" /\ q.mem = procs[a].mem /\ q.cursor = procs[a].cursor
            /\ q.batch = procs[a].batch /\ q.request = procs[a].request
      BY <1>3, UnblockSavedEffect DEF FlowInv
    <2>2. procs'[a] = q
      BY <2>1, BecomesOne DEF FlowInv, FlowTypeOK
    <2>3. Head(q.batch).id \in executed'
      BY <1>3, <2>1 DEF FinishSave
    <2>4. Moves(a)
      BY <2>1, <2>2, <2>3 DEF Moves
    <2> QED BY <1>1, <2>1, <2>4, OthersMove
  <1> QED BY <1>2, <1>3

LEMMA HandleMoves ==
    ASSUME FlowInv, NEW a \in Agents, Handle(a)
    PROVE  (\A b \in Agents : Moves(b)) /\ FilesMove
  <1> DEFINE item == Head(procs[a].batch)
             apps == procs[a].mem \ {AppOfCommand(item.id)}
  <1>1. UNCHANGED <<cursorFile, executed>>
    BY DEF Handle
  <1>2. CASE Executable(item)
    <2>1. Save(a, apps)
      BY <1>2 DEF Handle
    <2>2. apps \in SUBSET Apps
      BY ProcessFacts DEF FlowInv
    <2>3. PICK q \in Process :
            /\ Becomes(a, q)
            /\ q.pc = "saving" /\ q.mem = apps /\ q.cursor = procs[a].cursor
            /\ q.batch = procs[a].batch /\ q.request = procs[a].request
      <3> HIDE DEF apps
      <3> QED BY <2>1, <2>2, SaveEffect DEF FlowInv
    <2>4. procs'[a] = q
      BY <2>3, BecomesOne DEF FlowInv, FlowTypeOK
    <2>5. Moves(a)
      BY <1>2, <2>3, <2>4 DEF Moves
    <2>6. blockedFile'.apps = {}
      BY <2>1 DEF Save
    <2> QED BY <1>1, <2>3, <2>5, <2>6, OthersMove DEF FilesMove
  <1>3. CASE ~Executable(item)
    <2>1. PICK q \in Process :
            /\ Becomes(a, q)
            /\ q.pc = "answering" /\ q.mem = procs[a].mem /\ q.cursor = procs[a].cursor
            /\ q.batch = procs[a].batch /\ q.result = "FAILED"
            /\ q.request = procs[a].request
      BY <1>3, NotExecutedEffect DEF Handle, FlowInv
    <2>2. procs'[a] = q
      BY <2>1, BecomesOne DEF FlowInv, FlowTypeOK
    <2>3. Moves(a)
      BY <2>1, <2>2 DEF Moves
    <2>4. blockedFile' = blockedFile
      BY <1>3 DEF Handle
    <2> QED BY <1>1, <2>1, <2>3, <2>4, OthersMove DEF FilesMove
  <1> QED BY <1>2, <1>3

LEMMA SendMoves ==
    ASSUME FlowInv, NEW a \in Agents, NEW h \in DeviceHandlers, SendPoll(a, h) \/ SendAck(a, h)
    PROVE  (\A b \in Agents : Moves(b)) /\ FilesMove
  <1>1. /\ \A w \in polls : w.handler # h
        /\ UNCHANGED <<blockedFile, cursorFile, executed>>
    BY DEF SendPoll, SendAck, HandlerFree, DeviceIdle
  <1>2. CASE SendPoll(a, h)
    <2>1. PICK q \in Process :
            /\ Becomes(a, q)
            /\ q.pc = "waiting" /\ q.mem = procs[a].mem /\ q.cursor = procs[a].cursor
            /\ q.batch = procs[a].batch /\ q.request = h
      BY <1>2, SendPollEffect DEF FlowInv
    <2>2. procs'[a] = q
      BY <2>1, BecomesOne DEF FlowInv, FlowTypeOK
    <2>3. Moves(a)
      BY <1>1, <2>1, <2>2 DEF Moves
    <2> QED BY <1>1, <2>1, <2>3, OthersMove DEF FilesMove
  <1>3. CASE SendAck(a, h)
    <2>1. PICK q \in Process :
            /\ Becomes(a, q)
            /\ q.pc = "awaiting" /\ q.mem = procs[a].mem /\ q.cursor = procs[a].cursor
            /\ q.batch = procs[a].batch /\ q.result = procs[a].result /\ q.request = h
      BY <1>3, SendAckEffect DEF FlowInv
    <2>2. procs'[a] = q /\ procs[a].pc = "answering"
      BY <1>3, <2>1, BecomesOne DEF FlowInv, FlowTypeOK, SendAck
    <2>3. Moves(a)
      BY <1>1, <2>1, <2>2 DEF Moves
    <2> QED BY <1>1, <2>1, <2>3, OthersMove DEF FilesMove
  <1> QED BY <1>2, <1>3

LEMMA AnsweredMoves ==
    ASSUME FlowInv, NEW a \in Agents, procs[a].pc \in {"answering", "awaiting"},
           NEW accepted \in BOOLEAN, Answered(a, accepted),
           UNCHANGED <<blockedFile, executed>>
    PROVE  (\A b \in Agents : Moves(b)) /\ FilesMove
  <1>1. /\ procs[a].batch # <<>>
        /\ cursorFile' \in {cursorFile, procs[a].cursor, Head(procs[a].batch).id}
    BY AnsweredEffect DEF FlowInv, Shaped
  <1>2. PICK q \in Process :
          /\ Becomes(a, q)
          /\ q.pc \in {"down", "polling", "working"}
          /\ q.request = NoHandler
          /\ q.mem \subseteq procs[a].mem
          /\ q.cursor \in {0, cursorFile'}
          /\ \A n \in DOMAIN q.batch : \E m \in DOMAIN procs[a].batch :
                q.batch[n] = procs[a].batch[m]
    BY AnsweredEffect
  <1>3. procs'[a] = q
    BY <1>2, BecomesOne DEF FlowInv, FlowTypeOK
  <1>4. Moves(a)
    BY <1>2, <1>3 DEF Moves
  <1>5. FilesMove
    BY <1>1 DEF FilesMove
  <1> QED BY <1>2, <1>4, <1>5, OthersMove

LEMMA PollAnswerMoves ==
    ASSUME FlowInv, NEW w \in polls, NEW p \in longPolls, PollAnswer(w, p)
    PROVE  (\A b \in Agents : Moves(b)) /\ FilesMove
  <1>1. UNCHANGED <<blockedFile, cursorFile, executed>> /\ FilesMove
    BY DEF PollAnswer, FilesMove
  <1>2. CASE UNCHANGED procs
    BY <1>1, <1>2, StayingMoves
  <1>3. CASE \E a \in Agents : Exit(a)
    BY <1>1, <1>3, ExitMoves
  <1>4. ASSUME NEW a \in Agents, Caller(a, w.handler), NEW items \in ItemsOf(w),
               procs' = Received(a, items)
        PROVE  \A b \in Agents : Moves(b)
    <2>1. items \in Seq(Item) /\ \A n \in DOMAIN items : items[n].id \in Batch(w)
      BY ItemsFacts DEF FlowInv
    <2>2. PICK q \in Process :
            /\ Becomes(a, q)
            /\ q.pc = (IF items # <<>> THEN "working" ELSE "polling")
            /\ q.mem = procs[a].mem
            /\ q.cursor = procs[a].cursor /\ q.batch = items /\ q.request = NoHandler
      BY <1>4, <2>1, ReceivedEffect DEF FlowInv
    <2>3. procs'[a] = q
      BY <2>2, BecomesOne DEF FlowInv, FlowTypeOK
    <2>4. PollWrite(w) /\ procs[a].request = w.handler
      BY <1>4 DEF PollAnswer, Caller
    <2>5. \E v \in polls : /\ PollWrite(v) /\ procs[a].request = v.handler
                           /\ \A n \in DOMAIN procs'[a].batch : procs'[a].batch[n].id \in Batch(v)
      BY <2>1, <2>2, <2>3, <2>4
    <2>6. Moves(a)
      BY <2>2, <2>3, <2>5 DEF Moves
    <2> QED BY <2>2, <2>6, OthersMove
  <1> QED BY <1>1, <1>2, <1>3, <1>4 DEF PollAnswer

LEMMA AgentsMove ==
    ASSUME FlowInv, [FlowNext]_flowVars
    PROVE  (\A b \in Agents : Moves(b)) /\ FilesMove
  <1>1. CASE UNCHANGED agentVars
    BY <1>1, StayingMoves DEF agentVars, FilesMove
  <1>2. ASSUME NEW a \in Agents, (\E p \in longPolls : PollTimeout(a, p)) \/ Crash(a)
        PROVE  (\A b \in Agents : Moves(b)) /\ FilesMove
    <2>1. Exit(a) /\ UNCHANGED <<blockedFile, cursorFile, executed>>
      BY <1>2 DEF PollTimeout, Crash
    <2> QED BY <2>1, ExitMoves DEF FilesMove
  <1>3. ASSUME NEW a \in Agents, AgentStep(a)
        PROVE  (\A b \in Agents : Moves(b)) /\ FilesMove
    <2>1. CASE AckUnwritten(a)
      <3>1. PICK accepted \in BOOLEAN : Answered(a, accepted)
        BY <2>1 DEF AckUnwritten
      <3> QED BY <2>1, <3>1, AnsweredMoves DEF AckUnwritten
    <2> QED BY <1>3, <2>1, FinishSaveMoves, ReportMoves, BlockMoves, SendMoves, HandleMoves
            DEF AgentStep
  <1>4. ASSUME NEW w \in acks, NEW a \in Agents, AckAnswer(a, w)
        PROVE  (\A b \in Agents : Moves(b)) /\ FilesMove
    <2>1. procs[a].pc = "awaiting" /\ \E accepted \in BOOLEAN : Answered(a, accepted)
      <3>1. [FlowNext]_flowVars
        BY <1>4 DEF FlowNext, ApiStep
      <3> QED BY <1>4, <3>1, AckAnswerStep
    <2>2. UNCHANGED <<blockedFile, executed>>
      BY <1>4 DEF AckAnswer
    <2> QED BY <2>1, <2>2, AnsweredMoves
  <1>5. ASSUME NEW w \in polls, NEW p \in longPolls, PollFails(w, p)
        PROVE  (\A b \in Agents : Moves(b)) /\ FilesMove
    <2>1. \A b \in Agents : procs'[b] = Down \/ procs'[b] = procs[b]
      BY <1>5 DEF PollFails
    <2> QED BY <1>5, <2>1, StayingMoves, DownMoves DEF PollFails, FilesMove
  <1>6. CASE RestartApi
    <2>1. \A b \in Agents : procs'[b] = Down \/ procs'[b] = procs[b]
      BY <1>6 DEF RestartApi
    <2> QED BY <1>6, <2>1, StayingMoves, DownMoves DEF RestartApi, FilesMove
  <1>7. CASE ApiStep
    BY <1>1, <1>4, <1>5, <1>7, PollAnswerMoves DEF ApiStep, PollRound, AckUnheard
  <1> QED BY <1>1, <1>2, <1>3, <1>6, <1>7, StartMoves DEF FlowNext, flowVars

-----------------------------------------------------------------------------
(* An acknowledged command was executed *)

LEMMA FilesFacts ==
    ASSUME FlowInv, FilesMove
    PROVE  executed \subseteq executed'
  BY DEF FilesMove, FinishSave

\* The acknowledgements in flight come from processes that know the outcome.
LEMMA AcksMove ==
    ASSUME FlowInv, [FlowNext]_flowVars, NEW w \in acks', w \notin acks
    PROVE  \E a \in Agents, h \in DeviceHandlers :
              /\ SendAck(a, h)
              /\ w.command = Head(procs[a].batch).id
              /\ w.unprepared = Unprepared
              /\ w.write \in {"EXPIRED", procs[a].result}
  <1>1. \E a \in Agents, h \in DeviceHandlers : SendAck(a, h)
    <2>1. CASE UNCHANGED acks
      BY <2>1
    <2>2. CASE acks' \subseteq acks
      BY <2>2
    <2>3. CASE (ParentRequest \/ ParentCommit \/ Tick) /\ UNCHANGED agentVars
      BY <2>1, <2>3 DEF ParentRequest, DecisionRead, ParentCommit, RequestUnlockWrite,
                        KeepBlockedWrite, UnlockWrite, Tick
    <2>4. ASSUME NEW a \in Agents,
                 \/ StartPoll(a) \/ (\E k \in Keys : StartLiveDemo(a, k)) \/ AgentStep(a)
                 \/ (\E p \in longPolls : PollTimeout(a, p)) \/ Crash(a)
          PROVE  \E b \in Agents, h \in DeviceHandlers : SendAck(b, h)
      BY <2>1, <2>4 DEF StartPoll, StartLiveDemo, AgentStep, FinishSave, Report, CreateIncident,
                        Block, SendPoll, Handle, AckUnwritten, PollTimeout, Crash, vars
    <2>5. CASE ApiStep
      BY <2>1, <2>2, <2>5 DEF ApiStep, PollRound, PollRead, PollAnswer, PollWrite, PollFails,
                              PollConflict, AckUnheard, AckAnswer, AckWrite, AckPreparing,
                              AckConflict
    <2>6. CASE RestartApi
      BY <2>2, <2>6 DEF RestartApi
    <2>7. CASE UNCHANGED flowVars
      BY <2>1, <2>7 DEF flowVars, vars
    <2> QED BY <2>3, <2>4, <2>5, <2>6, <2>7 DEF FlowNext
  <1>2. PICK a \in Agents, h \in DeviceHandlers : SendAck(a, h)
    BY <1>1
  <1> DEFINE c == Head(procs[a].batch).id
             r == procs[a].result
             s == AckStatus(commands[c], clock, r)
             v == [handler |-> h, command |-> c, unprepared |-> Unprepared,
                   write |-> IF Unprepared = {} THEN s ELSE r]
  <1>3. acks' = acks \cup {v}
    BY <1>2 DEF SendAck, AckRead
  <1>4. s \in {"EXPIRED", r}
    BY DEF AckStatus
  <1>5. w = v
    BY <1>3
  <1> HIDE DEF s, r, c
  <1>6. w.command = c /\ w.unprepared = Unprepared /\ w.write \in {"EXPIRED", r}
    BY <1>4, <1>5
  <1> QED BY <1>2, <1>6 DEF c, r

LEMMA ExecutedStep ==
    ASSUME FlowInv, Executed, [FlowNext]_flowVars
    PROVE  Executed'
  <1>1. StatusMoves /\ CommandIds \subseteq CommandIds'
    BY ServerEffect
  <1>2. (\A b \in Agents : Moves(b)) /\ executed \subseteq executed'
    BY AgentsMove, FilesFacts
  <1>3. ASSUME NEW c \in CommandIds', commands'[c].status = "ACKNOWLEDGED"
        PROVE  c \in executed'
    BY <1>1, <1>2, <1>3 DEF StatusMoves, Executed
  <1>4. ASSUME NEW w \in acks', w.write = "ACKNOWLEDGED"
        PROVE  w.command \in executed'
    <2>1. CASE w \in acks
      BY <1>2, <1>4, <2>1 DEF Executed
    <2>2. CASE w \notin acks
      <3>1. PICK a \in Agents, h \in DeviceHandlers :
              /\ SendAck(a, h)
              /\ w.command = Head(procs[a].batch).id
              /\ w.write \in {"EXPIRED", procs[a].result}
        BY <2>2, AcksMove
      <3>2. procs[a].pc = "answering" /\ procs[a].result = "ACKNOWLEDGED"
        BY <1>4, <3>1 DEF SendAck
      <3> QED BY <1>2, <3>1, <3>2 DEF Executed
    <2> QED BY <2>1, <2>2
  <1>5. ASSUME NEW b \in Agents, procs'[b].pc \in {"answering", "awaiting"},
               procs'[b].result = "ACKNOWLEDGED"
        PROVE  Head(procs'[b].batch).id \in executed'
    <2>1. Moves(b)
      BY <1>2
    <2>2. \/ /\ procs[b].pc \in {"answering", "awaiting"}
             /\ procs[b].result = "ACKNOWLEDGED" /\ procs'[b].batch = procs[b].batch
          \/ Head(procs'[b].batch).id \in executed'
      BY <1>5, <2>1 DEF Moves
    <2> QED BY <1>2, <2>2 DEF Executed
  <1> QED BY <1>3, <1>4, <1>5 DEF Executed

\* A command is ACKNOWLEDGED only after its unblock reached the file, with any
\* number of processes, crashes, lost answers, late polls and API restarts.
THEOREM AcknowledgedWasExecuted == FlowSpec => []AcknowledgedMeansExecuted
  <1>1. FlowInit => Executed
    <2> SUFFICES ASSUME FlowInit PROVE Executed
      OBVIOUS
    <2>1. CommandIds = {} /\ acks = {}
      BY EmptySeq DEF FlowInit, Init, CommandIds
    <2>2. \A a \in Agents : procs[a].pc = "down"
      BY DownFacts DEF FlowInit
    <2> QED BY <2>1, <2>2 DEF Executed
  <1>2. Executed => AcknowledgedMeansExecuted
    BY DEF Executed, AcknowledgedMeansExecuted
  <1> QED BY <1>1, <1>2, FlowInvariant, ExecutedStep, PTL DEF FlowSpec

-----------------------------------------------------------------------------
(* Only what a parent unlocked is lifted *)

\* When parent requests do not overlap, a process releases an application only
\* for a command whose incident is UNLOCKED and whose expiry has not passed,
\* however late the command was delivered.
THEOREM LiftsAreLive ==
    ASSUME OneParent
    PROVE  FlowSpec => LiftedByLiveDecision
  <1> DEFINE Live == \A a \in Agents : \A c \in Lifts(a) :
                        /\ incidents[commands[c].incident].status = "UNLOCKED"
                        /\ clock < Expiry(commands[c])
  <1>1. FlowInv /\ CommandMeansUnlocked /\ [FlowNext]_flowVars => [Live]_flowVars
    <2> SUFFICES ASSUME FlowInv, CommandMeansUnlocked, [FlowNext]_flowVars,
                        NEW a \in Agents, NEW c \in Lifts(a)
                 PROVE  /\ incidents[commands[c].incident].status = "UNLOCKED"
                        /\ clock < Expiry(commands[c])
      OBVIOUS
    <2>1. procs[a].pc = "working" /\ procs'[a].pc = "saving" /\ c = Head(procs[a].batch).id
      BY DEF Lifts
    <2>2. c \in CommandIds
      BY <2>1, BatchFacts DEF FlowInv, Shaped
    <2>3. Executable(Head(procs[a].batch))
      BY <2>1, AgentsMove DEF Moves
    <2> QED BY <2>1, <2>2, <2>3 DEF CommandMeansUnlocked, Executable
  <1> QED BY <1>1, FlowInvariant, FlowImplementsServer, OrdersFollowDecisions, PTL
          DEF FlowSpec, LiftedByLiveDecision

-----------------------------------------------------------------------------
(* One agent process: the cursor hides nothing *)

\* The dates and devices of rows through a step: a pending row was pending and
\* keeps its schedule unless it is prepared, and a new row is a parent's order.
NextMoves ==
    /\ clock <= clock'
    /\ \A c \in CommandIds : commands'[c].status = "PENDING" =>
          /\ commands[c].status = "PENDING"
          /\ \/ commands'[c].next = commands[c].next
             \/ /\ commands'[c].next = commands[c].created
                /\ \/ \E v \in acks : c \in v.unprepared
                   \/ \E w \in polls : polls' = polls \ {w}
    /\ \A c \in CommandIds' : c \notin CommandIds =>
          \E w \in decisions : /\ commands'[c].incident = w.incident
                               /\ commands'[c].created = w.created
                               /\ commands'[c].next = 0

LEMMA SameRowsMove ==
    ASSUME UNCHANGED commands, clock <= clock'
    PROVE  NextMoves
  BY DEF NextMoves, CommandIds

LEMMA PreparedNext ==
    ASSUME ServerInv, NEW S, NEW c \in CommandIds
    PROVE  /\ Prepared(S)[c].status = commands[c].status
           /\ c \in S => Prepared(S)[c].next = commands[c].created
           /\ c \notin S => Prepared(S)[c].next = commands[c].next
  <1>1. commands[c] \in Command
    BY CommandFacts DEF ServerInv
  <1> QED BY <1>1 DEF Prepared, Command

\* A row the sweep leaves pending is the row as prepared.
LEMMA SweptPending ==
    ASSUME ServerInv, NEW w \in polls, NEW c \in CommandIds,
           SweptRow(w, c).status = "PENDING"
    PROVE  SweptRow(w, c) = Prepared(w.unprepared)[c]
  <1>1. Prepared(w.unprepared)[c] \in Command
    BY PreparedRows DEF ServerInv, TypeOK
  <1> DEFINE row == Prepared(w.unprepared)[c]
  <1>2. Swept(row, w.at).status = "PENDING" => Swept(row, w.at) = row
    <2> HIDE DEF row
    <2>1. row \in Command
      BY <1>1 DEF row
    <2> QED BY <2>1 DEF Swept, Command
  <1> QED BY <1>2 DEF SweptRow

LEMMA PollRows ==
    ASSUME ServerInv, NEW w \in polls, PollWrite(w), NEW c \in CommandIds,
           commands'[c].status = "PENDING"
    PROVE  /\ c \notin Batch(w)
           /\ commands'[c] = Prepared(w.unprepared)[c]
           /\ SweptRow(w, c) = Prepared(w.unprepared)[c]
           /\ commands[c].status = "PENDING"
  <1>1. commands'[c] = IF c \in Batch(w) THEN Delivered(SweptRow(w, c), w.at)
                                         ELSE SweptRow(w, c)
    BY DEF PollWrite
  <1>2. Delivered(SweptRow(w, c), w.at).status = "DELIVERED"
    <2>1. SweptRow(w, c) \in Command
      BY SweptRowFacts
    <2> QED BY <2>1 DEF Delivered, Command
  <1>3. c \notin Batch(w) /\ commands'[c] = SweptRow(w, c)
    BY <1>1, <1>2
  <1> QED BY <1>3, SweptPending, PreparedNext

LEMMA PollNextMoves ==
    ASSUME ServerInv, NEW w \in polls, PollWrite(w)
    PROVE  NextMoves
  <1>1. CommandIds' = CommandIds /\ clock' = clock /\ polls' = polls \ {w} /\ clock \in Nat
    BY DEF PollWrite, CommandIds, ServerInv, TypeOK
  <1>2. ASSUME NEW c \in CommandIds, commands'[c].status = "PENDING"
        PROVE  /\ commands[c].status = "PENDING"
               /\ commands'[c].next \in {commands[c].next, commands[c].created}
    BY <1>2, PollRows, PreparedNext
  <1> QED BY <1>1, <1>2 DEF NextMoves

LEMMA AckNextMoves ==
    ASSUME ServerInv, NEW w \in acks, AckWrite(w) \/ AckPreparing(w)
    PROVE  NextMoves
  <1> DEFINE P == Prepared(w.unprepared)
             row == P[w.command]
             s == AckStatus(row, clock, w.write)
  <1>1. w.write \in {"ACKNOWLEDGED", "FAILED", "EXPIRED"}
    BY DEF ServerInv, TypeOK, Ack
  <1>2. /\ P \in [CommandIds -> Command]
        /\ commands \in [CommandIds -> Command]
        /\ \A c \in CommandIds :
             /\ P[c].status = commands[c].status
             /\ P[c].next = commands[c].next
                   \/ (c \in w.unprepared /\ P[c].next = commands[c].created)
    BY PreparedRows, PreparedNext, CommandFacts DEF ServerInv, TypeOK, CommandIds
  <1>3. s \in {"ACKNOWLEDGED", "FAILED", "EXPIRED"}
    BY <1>1 DEF AckStatus
  <1>4. clock' = clock /\ clock \in Nat
    BY DEF AckWrite, AckPreparing, ServerInv, TypeOK
  <1> HIDE DEF P, s
  <1>5. CASE AckWrite(w)
    <2>1. commands' = [commands EXCEPT ![w.command].status = w.write]
      BY <1>5 DEF AckWrite
    <2>2. CommandIds' = CommandIds
      BY <1>2, <2>1 DEF CommandIds
    <2>3. \A c \in CommandIds :
            /\ commands'[c].next = commands[c].next
            /\ commands'[c].status \in {commands[c].status, w.write}
      BY <1>2, <2>1 DEF Command
    <2> QED BY <1>1, <1>4, <2>2, <2>3 DEF NextMoves
  <1>6. CASE AckPreparing(w)
    <2>1. commands' = P \/ commands' = [P EXCEPT ![w.command].status = s]
      BY <1>6 DEF AckPreparing, P, s
    <2>2. CommandIds' = CommandIds
      BY <1>2, <2>1 DEF CommandIds
    <2>3. \A c \in CommandIds :
            /\ commands'[c].next = P[c].next
            /\ commands'[c].status \in {P[c].status, s}
      BY <1>2, <2>1 DEF Command
    <2> QED BY <1>2, <1>3, <1>4, <2>2, <2>3 DEF NextMoves
  <1> QED BY <1>5, <1>6

LEMMA NextStep ==
    ASSUME ServerInv, [OwnNext]_vars
    PROVE  NextMoves
  <1>1. clock \in Nat
    BY DEF ServerInv, TypeOK
  <1>2. CASE ParentCommit
    <2>1. PICK w \in decisions : RequestUnlockWrite(w) \/ KeepBlockedWrite(w) \/ UnlockWrite(w)
      BY <1>2 DEF ParentCommit
    <2>2. CASE RequestUnlockWrite(w) \/ KeepBlockedWrite(w)
      BY <1>1, <2>2, SameRowsMove DEF RequestUnlockWrite, KeepBlockedWrite
    <2>3. CASE UnlockWrite(w)
      <3> DEFINE n == Len(commands) + 1
      <3>1. /\ CommandIds' = CommandIds \cup {n}
            /\ commands'[n] = NewCommand(w.incident, w.created)
            /\ \A c \in CommandIds : commands'[c] = commands[c]
            /\ clock' = clock
        BY <2>3, UnlockAppends DEF UnlockWrite
      <3> HIDE DEF n
      <3>2. /\ commands'[n].incident = w.incident
            /\ commands'[n].created = w.created
            /\ commands'[n].next = 0
        BY <3>1 DEF NewCommand
      <3> QED BY <1>1, <3>1, <3>2 DEF NextMoves
    <2> QED BY <2>1, <2>2, <2>3
  <1>3. CASE PollCommit
    BY <1>1, <1>3, PollNextMoves, SameRowsMove DEF PollCommit, PollConflict
  <1>4. CASE AckCommit
    BY <1>1, <1>4, AckNextMoves, SameRowsMove DEF AckCommit, AckConflict
  <1>5. CASE DeviceReport
    BY <1>1, <1>5, SameRowsMove DEF DeviceReport, CreateIncident
  <1>6. CASE ParentRequest \/ DevicePoll \/ DeviceAck \/ ApiRestart \/ UNCHANGED vars
    BY <1>1, <1>6, SameRowsMove DEF ParentRequest, DecisionRead, DevicePoll, PollRead, DeviceAck,
                              AckRead, ApiRestart, vars
  <1>7. CASE Tick
    BY <1>1, <1>7, SameRowsMove DEF Tick
  <1> QED BY <1>2, <1>3, <1>4, <1>5, <1>6, <1>7 DEF OwnNext

\* Who is new among the decisions, the polls and the acknowledgements.
LEMMA DecisionsMove ==
    ASSUME FlowInv, [FlowNext]_flowVars, NEW w \in decisions', w \notin decisions
    PROVE  /\ w.incident \in Incidents /\ incidents[w.incident].status # "NONE"
           /\ w.created \in {0, clock}
           /\ incidents' = incidents
  <1>1. [OwnNext]_vars
    BY FlowServerStep
  <1>2. ParentRequest
    BY <1>1 DEF OwnNext, vars, ParentCommit, RequestUnlockWrite, KeepBlockedWrite, UnlockWrite,
                DeviceReport, CreateIncident, DevicePoll, PollRead, PollCommit, PollWrite,
                PollConflict, DeviceAck, AckRead, AckCommit, AckWrite, AckPreparing, AckConflict,
                Tick, ApiRestart
  <1>3. PICK h \in ParentHandlers, i \in Incidents, op \in {"request_unlock", "unlock", "keep_blocked"} :
          DecisionRead(h, op, i)
    BY <1>2 DEF ParentRequest
  <1> DEFINE v == [handler |-> h, op |-> op, incident |-> i,
                   created |-> IF op = "unlock" THEN clock ELSE 0]
  <1>4. w = v /\ incidents' = incidents /\ incidents[i].status \in Undecided
    BY <1>3 DEF DecisionRead
  <1>5. v.incident = i /\ v.created \in {0, clock}
    OBVIOUS
  <1> HIDE DEF v
  <1> QED BY <1>4, <1>5 DEF Undecided

LEMMA PollsMove ==
    ASSUME FlowInv, [FlowNext]_flowVars, NEW w \in polls', w \notin polls
    PROVE  /\ w.at = clock /\ w.unprepared = Unprepared
           /\ UNCHANGED <<clock, commands, acks>>
  <1>1. [OwnNext]_vars
    BY FlowServerStep
  <1>2. DevicePoll
    BY <1>1 DEF OwnNext, vars, ParentRequest, DecisionRead, ParentCommit, RequestUnlockWrite,
                KeepBlockedWrite, UnlockWrite, DeviceReport, CreateIncident, PollCommit,
                PollWrite, PollConflict, DeviceAck, AckRead, AckCommit, AckWrite, AckPreparing,
                AckConflict, Tick, ApiRestart
  <1>3. PICK h \in DeviceHandlers, d \in Devices \ DemoDevices, after \in 0..Len(commands) :
          PollRead(h, d, after)
    BY <1>2 DEF DevicePoll
  <1> DEFINE v == [handler |-> h, device |-> d, after |-> after, at |-> clock,
                   unprepared |-> Unprepared]
  <1>4. w = v /\ UNCHANGED <<clock, commands, acks>>
    BY <1>3 DEF PollRead
  <1>5. v.at = clock /\ v.unprepared = Unprepared
    OBVIOUS
  <1> HIDE DEF v
  <1> QED BY <1>4, <1>5

\* A reported incident keeps its device and key.
IncidentsKept ==
    \A i \in Incidents :
        incidents[i].status # "NONE" =>
            /\ incidents'[i].status # "NONE"
            /\ incidents'[i].device = incidents[i].device
            /\ incidents'[i].key = incidents[i].key

LEMMA IncidentsStep ==
    ASSUME FlowInv, [FlowNext]_flowVars
    PROVE  /\ IncidentsKept
           /\ \A i \in Incidents : (incidents[i].status = "NONE" /\ incidents'[i] # incidents[i]) =>
                 \/ incidents'[i].device = Device
                 \/ \E w \in decisions : w.incident = i
  <1>1. TypeOK
    BY DEF FlowInv, FlowTypeOK
  <1>2. CASE UNCHANGED incidents
    BY <1>2 DEF IncidentsKept
  <1>3. ASSUME NEW w \in decisions, NEW s \in IncidentStatus \ {"NONE"},
               SetIncidentStatus(w.incident, s)
        PROVE  /\ IncidentsKept
               /\ \A i \in Incidents : (incidents[i].status = "NONE" /\ incidents'[i] # incidents[i]) =>
                     \E v \in decisions : v.incident = i
    <2>1. w.incident \in Incidents
      BY <1>1 DEF TypeOK, Decision
    <2> QED BY <1>1, <1>3, <2>1, SetStatusType DEF IncidentsKept
  <1>4. CASE ParentCommit
    <2>1. PICK w \in decisions : RequestUnlockWrite(w) \/ KeepBlockedWrite(w) \/ UnlockWrite(w)
      BY <1>4 DEF ParentCommit
    <2>2. \E s \in IncidentStatus \ {"NONE"} : SetIncidentStatus(w.incident, s)
      BY <2>1 DEF RequestUnlockWrite, KeepBlockedWrite, UnlockWrite, IncidentStatus
    <2> QED BY <1>3, <2>2
  <1>5. ASSUME NEW a \in Agents, NEW i \in Incidents, Report(a, i)
        PROVE  /\ IncidentsKept
               /\ \A j \in Incidents : (incidents[j].status = "NONE" /\ incidents'[j] # incidents[j]) =>
                     incidents'[j].device = Device
    <2>1. procs[a].key \in Keys /\ Device \in Devices
      BY <1>5, FlowConstants DEF FlowInv, Shaped, Report
    <2>2. CASE \E replay \in BOOLEAN : InsertIncident(Device, procs[a].key, i, TRUE, replay)
      <3>1. PICK replay \in BOOLEAN : InsertIncident(Device, procs[a].key, i, TRUE, replay)
        BY <2>2
      <3>2. incidents[i].status = "NONE"
        BY <3>1 DEF InsertIncident
      <3> DEFINE blocked == TRUE
      <3>3. blocked \in BOOLEAN /\ InsertIncident(Device, procs[a].key, i, blocked, replay)
        BY <3>1
      <3> HIDE DEF blocked
      <3>4. /\ incidents'[i].status \in {"BLOCKED", "DETECTED"}
            /\ incidents'[i].device = Device
            /\ \A j \in Incidents : j # i => incidents'[j] = incidents[j]
        BY <1>1, <2>1, <3>3, InsertIncidentType
      <3> QED BY <3>2, <3>4 DEF IncidentsKept
    <2>3. CASE UNCHANGED incidents
      BY <2>3 DEF IncidentsKept
    <2> QED BY <1>5, <2>2, <2>3 DEF Report, CreateIncident
  <1>6. CASE UNCHANGED incidents \/ ParentCommit \/ \E a \in Agents, i \in Incidents : Report(a, i)
    BY <1>2, <1>4, <1>5, <1>6
  <1>7. ASSUME NEW a \in Agents,
               \/ StartPoll(a) \/ (\E k \in Keys : StartLiveDemo(a, k)) \/ AgentStep(a)
               \/ (\E p \in longPolls : PollTimeout(a, p)) \/ Crash(a)
        PROVE  UNCHANGED incidents \/ \E b \in Agents, i \in Incidents : Report(b, i)
    BY <1>7 DEF StartPoll, StartLiveDemo, AgentStep, FinishSave, Block, SendPoll, SendAck, AckRead,
                Handle, AckUnwritten, PollTimeout, Crash, vars
  <1>8. CASE ApiStep \/ RestartApi \/ UNCHANGED flowVars
    BY <1>2, <1>8 DEF ApiStep, PollRound, PollRead, PollAnswer, PollWrite, PollFails,
       PollConflict, AckUnheard, AckAnswer, AckWrite, AckPreparing, AckConflict, RestartApi,
       flowVars, vars
  <1>9. CASE (ParentRequest \/ ParentCommit \/ Tick) /\ UNCHANGED agentVars
    BY <1>2, <1>4, <1>9 DEF ParentRequest, DecisionRead, Tick
  <1> QED BY <1>6, <1>7, <1>8, <1>9 DEF FlowNext

LEMMA OwnOrdersStep ==
    ASSUME FlowInv, OwnOrders, [FlowNext]_flowVars
    PROVE  OwnOrders'
  <1>1. /\ IncidentsKept
        /\ \A i \in Incidents : (incidents[i].status = "NONE" /\ incidents'[i] # incidents[i]) =>
              \/ incidents'[i].device = Device
              \/ \E w \in decisions : w.incident = i
    BY IncidentsStep
  <1>2. RowsKept /\ CommandIds \subseteq CommandIds' /\ TypeOK /\ NextMoves
    BY ServerEffect, FlowServerStep, NextStep DEF FlowInv
  <1>3. \A i \in Incidents : incidents'[i].status # "NONE" => incidents'[i].device = Device
    BY <1>1 DEF OwnOrders, IncidentsKept
  <1>4. \A w \in decisions : w.incident \in Incidents
    BY <1>2 DEF TypeOK, Decision
  <1>5. \A c \in CommandIds' : incidents'[commands'[c].incident].status # "NONE"
    <2> TAKE c \in CommandIds'
    <2>1. CASE c \in CommandIds
      <3>1. commands[c].incident \in Incidents
        BY <1>2, <2>1, CommandFacts DEF Command
      <3> QED BY <1>1, <1>2, <2>1, <3>1 DEF OwnOrders, IncidentsKept, RowsKept
    <2>2. CASE c \notin CommandIds
      <3>1. PICK w \in decisions : commands'[c].incident = w.incident
        BY <1>2, <2>2 DEF NextMoves
      <3> QED BY <1>1, <1>4, <3>1 DEF OwnOrders, IncidentsKept
    <2> QED BY <2>1, <2>2
  <1>6. \A w \in decisions' : incidents'[w.incident].status # "NONE"
    <2> TAKE w \in decisions'
    <2>1. CASE w \in decisions
      BY <1>1, <1>4, <2>1 DEF OwnOrders, IncidentsKept
    <2>2. CASE w \notin decisions
      BY <2>2, DecisionsMove
    <2> QED BY <2>1, <2>2
  <1>7. \A w \in polls' \cup acks' : w.unprepared \subseteq CommandIds
    BY PollsMove, AcksMove DEF OwnOrders, Unprepared
  <1> QED BY <1>2, <1>3, <1>5, <1>6, <1>7 DEF OwnOrders

LEMMA DatedStep ==
    ASSUME FlowInv, Dated, [FlowNext]_flowVars
    PROVE  Dated'
  <1>1. RowsKept /\ StatusMoves /\ NextMoves /\ TypeOK /\ TypeOK'
    BY ServerEffect, FlowServerStep, NextStep DEF FlowInv
  <1>2. clock \in Nat /\ clock' \in Nat /\ clock <= clock'
    BY <1>1 DEF TypeOK, NextMoves
  <1>3. \A c \in CommandIds : commands[c].created \in Nat /\ commands[c].next \in Nat
    BY <1>1, CommandFacts DEF Command
  <1>4. \A w \in decisions : w.created \in Nat
    BY <1>1 DEF TypeOK, Decision
  <1>5. ASSUME NEW c \in CommandIds'
        PROVE  /\ commands'[c].created <= clock'
               /\ commands'[c].status = "PENDING" => commands'[c].next <= clock'
    <2>1. CASE c \in CommandIds
      <3>1. commands'[c].created = commands[c].created /\ commands[c].created <= clock
        BY <1>1, <2>1 DEF RowsKept, Dated
      <3>2. commands'[c].created <= clock'
        BY <1>2, <1>3, <2>1, <3>1
      <3>3. ASSUME commands'[c].status = "PENDING"
            PROVE  commands'[c].next <= clock
        BY <1>1, <2>1, <3>1, <3>3 DEF NextMoves, Dated
      <3>4. commands'[c].status = "PENDING" => commands'[c].next \in {commands[c].next, commands[c].created}
        BY <1>1, <2>1 DEF NextMoves
      <3> QED BY <1>2, <1>3, <2>1, <3>2, <3>3, <3>4
    <2>2. CASE c \notin CommandIds
      <3>1. PICK w \in decisions : commands'[c].created = w.created /\ commands'[c].next = 0
        BY <1>1, <2>2 DEF NextMoves
      <3>2. w.created <= clock
        BY DEF Dated
      <3> QED BY <1>2, <1>4, <3>1, <3>2
    <2> QED BY <2>1, <2>2
  <1>6. ASSUME NEW w \in decisions' PROVE w.created <= clock'
    <2>1. CASE w \in decisions
      BY <1>2, <1>4, <2>1 DEF Dated
    <2>2. CASE w \notin decisions
      BY <1>2, <2>2, DecisionsMove
    <2> QED BY <2>1, <2>2
  <1> QED BY <1>5, <1>6 DEF Dated

LEMMA DueWhenReadStep ==
    ASSUME OneAgent, FlowInv, OwnOrders, Dated, DueWhenRead, [FlowNext]_flowVars
    PROVE  DueWhenRead'
  <1>1. RowsKept /\ StatusMoves /\ NextMoves /\ TypeOK
    BY ServerEffect, FlowServerStep, NextStep DEF FlowInv
  <1> SUFFICES ASSUME NEW w \in polls', NEW a \in Agents, procs'[a].request = w.handler
               PROVE  /\ \A c \in CommandIds' :
                           commands'[c].status = "PENDING" => commands'[c].next <= w.at
                      /\ \A c \in w.unprepared : commands'[c].created <= w.at
                      /\ \A v \in acks' : \A c \in v.unprepared : commands'[c].created <= w.at
    BY DEF DueWhenRead
  <1>2. CASE w \notin polls
    <2>1. w.at = clock /\ w.unprepared = Unprepared /\ UNCHANGED <<clock, commands, acks>>
      BY <1>2, PollsMove
    <2> QED BY <2>1 DEF Dated, OwnOrders, Unprepared, CommandIds
  <1>3. CASE w \in polls
    <2>1. w.handler # NoHandler /\ w.at \in Nat /\ w.unprepared \subseteq CommandIds
      BY <1>1, <1>3, FlowConstants DEF TypeOK, Poll, OwnOrders
    <2>2. procs[a].request = w.handler
      BY <1>3, <2>1, AgentsMove DEF Moves
    <2>3. /\ \A c \in CommandIds : commands[c].status = "PENDING" => commands[c].next <= w.at
          /\ \A c \in w.unprepared : commands[c].created <= w.at
          /\ \A v \in acks : \A c \in v.unprepared : commands[c].created <= w.at
      BY <1>3, <2>2 DEF DueWhenRead
    <2>4. acks' \subseteq acks
      <3>1. procs[a].pc \in {"waiting", "awaiting"}
        BY <2>1, <2>2 DEF FlowInv, Shaped
      <3>2. \A b \in Agents, h \in DeviceHandlers : ~SendAck(b, h)
        BY <3>1 DEF OneAgent, SendAck
      <3> QED BY <3>2, AcksMove
    <2>5. \A v \in acks : v.unprepared \subseteq CommandIds
      BY DEF OwnOrders
    <2>6. \A v \in polls : polls' # polls \ {v}
      BY <1>3 DEF FlowInv, Connections
    <2>7. ASSUME NEW c \in CommandIds', commands'[c].status = "PENDING"
          PROVE  commands'[c].next <= w.at
      <3>1. CASE c \in CommandIds
        BY <1>1, <2>3, <2>6, <2>7, <3>1 DEF NextMoves
      <3>2. CASE c \notin CommandIds
        <4>1. commands'[c].next = 0
          BY <1>1, <3>2 DEF NextMoves
        <4> QED BY <2>1, <4>1
      <3> QED BY <3>1, <3>2
    <2> QED BY <1>1, <2>1, <2>3, <2>4, <2>5, <2>7 DEF RowsKept
  <1> QED BY <1>2, <1>3

\* What is passed stays passed, since a step never makes a row due again.
LEMMA GoodBefore ==
    ASSUME FlowInv, [FlowNext]_flowVars, NEW c \in CommandIds,
           commands'[c].status = "PENDING", clock' < Expiry(commands'[c])
    PROVE  Good(c)
  <1>1. RowsKept /\ NextMoves /\ TypeOK /\ TypeOK'
    BY ServerEffect, FlowServerStep, NextStep DEF FlowInv
  <1>2. clock \in Nat /\ clock' \in Nat /\ clock <= clock'
    BY <1>1 DEF TypeOK, NextMoves
  <1>3. Expiry(commands'[c]) = Expiry(commands[c]) /\ Expiry(commands[c]) \in Nat
    BY <1>1, CommandFacts, ServerConstants DEF Expiry, RowsKept, Command
  <1>4. commands[c].status = "PENDING"
    BY <1>1 DEF NextMoves
  <1> QED BY <1>2, <1>3, <1>4 DEF Good

LEMMA PassedStays ==
    ASSUME FlowInv, [FlowNext]_flowVars, NEW n \in 0..Len(commands), Passed(n)
    PROVE  Passed(n)'
  <1> SUFFICES ASSUME NEW c \in CommandIds', c <= n,
                      commands'[c].status = "PENDING", clock' < Expiry(commands'[c])
               PROVE  FALSE
    BY DEF Passed, Good, Expiry
  <1>1. /\ CommandIds = 1..Len(commands) /\ Len(commands) \in Nat
        /\ CommandIds' = 1..Len(commands') /\ Len(commands') \in Nat
    BY ServerEffect, CommandFacts, LenProperties DEF TypeOK, CommandIds
  <1>2. c \in CommandIds
    BY <1>1
  <1> QED BY <1>2, GoodBefore DEF Passed

\* Every order a heard poll delivers has nothing due below it: the delivery
\* query takes the due rows oldest first, and each pending row was due.
LEMMA BatchPassed ==
    ASSUME CursorInv, [FlowNext]_flowVars, NEW w \in polls, PollWrite(w),
           NEW a \in Agents, procs[a].request = w.handler, NEW d \in Batch(w)
    PROVE  Passed(d)'
  <1> DEFINE due == {e \in CommandIds : CommandDevice(e) = w.device /\ Due(e, SweptRow(w, e), w)}
  <1>1. FlowInv /\ ServerInv /\ TypeOK /\ CommandIds' = CommandIds
    BY DEF CursorInv, FlowInv, ServerInv, PollWrite, CommandIds
  <1>2. /\ CommandIds = 1..Len(commands) /\ Len(commands) \in Nat
        /\ \A c \in CommandIds : commands[c] \in Command
    BY <1>1, CommandFacts
  <1>3. d \in due /\ Cardinality({e \in due : e < d}) < BatchLimit /\ due \subseteq CommandIds
    BY DEF Batch
  <1> SUFFICES ASSUME NEW c \in CommandIds, c <= d,
                      commands'[c].status = "PENDING", clock' < Expiry(commands'[c])
               PROVE  FALSE
    BY <1>1 DEF Passed, Good, Expiry
  <1>4. /\ c \notin Batch(w)
        /\ SweptRow(w, c) = Prepared(w.unprepared)[c]
        /\ commands[c].status = "PENDING"
    BY <1>1, PollRows
  <1>5. c < d
    BY <1>2, <1>3, <1>4
  <1>6. Good(c)
    BY <1>1, GoodBefore
  <1>7. CommandDevice(c) = w.device
    <2>1. commands[c].incident \in Incidents
      BY <1>2 DEF Command
    <2>2. w.device = Device
      BY <1>1 DEF FlowInv, Connections
    <2> QED BY <2>1, <2>2 DEF CursorInv, OwnOrders, CommandDevice
  <1>8. c > w.after
    <2>1. w.handler # NoHandler /\ w.after \in Nat
      BY <1>1, FlowConstants DEF TypeOK, Poll
    <2>2. procs[a].pc = "waiting"
      BY <1>1, <2>1 DEF FlowInv, Shaped, Requests, Connections
    <2>3. w.after = procs[a].cursor
      BY <1>1, <2>2 DEF FlowInv, Requests, Connections
    <2>4. Passed(procs[a].cursor)
      BY DEF CursorInv, CursorsPassed
    <2> QED BY <1>2, <1>6, <2>1, <2>3, <2>4 DEF Passed
  <1>9. SweptRow(w, c).status = "PENDING" /\ SweptRow(w, c).next <= w.at
    <2>1. /\ commands[c].next <= w.at
          /\ c \in w.unprepared => commands[c].created <= w.at
      BY <1>4 DEF CursorInv, DueWhenRead
    <2> QED BY <1>1, <1>4, <2>1, PreparedNext
  <1>10. c \in due
    BY <1>7, <1>8, <1>9 DEF Due
  <1>11. Cardinality({e \in due : e < c}) < BatchLimit
    <2> HIDE DEF due
    <2>1. IsFiniteSet({e \in due : e < d})
      <3>1. IsFiniteSet(CommandIds)
        BY <1>2, FS_Interval
      <3>2. {e \in due : e < d} \subseteq CommandIds
        BY <1>3
      <3> QED BY <3>1, <3>2, FS_Subset
    <2>2. {e \in due : e < c} \subseteq {e \in due : e < d}
      BY <1>2, <1>3, <1>5
    <2>3. /\ Cardinality({e \in due : e < c}) <= Cardinality({e \in due : e < d})
          /\ IsFiniteSet({e \in due : e < c})
      BY <2>1, <2>2, FS_Subset
    <2>4. /\ Cardinality({e \in due : e < c}) \in Nat
          /\ Cardinality({e \in due : e < d}) \in Nat
      BY <2>1, <2>3, FS_CardinalityType
    <2> QED BY <1>3, <2>3, <2>4, ServerConstants
  <1> QED BY <1>4, <1>10, <1>11 DEF Batch

LEMMA CursorsPassedStep ==
    ASSUME CursorInv, [FlowNext]_flowVars
    PROVE  CursorsPassed'
  <1>1. FlowInv /\ (\A b \in Agents : Moves(b)) /\ FilesMove
    BY AgentsMove DEF CursorInv
  <1>2. /\ CommandIds = 1..Len(commands) /\ Len(commands) \in Nat
    BY <1>1, CommandFacts DEF FlowInv, ServerInv
  <1>3. ASSUME NEW n \in 0..Len(commands), Passed(n) PROVE Passed(n)'
    BY <1>1, <1>3, PassedStays
  <1>4. Passed(0)
    BY <1>2 DEF Passed
  <1>5. /\ cursorFile \in 0..Len(commands) /\ Passed(cursorFile)
        /\ \A b \in Agents : /\ procs[b].cursor \in 0..Len(commands) /\ Passed(procs[b].cursor)
                             /\ \A m \in DOMAIN procs[b].batch :
                                   /\ procs[b].batch[m].id \in 0..Len(commands)
                                   /\ Passed(procs[b].batch[m].id)
    BY <1>1, <1>2 DEF FlowInv, WithinCommands, CursorInv, CursorsPassed
  <1>6. \A n : n = cursorFile' => Passed(n)'
    <2>1. CASE cursorFile' = cursorFile
      BY <1>3, <1>5, <2>1
    <2>2. CASE cursorFile' # cursorFile
      <3>1. PICK b \in Agents :
              /\ procs[b].batch # <<>>
              /\ cursorFile' \in {procs[b].cursor, Head(procs[b].batch).id}
        BY <1>1, <2>2 DEF FilesMove
      <3>2. \E m \in DOMAIN procs[b].batch : Head(procs[b].batch) = procs[b].batch[m]
        BY <1>1, <3>1, BatchFacts
      <3> QED BY <1>3, <1>5, <3>1, <3>2
    <2> QED BY <2>1, <2>2
  <1>7. ASSUME NEW b \in Agents, NEW n, n = procs'[b].cursor PROVE Passed(n)'
    <2>1. n \in {0, procs[b].cursor, cursorFile, cursorFile'}
      BY <1>1, <1>7 DEF Moves
    <2>2. 0 \in 0..Len(commands)
      BY <1>2
    <2> QED BY <1>3, <1>4, <1>5, <1>6, <2>1, <2>2
  <1>8. ASSUME NEW b \in Agents, NEW k \in DOMAIN procs'[b].batch,
               NEW n, n = procs'[b].batch[k].id
        PROVE  Passed(n)'
    <2>1. CASE \E m \in DOMAIN procs[b].batch : procs'[b].batch[k] = procs[b].batch[m]
      BY <1>3, <1>5, <1>8, <2>1
    <2>2. CASE \E w \in polls : /\ PollWrite(w) /\ procs[b].request = w.handler
                                /\ procs'[b].batch[k].id \in Batch(w)
      BY <1>8, <2>2, BatchPassed
    <2> QED BY <1>1, <2>1, <2>2 DEF Moves
  <1>9. Passed(cursorFile)'
    BY <1>6 DEF Passed, Good
  <1>10. \A b \in Agents : Passed(procs[b].cursor)'
    BY <1>7 DEF Passed, Good
  <1>11. \A b \in Agents : \A m \in DOMAIN procs'[b].batch : Passed(procs[b].batch[m].id)'
    BY <1>8 DEF Passed, Good
  <1> QED BY <1>9, <1>10, <1>11 DEF CursorsPassed, Passed, Good

LEMMA CursorInvInit == FlowInit => CursorInv
  <1> SUFFICES ASSUME FlowInit PROVE CursorInv
    OBVIOUS
  <1>1. FlowInv /\ CommandIds = {}
    BY FlowInvInit, EmptySeq DEF FlowInit, Init, CommandIds
  <1>2. \A i \in Incidents : incidents[i].status = "NONE"
    BY DEF FlowInit, Init, NoRow
  <1>3. OwnOrders /\ Dated /\ DueWhenRead
    BY <1>1, <1>2 DEF FlowInit, Init, OwnOrders, Dated, DueWhenRead
  <1>4. CursorsPassed
    BY <1>1 DEF CursorsPassed, Passed
  <1> QED BY <1>1, <1>3, <1>4 DEF CursorInv

LEMMA CursorInvariant ==
    ASSUME OneAgent
    PROVE  FlowSpec => []CursorInv
  <1>1. CursorInv /\ [FlowNext]_flowVars => CursorInv'
    <2> SUFFICES ASSUME CursorInv, [FlowNext]_flowVars PROVE CursorInv'
      OBVIOUS
    <2>1. FlowInv' /\ CursorsPassed'
      BY FlowInvStep, CursorsPassedStep DEF CursorInv
    <2>2. OwnOrders' /\ Dated' /\ DueWhenRead'
      BY OwnOrdersStep, DatedStep, DueWhenReadStep DEF CursorInv
    <2> QED BY <2>1, <2>2 DEF CursorInv
  <1> QED BY <1>1, CursorInvInit, PTL DEF FlowSpec

\* With one agent process, no pending order that is still good lies behind a
\* cursor, whatever crashes, stale polls and late acknowledgements there are.
\* Two processes can break it (README, limits).
THEOREM CursorHidesNothing ==
    ASSUME OneAgent
    PROVE  FlowSpec => []CursorNeverSkips
  <1>1. CursorInv => CursorNeverSkips
    <2> SUFFICES ASSUME CursorInv, NEW c \in CommandIds,
                        commands[c].status = "PENDING", clock < Expiry(commands[c])
                 PROVE  /\ c > cursorFile
                        /\ \A a \in Agents : procs[a].pc # "down" => c > procs[a].cursor
      BY DEF CursorNeverSkips
    <2>1. CommandIds = 1..Len(commands) /\ Len(commands) \in Nat
      BY CommandFacts DEF CursorInv, FlowInv, ServerInv
    <2>2. cursorFile \in Nat /\ \A a \in Agents : procs[a].cursor \in Nat
      BY <2>1 DEF CursorInv, FlowInv, WithinCommands
    <2>3. ~ (c <= cursorFile) /\ \A a \in Agents : ~ (c <= procs[a].cursor)
      BY DEF CursorInv, CursorsPassed, Passed, Good
    <2> QED BY <2>1, <2>2, <2>3
  <1> QED BY <1>1, CursorInvariant, PTL

-----------------------------------------------------------------------------
(* One agent process and one parent request: no block outlives its incidents *)

\* An incident stays unexecuted unless the step executes its command.
LEMMA UnexecutedStays ==
    ASSUME FlowInv, [FlowNext]_flowVars, NEW app, NEW i \in Incidents, Unexecuted(app, i),
           executed' \subseteq CommandIds,
           \A c \in executed' : c \in executed \/ commands[c].incident # i
    PROVE  Unexecuted(app, i)'
  <1>1. IncidentsKept /\ RowsKept
    BY IncidentsStep, ServerEffect
  <1>2. \A c \in executed' : commands'[c].incident = commands[c].incident
    BY <1>1 DEF RowsKept
  <1> QED BY <1>1, <1>2 DEF Unexecuted, IncidentsKept

\* A report names an incident with no order yet.
LEMMA ReportOwed ==
    ASSUME FlowInv, CommandMeansUnlocked, NEW a \in Agents, NEW i \in Incidents, Report(a, i)
    PROVE  /\ incidents'[i].status # "NONE"
           /\ incidents'[i].key = procs[a].key
           /\ \A c \in CommandIds : commands[c].incident # i
  <1>1. procs[a].key \in Keys /\ Device \in Devices /\ TypeOK
    BY FlowConstants DEF FlowInv, FlowTypeOK, Shaped, Report
  <1>2. CASE \E replay \in BOOLEAN : InsertIncident(Device, procs[a].key, i, TRUE, replay)
    <2>1. PICK replay \in BOOLEAN : InsertIncident(Device, procs[a].key, i, TRUE, replay)
      BY <1>2
    <2> DEFINE blocked == TRUE
    <2>2. blocked \in BOOLEAN /\ InsertIncident(Device, procs[a].key, i, blocked, replay)
      BY <2>1
    <2> HIDE DEF blocked
    <2>3. incidents'[i].status \in {"BLOCKED", "DETECTED"} /\ incidents'[i].key = procs[a].key
      BY <1>1, <2>2, InsertIncidentType
    <2>4. incidents[i].status = "NONE"
      BY <2>1 DEF InsertIncident
    <2> QED BY <2>3, <2>4 DEF CommandMeansUnlocked
  <1>3. CASE /\ i \in Originals(Device, procs[a].key)
             /\ incidents[i].status # "UNLOCKED"
             /\ UNCHANGED incidents
    BY <1>3 DEF Originals, CommandMeansUnlocked
  <1> QED BY <1>2, <1>3 DEF Report, CreateIncident

\* The application an order is about never changes.
LEMMA SameApp ==
    ASSUME FlowInv, [FlowNext]_flowVars, CommandMeansUnlocked, NEW c \in CommandIds
    PROVE  AppOf[incidents'[commands'[c].incident].key] = AppOfCommand(c)
  <1>1. commands[c].incident \in Incidents
    BY CommandFacts DEF FlowInv, FlowTypeOK, Command
  <1> QED BY <1>1, IncidentsStep, ServerEffect
          DEF IncidentsKept, RowsKept, CommandMeansUnlocked, AppOfCommand

LEMMA BlocksOwedFinish ==
    ASSUME OneAgent, FlowInv, CommandMeansUnlocked, BlocksOwed, [FlowNext]_flowVars,
           NEW a \in Agents, FinishSave(a)
    PROVE  BlocksOwed'
  <1> DEFINE c == Head(procs[a].batch).id
  <1>1. /\ procs[a].pc = "saving"
        /\ blockedFile'.apps = procs[a].mem
        /\ \A b \in Agents : b = a
    BY DEF FinishSave, OneAgent
  <1>2. procs'[a].mem = procs[a].mem /\ procs'[a].pc \in {"polling", "answering"}
    <2>1. CASE procs[a].batch = <<>>
      BY <2>1, BlockSavedEffect, BecomesOne DEF FlowInv, FlowTypeOK
    <2>2. CASE procs[a].batch # <<>>
      BY <2>2, UnblockSavedEffect, BecomesOne DEF FlowInv, FlowTypeOK
    <2> QED BY <2>1, <2>2
  <1>3. ASSUME NEW app \in procs[a].mem PROVE \E i \in Incidents : Unexecuted(app, i)'
    <2>1. PICK i \in Incidents : Unexecuted(app, i)
      BY DEF BlocksOwed
    <2>2. CASE procs[a].batch = <<>>
      <3>1. executed' = executed /\ executed \subseteq CommandIds
        BY <2>2 DEF FinishSave, FlowInv, WithinCommands
      <3> QED BY <2>1, <3>1, UnexecutedStays
    <2>3. CASE procs[a].batch # <<>>
      <3>1. executed' = executed \cup {c} /\ executed \subseteq CommandIds /\ c \in CommandIds
        BY <2>3, BatchFacts DEF FinishSave, FlowInv, WithinCommands
      <3>2. AppOfCommand(c) # app
        BY <1>1, <2>3 DEF BlocksOwed
      <3>3. commands[c].incident # i
        BY <2>1, <3>2 DEF Unexecuted, AppOfCommand
      <3> HIDE DEF c
      <3> QED BY <2>1, <3>1, <3>3, UnexecutedStays
    <2> QED BY <2>2, <2>3
  <1> QED BY <1>1, <1>2, <1>3 DEF BlocksOwed, Unexecuted

LEMMA BlocksOwedStep ==
    ASSUME OneAgent, FlowInv, CommandMeansUnlocked, BlocksOwed, [FlowNext]_flowVars
    PROVE  BlocksOwed'
  <1>1. (\A b \in Agents : Moves(b)) /\ FilesMove
    BY AgentsMove
  <1>2. CASE \E a \in Agents : FinishSave(a)
    BY <1>2, BlocksOwedFinish
  <1>3. CASE executed' = executed /\ blockedFile'.apps \subseteq blockedFile.apps
    <2>1. executed' \subseteq CommandIds
      BY <1>3 DEF FlowInv, WithinCommands
    <2>2. ASSUME NEW app, \E i \in Incidents : Unexecuted(app, i)
          PROVE  \E i \in Incidents : Unexecuted(app, i)'
      BY <1>3, <2>1, <2>2, UnexecutedStays
    <2>3. \A app \in blockedFile'.apps : \E i \in Incidents : Unexecuted(app, i)'
      BY <1>3, <2>2 DEF BlocksOwed
    <2>4. ASSUME NEW b \in Agents, NEW app \in procs'[b].mem
          PROVE  \E i \in Incidents : Unexecuted(app, i)'
      <3>1. \/ app \in procs[b].mem \cup blockedFile.apps
            \/ procs[b].pc = "blocking" /\ app = AppOf[procs[b].key]
        BY <1>1 DEF Moves
      <3>2. \E i \in Incidents : Unexecuted(app, i)
        BY <3>1 DEF BlocksOwed
      <3> QED BY <2>2, <3>2
    <2>5. ASSUME NEW b \in Agents, procs'[b].pc = "blocking",
                 NEW app, app = AppOf[procs'[b].key]
          PROVE  \E i \in Incidents : Unexecuted(app, i)'
      <3>1. CASE procs'[b] = procs[b]
        <4>1. \E i \in Incidents : Unexecuted(app, i)
          BY <2>5, <3>1 DEF BlocksOwed
        <4> QED BY <2>2, <4>1
      <3>2. CASE procs'[b].key = procs[b].key /\ \E i \in Incidents : Report(b, i)
        <4>1. PICK i \in Incidents : Report(b, i)
          BY <3>2
        <4>2. /\ incidents'[i].status # "NONE"
              /\ incidents'[i].key = procs[b].key
              /\ \A c \in CommandIds : commands[c].incident # i
          BY <4>1, ReportOwed
        <4>3. commands' = commands
          BY <4>1 DEF Report, CreateIncident
        <4>4. Unexecuted(app, i)'
          BY <2>1, <2>5, <3>2, <4>2, <4>3 DEF Unexecuted
        <4> QED BY <4>4
      <3> QED BY <1>1, <2>5, <3>1, <3>2 DEF Moves
    <2>6. ASSUME NEW b \in Agents, procs'[b].pc = "saving", procs'[b].batch # <<>>,
                 NEW c, c = Head(procs'[b].batch).id
          PROVE  AppOfCommand(c)' \notin procs'[b].mem
      <3>1. \/ procs'[b] = procs[b]
            \/ /\ procs'[b].batch = procs[b].batch
               /\ AppOfCommand(Head(procs[b].batch).id) \notin procs'[b].mem
        BY <1>1, <2>6 DEF Moves
      <3>2. procs'[b].batch = procs[b].batch /\ AppOfCommand(c) \notin procs'[b].mem
        BY <2>6, <3>1 DEF BlocksOwed
      <3>3. c \in CommandIds
        BY <2>6, <3>2, BatchFacts
      <3>4. AppOfCommand(c)' = AppOfCommand(c)
        BY <3>3, SameApp DEF AppOfCommand
      <3> QED BY <3>2, <3>4
    <2>7. \A b \in Agents : procs'[b].pc = "blocking" =>
             \E i \in Incidents : Unexecuted(AppOf[procs[b].key], i)'
      BY <2>5 DEF Unexecuted
    <2>8. \A b \in Agents : (procs'[b].pc = "saving" /\ procs'[b].batch # <<>>) =>
             AppOfCommand(Head(procs[b].batch).id)' \notin procs'[b].mem
      BY <2>6 DEF AppOfCommand
    <2> QED BY <2>3, <2>4, <2>7, <2>8 DEF BlocksOwed, Unexecuted, AppOfCommand
  <1> QED BY <1>1, <1>2, <1>3 DEF FilesMove

LEMMA BlocksOwedInit == FlowInit => BlocksOwed
  <1> SUFFICES ASSUME FlowInit PROVE BlocksOwed
    OBVIOUS
  <1>1. blockedFile.apps = {} /\ \A a \in Agents : procs[a] = Down
    BY DEF FlowInit
  <1> QED BY <1>1, DownFacts DEF BlocksOwed

\* With one agent process and one parent request at a time, an application
\* whose incidents were all unlocked and acknowledged is blocked neither in the
\* file nor in the memory of the process, whatever crashes or is lost.
THEOREM AcknowledgedLiftsBlock ==
    ASSUME OneAgent, OneParent
    PROVE  FlowSpec => []AcknowledgedIsLifted
  <1>1. FlowSpec => []SerialInv
    BY FlowImplementsServer, SerialInvariant, PTL
  <1>2. SerialInv => CommandMeansUnlocked
    BY DEF SerialInv
  <1>3. FlowInv /\ CommandMeansUnlocked /\ BlocksOwed /\ [FlowNext]_flowVars => BlocksOwed'
    BY BlocksOwedStep
  <1>4. AcknowledgedMeansExecuted /\ BlocksOwed => AcknowledgedIsLifted
    <2> SUFFICES ASSUME AcknowledgedMeansExecuted, BlocksOwed,
                        NEW app \in Apps, Released(app)
                 PROVE  /\ app \notin blockedFile.apps
                        /\ \A a \in Agents : app \notin procs[a].mem
      BY DEF AcknowledgedIsLifted
    <2>1. ~ \E i \in Incidents : Unexecuted(app, i)
      BY DEF Released, Unexecuted, AcknowledgedMeansExecuted
    <2> QED BY <2>1 DEF BlocksOwed
  <1>5. FlowSpec => []BlocksOwed
    BY <1>1, <1>2, <1>3, BlocksOwedInit, FlowInvariant, PTL DEF FlowSpec
  <1> QED BY <1>4, <1>5, AcknowledgedWasExecuted, PTL
=============================================================================
