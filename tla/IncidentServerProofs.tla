------------------------ MODULE IncidentServerProofs ------------------------
(***************************************************************************)
(* Proofs about IncidentServer for every number of devices, handlers,      *)
(* incidents and commands.                                                 *)
(***************************************************************************)
EXTENDS IncidentServer, SequenceTheorems, TLAPS

\* A function on the ids of a sequence is a sequence of the same length.
LEMMA FunctionIsSeq ==
    ASSUME NEW S, NEW T, NEW s \in Seq(S), NEW f \in [DOMAIN s -> T]
    PROVE  /\ f \in Seq(T)
           /\ Len(f) = Len(s)
           /\ DOMAIN f = DOMAIN s
  <1>1. Len(s) \in Nat /\ DOMAIN s = 1..Len(s)
    BY LenProperties
  <1>2. f \in [1..Len(s) -> T]
    BY <1>1
  <1>3. f \in Seq(T)
    BY <1>1, <1>2, SeqDef
  <1>4. DOMAIN f = 1..Len(s) /\ DOMAIN f = 1..Len(f) /\ Len(f) \in Nat
    BY <1>2, <1>3, LenProperties
  <1>5. Len(f) = Len(s)
    BY <1>1, <1>4
  <1> QED BY <1>1, <1>3, <1>4, <1>5

\* The sweep of a poll changes a row's status only, never reopens a row, and
\* leaves a delivered row with an attempt to spare.
LEMMA SweptRowOf ==
    ASSUME NEW row \in Command, NEW t \in Nat
    PROVE  /\ Swept(row, t) \in Command
           /\ Swept(row, t).incident = row.incident
           /\ Swept(row, t).created = row.created
           /\ Swept(row, t).attempts = row.attempts
           /\ row.status \in Terminal => Swept(row, t).status = row.status
           /\ Swept(row, t).status \in {row.status} \cup {"EXPIRED", "FAILED"}
           /\ Swept(row, t).status = "EXPIRED" =>
                 row.status = "EXPIRED" \/ Expiry(row) <= t
           /\ Swept(row, t).status = "DELIVERED" => row.attempts < MaxCommandAttempts
  BY ServerConstants DEF Swept, Command, CommandStatus, Terminal, ExpiredAt, Expiry

LEMMA DeliveredRowOf ==
    ASSUME NEW row \in Command, NEW t \in Nat, row.attempts < MaxCommandAttempts
    PROVE  /\ Delivered(row, t) \in Command
           /\ Delivered(row, t).incident = row.incident
           /\ Delivered(row, t).created = row.created
           /\ Delivered(row, t).attempts > 0
           /\ Delivered(row, t).status = "DELIVERED"
  <1>1. /\ row.attempts + 1 \in 1..MaxCommandAttempts
        /\ row.attempts + 1 \in 0..MaxCommandAttempts
        /\ row.attempts + 1 > 0
    BY ServerConstants DEF Command
  <1>2. Backoff[row.attempts + 1] \in Nat
    BY <1>1, ServerConstants
  <1>3. t + Backoff[row.attempts + 1] \in Nat
    BY <1>2
  <1> DEFINE n == row.attempts + 1
             m == t + Backoff[row.attempts + 1]
  <1>4. n \in 0..MaxCommandAttempts /\ n > 0 /\ m \in Nat
    BY <1>1, <1>3
  <1>5. Delivered(row, t) = [row EXCEPT !.status = "DELIVERED", !.attempts = n, !.next = m]
    BY DEF Delivered
  <1> HIDE DEF n, m
  <1> QED BY <1>4, <1>5 DEF Command, CommandStatus

\* Preparing rows keeps everything but their delivery schedule.
LEMMA PreparedRows ==
    ASSUME commands \in Seq(Command), NEW S
    PROVE  /\ Prepared(S) \in [CommandIds -> Command]
           /\ \A c \in CommandIds :
                /\ Prepared(S)[c].incident = commands[c].incident
                /\ Prepared(S)[c].created = commands[c].created
                /\ Prepared(S)[c].status = commands[c].status
                /\ Prepared(S)[c].attempts = commands[c].attempts
  <1>1. \A c \in CommandIds : commands[c] \in Command
    BY LenProperties DEF CommandIds
  <1> QED BY <1>1 DEF Prepared, Command

-----------------------------------------------------------------------------
(* The inductive invariant *)

\* What a request in flight may rely on: a poll's clock reading is not ahead of
\* the clock, and an acknowledgement that will write EXPIRED has seen the
\* command's expiry pass.
InFlightJustified ==
    /\ \A w \in polls : w.at <= clock
    /\ \A w \in acks : w.write = "EXPIRED" =>
          /\ w.unprepared = {}
          /\ w.command \in CommandIds
          /\ Expiry(commands[w.command]) <= clock

ServerInv ==
    /\ TypeOK
    /\ UnlockedHasCommand
    /\ AttemptsExplained
    /\ InFlightJustified

\* No step takes a command away, moves it to another incident or changes its
\* creation time, and a settled command stays settled.
RowsKept ==
    \A c \in CommandIds :
        /\ c \in CommandIds'
        /\ commands'[c].incident = commands[c].incident
        /\ commands'[c].created = commands[c].created
        /\ commands[c].status \in Terminal => commands'[c].status \in Terminal

LEMMA CommandFacts ==
    ASSUME TypeOK
    PROVE  /\ Len(commands) \in Nat
           /\ CommandIds = 1..Len(commands)
           /\ \A c \in CommandIds : commands[c] \in Command /\ c \in 1..MaxCommands
  <1>1. Len(commands) \in Nat /\ DOMAIN commands = 1..Len(commands)
        /\ commands \in [1..Len(commands) -> Command]
    BY LenProperties DEF TypeOK
  <1> QED BY <1>1, ServerConstants DEF TypeOK, CommandIds

\* A step that rewrites rows in place keeps the invariant if each new row is
\* explained and the requests in flight only lose members.
LEMMA RowUpdate ==
    ASSUME ServerInv,
           commands' \in [CommandIds -> Command],
           RowsKept,
           AttemptsExplained',
           UNCHANGED <<clock, incidents, decisions>>,
           polls' \subseteq polls,
           acks' \subseteq acks
    PROVE  ServerInv'
  <1>1. /\ commands' \in Seq(Command)
        /\ Len(commands') = Len(commands)
        /\ CommandIds' = CommandIds
    BY FunctionIsSeq DEF ServerInv, TypeOK, CommandIds
  <1>2. TypeOK'
    BY <1>1 DEF ServerInv, TypeOK
  <1>3. UnlockedHasCommand'
    <2> SUFFICES ASSUME NEW i \in Incidents, incidents'[i].status = "UNLOCKED"
                 PROVE  \E c \in CommandIds' : commands'[c].incident = i
      BY DEF UnlockedHasCommand
    <2>1. PICK c \in CommandIds : commands[c].incident = i
      BY DEF ServerInv, UnlockedHasCommand
    <2> QED BY <2>1, <1>1 DEF RowsKept
  <1>4. InFlightJustified'
    BY <1>1 DEF ServerInv, InFlightJustified, RowsKept, Expiry
  <1> QED BY <1>2, <1>3, <1>4 DEF ServerInv

LEMMA PollWriteStep ==
    ASSUME ServerInv, NEW w \in polls, PollWrite(w)
    PROVE  ServerInv' /\ RowsKept
  <1> DEFINE P == Prepared(w.unprepared)
  <1>1. /\ P \in [CommandIds -> Command]
        /\ \A c \in CommandIds : /\ P[c].incident = commands[c].incident
                                 /\ P[c].created = commands[c].created
                                 /\ P[c].status = commands[c].status
                                 /\ P[c].attempts = commands[c].attempts
    BY PreparedRows DEF ServerInv, TypeOK
  <1>2. w.at \in Nat /\ w.at <= clock /\ clock \in Nat
    BY DEF ServerInv, TypeOK, Poll, InFlightJustified
  <1>3. \A c \in CommandIds :
          /\ SweptRow(w, c) \in Command
          /\ SweptRow(w, c).incident = commands[c].incident
          /\ SweptRow(w, c).created = commands[c].created
          /\ SweptRow(w, c).attempts = commands[c].attempts
          /\ commands[c].status \in Terminal => SweptRow(w, c).status = commands[c].status
          /\ SweptRow(w, c).status \in {commands[c].status} \cup {"EXPIRED", "FAILED"}
          /\ SweptRow(w, c).status = "EXPIRED" => Expiry(commands[c]) <= clock
    <2> TAKE c \in CommandIds
    <2>1. commands[c].status = "EXPIRED" => Expiry(commands[c]) <= clock
      BY DEF ServerInv, AttemptsExplained
    <2>2. P[c] \in Command /\ Expiry(P[c]) = Expiry(commands[c]) /\ Expiry(commands[c]) \in Nat
      BY <1>1, CommandFacts, ServerConstants DEF Expiry, ServerInv, Command
    <2>3. CASE CommandDevice(c) = w.device
      <3> DEFINE r == Swept(P[c], w.at)
      <3>1. SweptRow(w, c) = r
        BY <2>3 DEF SweptRow
      <3>2. /\ r \in Command
            /\ r.incident = P[c].incident
            /\ r.created = P[c].created
            /\ r.attempts = P[c].attempts
            /\ P[c].status \in Terminal => r.status = P[c].status
            /\ r.status \in {P[c].status} \cup {"EXPIRED", "FAILED"}
            /\ r.status = "EXPIRED" => P[c].status = "EXPIRED" \/ Expiry(P[c]) <= w.at
        BY <2>2, <1>2, SweptRowOf
      <3>3. r.status = "EXPIRED" => Expiry(commands[c]) <= clock
        BY <3>2, <2>1, <2>2, <1>1, <1>2
      <3> HIDE DEF r
      <3> QED BY <3>1, <3>2, <3>3, <1>1
    <2>4. CASE CommandDevice(c) # w.device
      BY <2>1, <2>2, <2>4, <1>1 DEF SweptRow
    <2> QED BY <2>3, <2>4
  <1>4. \A c \in Batch(w) :
          /\ c \in CommandIds
          /\ SweptRow(w, c).status \in {"PENDING", "DELIVERED"}
          /\ SweptRow(w, c).attempts < MaxCommandAttempts
    <2> TAKE c \in Batch(w)
    <2>1. c \in CommandIds /\ CommandDevice(c) = w.device /\ Due(c, SweptRow(w, c), w)
      BY DEF Batch
    <2>2. SweptRow(w, c) = Swept(P[c], w.at)
      BY <2>1 DEF SweptRow
    <2>3. SweptRow(w, c).status \in {"PENDING", "DELIVERED"}
      BY <2>1 DEF Due
    <2>4. CASE SweptRow(w, c).status = "DELIVERED"
      BY <1>1, <1>2, <2>1, <2>2, <2>4, <1>3, SweptRowOf
    <2>5. CASE SweptRow(w, c).status = "PENDING"
      <3>1. commands[c].status = "PENDING"
        BY <1>3, <2>1, <2>5
      <3>2. commands[c].attempts = 0
        BY <3>1, <2>1 DEF ServerInv, AttemptsExplained
      <3> QED BY <3>2, <2>1, <1>3, <2>3, ServerConstants
    <2> QED BY <2>1, <2>3, <2>4, <2>5
  <1>5. \A c \in CommandIds :
          commands'[c] = IF c \in Batch(w) THEN Delivered(SweptRow(w, c), w.at)
                                           ELSE SweptRow(w, c)
    BY DEF PollWrite
  <1>6. \A c \in CommandIds :
          /\ commands'[c] \in Command
          /\ commands'[c].incident = commands[c].incident
          /\ commands'[c].created = commands[c].created
          /\ c \in Batch(w) => commands'[c].status = "DELIVERED" /\ commands'[c].attempts > 0
    BY <1>2, <1>3, <1>4, <1>5, DeliveredRowOf
  <1>7. /\ commands' \in [CommandIds -> Command]
        /\ DOMAIN commands' = CommandIds
    BY <1>6 DEF PollWrite
  <1>8. CommandIds' = CommandIds
    BY <1>7 DEF CommandIds
  <1>9. \A c \in CommandIds : commands[c].status \in Terminal => c \notin Batch(w)
    BY <1>3, <1>4 DEF Terminal
  <1>10. RowsKept
    BY <1>3, <1>5, <1>6, <1>8, <1>9 DEF RowsKept
  <1>11. clock' = clock
    BY DEF PollWrite
  <1>12. AttemptsExplained'
    <2> SUFFICES ASSUME NEW c \in CommandIds
                 PROVE  /\ commands'[c].status = "PENDING" => commands'[c].attempts = 0
                        /\ commands'[c].status = "DELIVERED" => commands'[c].attempts > 0
                        /\ commands'[c].status = "EXPIRED" => Expiry(commands'[c]) <= clock
      BY <1>8, <1>11 DEF AttemptsExplained, Expiry
    <2>1. CASE c \in Batch(w)
      BY <2>1, <1>6
    <2>2. CASE c \notin Batch(w)
      <3>1. commands'[c] = SweptRow(w, c)
        BY <2>2, <1>5
      <3>2. Expiry(SweptRow(w, c)) = Expiry(commands[c])
        BY <1>3 DEF Expiry
      <3> QED BY <3>1, <3>2, <1>3 DEF ServerInv, AttemptsExplained
    <2> QED BY <2>1, <2>2
  <1>13. polls' \subseteq polls /\ acks' \subseteq acks
         /\ UNCHANGED <<clock, incidents, decisions>>
    BY DEF PollWrite
  <1> QED BY <1>7, <1>10, <1>12, <1>13, RowUpdate

-----------------------------------------------------------------------------
(* The other device steps *)

LEMMA AckWriteStep ==
    ASSUME ServerInv, NEW w \in acks, AckWrite(w)
    PROVE  ServerInv' /\ RowsKept
  <1>1. w.write \in Terminal /\ w.write \in CommandStatus
    BY DEF ServerInv, TypeOK, Ack, Terminal, CommandStatus
  <1>2. \A c \in CommandIds : commands[c] \in Command
    BY CommandFacts DEF ServerInv
  <1>3. /\ DOMAIN commands' = CommandIds
        /\ \A c \in CommandIds :
             commands'[c] = IF c = w.command THEN [commands[c] EXCEPT !.status = w.write]
                                             ELSE commands[c]
    BY DEF AckWrite, CommandIds
  <1>4. commands' \in [CommandIds -> Command]
    <2>1. \A c \in CommandIds : commands'[c] \in Command
      BY <1>1, <1>2, <1>3 DEF Command
    <2>2. commands' = [c \in CommandIds |-> commands'[c]]
      BY DEF AckWrite, CommandIds
    <2> QED BY <2>1, <2>2
  <1>5. CommandIds' = CommandIds
    BY <1>3 DEF CommandIds
  <1>6. RowsKept
    BY <1>1, <1>2, <1>3, <1>5 DEF RowsKept, Command
  <1>7. clock' = clock
    BY DEF AckWrite
  <1>8. AttemptsExplained'
    <2> SUFFICES ASSUME NEW c \in CommandIds
                 PROVE  /\ commands'[c].status = "PENDING" => commands'[c].attempts = 0
                        /\ commands'[c].status = "DELIVERED" => commands'[c].attempts > 0
                        /\ commands'[c].status = "EXPIRED" => Expiry(commands'[c]) <= clock
      BY <1>5, <1>7 DEF AttemptsExplained, Expiry
    <2>1. Expiry(commands'[c]) = Expiry(commands[c])
      BY <1>6 DEF RowsKept, Expiry
    <2>2. CASE c = w.command
      <3>1. commands'[c].status = w.write
        BY <1>2, <1>3, <2>2 DEF Command
      <3> QED BY <3>1, <2>1, <2>2, <1>1 DEF ServerInv, InFlightJustified, Terminal
    <2>3. CASE c # w.command
      BY <2>1, <2>3, <1>3 DEF ServerInv, AttemptsExplained
    <2> QED BY <2>2, <2>3
  <1>9. polls' \subseteq polls /\ acks' \subseteq acks
        /\ UNCHANGED <<clock, incidents, decisions>>
    BY DEF AckWrite
  <1> QED BY <1>4, <1>6, <1>8, <1>9, RowUpdate

LEMMA AckPreparingStep ==
    ASSUME ServerInv, NEW w \in acks, AckPreparing(w)
    PROVE  ServerInv' /\ RowsKept
  <1> DEFINE P == Prepared(w.unprepared)
             status == IF AckRefused(P[w.command], clock) THEN P[w.command].status
                       ELSE AckStatus(P[w.command], clock, w.write)
  <1>1. /\ P \in [CommandIds -> Command]
        /\ \A c \in CommandIds : /\ P[c].incident = commands[c].incident
                                 /\ P[c].created = commands[c].created
                                 /\ P[c].status = commands[c].status
                                 /\ P[c].attempts = commands[c].attempts
    BY PreparedRows DEF ServerInv, TypeOK
  <1>2. w.write \in {"ACKNOWLEDGED", "FAILED"}
    BY DEF AckPreparing, ServerInv, InFlightJustified, TypeOK, Ack
  <1>3. /\ DOMAIN commands' = CommandIds
        /\ commands' = [c \in CommandIds |-> commands'[c]]
        /\ \A c \in CommandIds :
             commands'[c] = IF c = w.command /\ ~AckRefused(P[w.command], clock)
                            THEN [P[c] EXCEPT !.status = AckStatus(P[c], clock, w.write)]
                            ELSE P[c]
    BY <1>1 DEF AckPreparing
  <1>4. \A row \in Command : ~AckRefused(row, clock) =>
          /\ AckStatus(row, clock, w.write) \in Terminal
          /\ AckStatus(row, clock, w.write) \in CommandStatus
          /\ AckStatus(row, clock, w.write) = "EXPIRED" =>
               row.status = "EXPIRED" \/ Expiry(row) <= clock
    BY <1>2 DEF AckRefused, AckStatus, ExpiredAt, Terminal, CommandStatus, Command
  <1>5. \A c \in CommandIds : P[c] \in Command
    BY <1>1
  <1>6. commands' \in [CommandIds -> Command]
    <2>1. \A c \in CommandIds : commands'[c] \in Command
      BY <1>3, <1>4, <1>5 DEF Command
    <2> QED BY <2>1, <1>3
  <1>7. CommandIds' = CommandIds
    BY <1>3 DEF CommandIds
  <1> HIDE DEF P
  <1>8. RowsKept
    BY <1>1, <1>3, <1>4, <1>5, <1>7 DEF RowsKept, Command
  <1>9. clock' = clock
    BY DEF AckPreparing
  <1>10. AttemptsExplained'
    <2> SUFFICES ASSUME NEW c \in CommandIds
                 PROVE  /\ commands'[c].status = "PENDING" => commands'[c].attempts = 0
                        /\ commands'[c].status = "DELIVERED" => commands'[c].attempts > 0
                        /\ commands'[c].status = "EXPIRED" => Expiry(commands'[c]) <= clock
      BY <1>7, <1>9 DEF AttemptsExplained, Expiry
    <2>1. /\ Expiry(commands'[c]) = Expiry(commands[c])
          /\ Expiry(P[c]) = Expiry(commands[c])
      BY <1>1, <1>8 DEF RowsKept, Expiry
    <2>2. /\ commands[c].status = "PENDING" => commands[c].attempts = 0
          /\ commands[c].status = "DELIVERED" => commands[c].attempts > 0
          /\ commands[c].status = "EXPIRED" => Expiry(commands[c]) <= clock
      BY DEF ServerInv, AttemptsExplained
    <2>3. CASE c = w.command /\ ~AckRefused(P[w.command], clock)
      <3>1. commands'[c].status = AckStatus(P[c], clock, w.write)
        BY <1>3, <1>5, <2>3 DEF Command
      <3> QED BY <3>1, <2>1, <2>2, <2>3, <1>1, <1>4, <1>5 DEF Terminal
    <2>4. CASE ~(c = w.command /\ ~AckRefused(P[w.command], clock))
      BY <2>1, <2>2, <2>4, <1>1, <1>3
    <2> QED BY <2>3, <2>4
  <1>11. polls' \subseteq polls /\ acks' \subseteq acks
        /\ UNCHANGED <<clock, incidents, decisions>>
    BY DEF AckPreparing
  <1> QED BY <1>6, <1>8, <1>10, <1>11, RowUpdate

LEMMA LegacyAcknowledgeStep ==
    ASSUME ServerInv, NEW c \in CommandIds, LegacyAcknowledge(c)
    PROVE  ServerInv' /\ RowsKept
  <1>1. \A e \in CommandIds : commands[e] \in Command
    BY CommandFacts DEF ServerInv
  <1>2. /\ DOMAIN commands' = CommandIds
        /\ commands' = [e \in CommandIds |-> commands'[e]]
        /\ \A e \in CommandIds :
             commands'[e] = IF e = c THEN [commands[e] EXCEPT !.status = "ACKNOWLEDGED"]
                                     ELSE commands[e]
    BY DEF LegacyAcknowledge, CommandIds
  <1>3. commands' \in [CommandIds -> Command]
    <2>1. \A e \in CommandIds : commands'[e] \in Command
      BY <1>1, <1>2 DEF Command, CommandStatus
    <2> QED BY <2>1, <1>2
  <1>4. CommandIds' = CommandIds /\ clock' = clock
    BY <1>2 DEF CommandIds, LegacyAcknowledge
  <1>5. RowsKept
    BY <1>1, <1>2, <1>4 DEF RowsKept, Command, Terminal
  <1>6. AttemptsExplained'
    BY <1>1, <1>2, <1>4, <1>5 DEF AttemptsExplained, ServerInv, Expiry, RowsKept, Command
  <1>7. polls' \subseteq polls /\ acks' \subseteq acks
        /\ UNCHANGED <<clock, incidents, decisions>>
    BY DEF LegacyAcknowledge
  <1> QED BY <1>3, <1>5, <1>6, <1>7, RowUpdate

\* Steps that leave the command table alone.
LEMMA NoRowStep ==
    ASSUME ServerInv, UNCHANGED <<clock, incidents, commands>>,
           decisions' \subseteq decisions, polls' \subseteq polls, acks' \subseteq acks
    PROVE  ServerInv' /\ RowsKept
  <1> QED BY DEF ServerInv, TypeOK, UnlockedHasCommand, AttemptsExplained,
              InFlightJustified, RowsKept, CommandIds, Expiry

LEMMA PollReadStep ==
    ASSUME ServerInv, NEW h \in DeviceHandlers, NEW d \in Devices,
           NEW after \in 0..Len(commands), PollRead(h, d, after)
    PROVE  ServerInv' /\ RowsKept
  <1> DEFINE p == [handler |-> h, device |-> d, after |-> after, at |-> clock,
                   unprepared |-> Unprepared]
  <1>1. p \in Poll /\ p.at = clock
    BY CommandFacts DEF Poll, ServerInv, TypeOK, Unprepared
  <1>2. polls' = polls \cup {p} /\ UNCHANGED <<clock, incidents, commands, decisions, acks>>
    BY DEF PollRead
  <1> HIDE DEF p
  <1> QED BY <1>1, <1>2 DEF ServerInv, TypeOK, UnlockedHasCommand, AttemptsExplained,
              InFlightJustified, RowsKept, CommandIds, Expiry

LEMMA AckReadStep ==
    ASSUME ServerInv, NEW h \in DeviceHandlers, NEW c \in CommandIds,
           NEW reported \in {"ACKNOWLEDGED", "FAILED"}, AckRead(h, c, reported)
    PROVE  ServerInv' /\ RowsKept
  <1> DEFINE a == [handler |-> h, command |-> c, unprepared |-> Unprepared,
                   write |-> IF Unprepared = {} THEN AckStatus(commands[c], clock, reported)
                                                ELSE reported]
  <1>1. a \in Ack /\ a.command = c /\ a.unprepared = Unprepared
    BY CommandFacts DEF Ack, ServerInv, Unprepared, AckStatus
  <1>2. a.write = "EXPIRED" => a.unprepared = {} /\ Expiry(commands[c]) <= clock
    BY DEF AckStatus, ExpiredAt, ServerInv, AttemptsExplained
  <1>3. acks' = acks \cup {a} /\ UNCHANGED <<clock, incidents, commands, decisions, polls>>
    BY DEF AckRead
  <1> HIDE DEF a
  <1> QED BY <1>1, <1>2, <1>3 DEF ServerInv, TypeOK, UnlockedHasCommand, AttemptsExplained,
              InFlightJustified, RowsKept, CommandIds, Expiry

LEMMA TickStep ==
    ASSUME ServerInv, Tick
    PROVE  ServerInv' /\ RowsKept
  <1>1. clock \in Nat /\ clock' = clock + 1
        /\ UNCHANGED <<incidents, commands, decisions, polls, acks>>
    BY DEF ServerInv, TypeOK, Tick
  <1>2. \A c \in CommandIds : Expiry(commands[c]) \in Nat
    BY CommandFacts, ServerConstants DEF ServerInv, Command, Expiry
  <1>3. \A w \in polls : w.at \in Nat
    BY DEF ServerInv, TypeOK, Poll
  <1>4. AttemptsExplained' /\ InFlightJustified'
    BY <1>1, <1>2, <1>3 DEF ServerInv, AttemptsExplained, InFlightJustified, CommandIds, Expiry
  <1> QED BY <1>1, <1>4 DEF ServerInv, TypeOK, UnlockedHasCommand, RowsKept, CommandIds

-----------------------------------------------------------------------------
(* Incidents and parent steps *)

LEMMA InsertIncidentType ==
    ASSUME TypeOK, NEW d \in Devices, NEW k \in Keys, NEW i \in Incidents,
           NEW blocked \in BOOLEAN, NEW replay \in BOOLEAN,
           InsertIncident(d, k, i, blocked, replay)
    PROVE  /\ incidents' \in [Incidents -> Incident]
           /\ incidents'[i].status \in {"BLOCKED", "DETECTED"}
           /\ incidents'[i].device = d /\ incidents'[i].key = k
           /\ incidents'[i].replay = replay
           /\ \A j \in Incidents : j # i => incidents'[j] = incidents[j]
  BY DEF TypeOK, InsertIncident, Incident, IncidentStatus

LEMMA CreateIncidentStep ==
    ASSUME ServerInv, NEW d \in Devices, NEW k \in Keys, NEW i \in Incidents,
           NEW blocked \in BOOLEAN, CreateIncident(d, k, i, blocked)
    PROVE  ServerInv' /\ RowsKept
  <1>1. UNCHANGED <<clock, commands, decisions, polls, acks>>
    BY DEF CreateIncident
  <1>2. /\ incidents' \in [Incidents -> Incident]
        /\ \A j \in Incidents :
             incidents'[j].status = "UNLOCKED" => incidents[j].status = "UNLOCKED"
    <2>1. CASE \E replay \in BOOLEAN : InsertIncident(d, k, i, blocked, replay)
      BY <2>1, InsertIncidentType DEF ServerInv
    <2>2. CASE UNCHANGED incidents
      BY <2>2 DEF ServerInv, TypeOK
    <2> QED BY <2>1, <2>2 DEF CreateIncident
  <1> QED BY <1>1, <1>2 DEF ServerInv, TypeOK, UnlockedHasCommand, AttemptsExplained,
              InFlightJustified, RowsKept, CommandIds, Expiry

LEMMA DecisionReadStep ==
    ASSUME ServerInv, NEW h \in ParentHandlers, NEW i \in Incidents,
           NEW op \in {"request_unlock", "unlock", "keep_blocked"}, DecisionRead(h, op, i)
    PROVE  ServerInv' /\ RowsKept
  <1> DEFINE w == [handler |-> h, op |-> op, incident |-> i,
                   created |-> IF op = "unlock" THEN clock ELSE 0]
  <1>1. w \in Decision
    BY DEF Decision, ServerInv, TypeOK
  <1>2. decisions' = decisions \cup {w} /\ UNCHANGED <<clock, incidents, commands, polls, acks>>
    BY DEF DecisionRead
  <1> HIDE DEF w
  <1> QED BY <1>1, <1>2 DEF ServerInv, TypeOK, UnlockedHasCommand, AttemptsExplained,
              InFlightJustified, RowsKept, CommandIds, Expiry

LEMMA SetStatusType ==
    ASSUME TypeOK, NEW i \in Incidents, NEW s \in IncidentStatus, SetIncidentStatus(i, s)
    PROVE  /\ incidents' \in [Incidents -> Incident]
           /\ incidents'[i].status = s
           /\ incidents'[i].device = incidents[i].device
           /\ incidents'[i].key = incidents[i].key
           /\ incidents'[i].replay = incidents[i].replay
           /\ \A j \in Incidents : j # i => incidents'[j] = incidents[j]
  BY DEF TypeOK, SetIncidentStatus, Incident

LEMMA NoOrderStep ==
    ASSUME ServerInv, NEW w \in decisions, RequestUnlockWrite(w) \/ KeepBlockedWrite(w)
    PROVE  ServerInv' /\ RowsKept
  <1>1. w.incident \in Incidents
    BY DEF ServerInv, TypeOK, Decision
  <1>2. PICK s \in {"UNLOCK_REQUESTED", "KEPT_BLOCKED"} : SetIncidentStatus(w.incident, s)
    BY DEF RequestUnlockWrite, KeepBlockedWrite
  <1>3. /\ incidents' \in [Incidents -> Incident]
        /\ \A j \in Incidents :
             incidents'[j].status = "UNLOCKED" => incidents[j].status = "UNLOCKED"
    BY <1>1, <1>2, SetStatusType DEF ServerInv, IncidentStatus
  <1>4. decisions' \subseteq decisions /\ UNCHANGED <<clock, commands, polls, acks>>
    BY DEF RequestUnlockWrite, KeepBlockedWrite
  <1> QED BY <1>3, <1>4 DEF ServerInv, TypeOK, UnlockedHasCommand, AttemptsExplained,
              InFlightJustified, RowsKept, CommandIds, Expiry

\* The unlock appends one row and leaves the others as they are.
LEMMA UnlockAppends ==
    ASSUME ServerInv, NEW w \in decisions, UnlockWrite(w)
    PROVE  LET n == Len(commands) + 1 IN
           /\ w.incident \in Incidents
           /\ commands' \in Seq(Command)
           /\ Len(commands') = n
           /\ n <= MaxCommands
           /\ CommandIds' = CommandIds \cup {n}
           /\ n \notin CommandIds
           /\ commands'[n] = NewCommand(w.incident, w.created)
           /\ \A c \in CommandIds : commands'[c] = commands[c]
           /\ incidents' \in [Incidents -> Incident]
           /\ incidents'[w.incident].status = "UNLOCKED"
           /\ incidents'[w.incident].device = incidents[w.incident].device
           /\ incidents'[w.incident].key = incidents[w.incident].key
           /\ incidents'[w.incident].replay = incidents[w.incident].replay
           /\ \A j \in Incidents : j # w.incident => incidents'[j] = incidents[j]
  <1>1. w.incident \in Incidents /\ w.created \in Nat
    BY DEF ServerInv, TypeOK, Decision
  <1>2. NewCommand(w.incident, w.created) \in Command
    BY <1>1, ServerConstants DEF NewCommand, Command, CommandStatus
  <1>3. commands' = Append(commands, NewCommand(w.incident, w.created))
        /\ Len(commands) < MaxCommands /\ commands \in Seq(Command)
    BY DEF UnlockWrite, ServerInv, TypeOK
  <1>4. Len(commands) \in Nat /\ CommandIds = 1..Len(commands)
    BY CommandFacts DEF ServerInv
  <1>5. /\ commands' \in Seq(Command)
        /\ Len(commands') = Len(commands) + 1
        /\ commands'[Len(commands) + 1] = NewCommand(w.incident, w.created)
        /\ \A c \in 1..Len(commands) : commands'[c] = commands[c]
    BY <1>2, <1>3, AppendProperties
  <1>6. CommandIds' = 1..(Len(commands) + 1)
    BY <1>5, LenProperties DEF CommandIds
  <1>7. SetIncidentStatus(w.incident, "UNLOCKED")
    BY DEF UnlockWrite
  <1>8. /\ incidents' \in [Incidents -> Incident]
        /\ incidents'[w.incident].status = "UNLOCKED"
        /\ incidents'[w.incident].device = incidents[w.incident].device
        /\ incidents'[w.incident].key = incidents[w.incident].key
        /\ incidents'[w.incident].replay = incidents[w.incident].replay
        /\ \A j \in Incidents : j # w.incident => incidents'[j] = incidents[j]
    BY <1>1, <1>7, SetStatusType DEF ServerInv, IncidentStatus
  <1>9. /\ 1..(Len(commands) + 1) = 1..Len(commands) \cup {Len(commands) + 1}
        /\ Len(commands) + 1 \notin 1..Len(commands)
        /\ Len(commands) + 1 <= MaxCommands
    BY <1>3, <1>4, ServerConstants
  <1> QED BY <1>1, <1>4, <1>5, <1>6, <1>8, <1>9

LEMMA UnlockWriteStep ==
    ASSUME ServerInv, NEW w \in decisions, UnlockWrite(w)
    PROVE  ServerInv' /\ RowsKept
  <1> DEFINE n == Len(commands) + 1
  <1>1. UNCHANGED <<clock, polls, acks>> /\ decisions' \subseteq decisions
    BY DEF UnlockWrite
  <1>2. commands'[n].status = "PENDING" /\ commands'[n].attempts = 0
        /\ commands'[n].incident = w.incident
    <2>1. commands'[n] = NewCommand(w.incident, w.created)
      BY UnlockAppends
    <2> HIDE DEF n
    <2> QED BY <2>1 DEF NewCommand
  <1>3. TypeOK'
    BY <1>1, UnlockAppends DEF ServerInv, TypeOK
  <1>4. RowsKept
    BY UnlockAppends DEF RowsKept
  <1>5. UnlockedHasCommand'
    <2> SUFFICES ASSUME NEW i \in Incidents, incidents'[i].status = "UNLOCKED"
                 PROVE  \E c \in CommandIds' : commands'[c].incident = i
      BY DEF UnlockedHasCommand
    <2>1. CASE i = w.incident
      BY <2>1, <1>2, UnlockAppends
    <2>2. CASE i # w.incident
      <3>1. incidents[i].status = "UNLOCKED"
        BY <2>2, UnlockAppends
      <3>2. PICK c \in CommandIds : commands[c].incident = i
        BY <3>1 DEF ServerInv, UnlockedHasCommand
      <3> QED BY <3>2, UnlockAppends
    <2> QED BY <2>1, <2>2
  <1>6. AttemptsExplained'
    <2> SUFFICES ASSUME NEW c \in CommandIds'
                 PROVE  /\ commands'[c].status = "PENDING" => commands'[c].attempts = 0
                        /\ commands'[c].status = "DELIVERED" => commands'[c].attempts > 0
                        /\ commands'[c].status = "EXPIRED" => Expiry(commands'[c]) <= clock
      BY <1>1 DEF AttemptsExplained, Expiry
    <2>1. CASE c = n
      BY <2>1, <1>2
    <2>2. CASE c # n
      <3>1. c \in CommandIds /\ commands'[c] = commands[c]
        BY <2>2, UnlockAppends
      <3> QED BY <3>1 DEF ServerInv, AttemptsExplained
    <2> QED BY <2>1, <2>2
  <1>7. InFlightJustified'
    BY <1>1, UnlockAppends DEF ServerInv, InFlightJustified, Expiry
  <1> QED BY <1>3, <1>4, <1>5, <1>6, <1>7 DEF ServerInv

-----------------------------------------------------------------------------
(* Theorems for any number of concurrent requests *)

LEMMA ServerInvInit == Init => ServerInv
  <1> SUFFICES ASSUME Init PROVE ServerInv
    OBVIOUS
  <1>1. NoRow \in Incident
    BY ServerConstants DEF NoRow, Incident, IncidentStatus
  <1>2. commands = <<>> /\ commands \in Seq(Command) /\ Len(commands) = 0 /\ CommandIds = {}
    BY EmptySeq DEF Init, CommandIds
  <1>3. TypeOK
    BY <1>1, <1>2, ServerConstants DEF Init, TypeOK
  <1>4. UnlockedHasCommand
    BY <1>1 DEF Init, UnlockedHasCommand, NoRow
  <1> QED BY <1>2, <1>3, <1>4 DEF Init, ServerInv, AttemptsExplained, InFlightJustified

LEMMA ServerInvStep == ServerInv /\ [Next]_vars => ServerInv' /\ RowsKept
  <1> SUFFICES ASSUME ServerInv, [Next]_vars PROVE ServerInv' /\ RowsKept
    OBVIOUS
  <1>1. CASE ParentRequest
    BY <1>1, DecisionReadStep DEF ParentRequest
  <1>2. CASE ParentCommit
    BY <1>2, NoOrderStep, UnlockWriteStep DEF ParentCommit
  <1>3. CASE DeviceReport
    BY <1>3, CreateIncidentStep DEF DeviceReport
  <1>4. CASE DevicePoll
    BY <1>4, PollReadStep DEF DevicePoll
  <1>5. CASE PollCommit
    <2>1. PICK w \in polls : PollWrite(w) \/ PollConflict(w)
      BY <1>5 DEF PollCommit
    <2>2. CASE PollWrite(w)
      BY <2>2, PollWriteStep
    <2>3. CASE PollConflict(w)
      BY <2>3, NoRowStep DEF PollConflict
    <2> QED BY <2>1, <2>2, <2>3
  <1>6. CASE DeviceAck
    BY <1>6, AckReadStep DEF DeviceAck
  <1>7. CASE AckCommit
    <2>1. PICK w \in acks : AckWrite(w) \/ AckPreparing(w) \/ AckConflict(w)
      BY <1>7 DEF AckCommit
    <2>2. CASE AckConflict(w)
      BY <2>2, NoRowStep DEF AckConflict
    <2> QED BY <2>1, <2>2, AckWriteStep, AckPreparingStep
  <1>8. CASE \E c \in CommandIds : LegacyAcknowledge(c)
    BY <1>8, LegacyAcknowledgeStep
  <1>9. CASE Tick
    BY <1>9, TickStep
  <1>10. CASE ApiRestart
    BY <1>10, NoRowStep DEF ApiRestart
  <1>11. CASE UNCHANGED vars
    BY <1>11, NoRowStep DEF vars
  <1> QED BY <1>1, <1>2, <1>3, <1>4, <1>5, <1>6, <1>7, <1>8, <1>9, <1>10, <1>11 DEF Next

THEOREM ServerInvariant == Spec => []ServerInv
  BY ServerInvInit, ServerInvStep, PTL DEF Spec

\* Every reachable state is well typed, whatever requests are in flight.
THEOREM TypeCorrect == Spec => []TypeOK
  BY ServerInvariant, PTL DEF ServerInv

\* An UNLOCKED incident always has the order that carries the unlock out, for
\* any number of racing parents, devices, restarts and commands.
THEOREM UnlockNeverWithoutCommand == Spec => []UnlockedHasCommand
  BY ServerInvariant, PTL DEF ServerInv

\* Attempts and expiry account for every command's status, however many polls
\* and acknowledgements overlap.
THEOREM AttemptsAlwaysExplained == Spec => []AttemptsExplained
  BY ServerInvariant, PTL DEF ServerInv

\* No stale poll or acknowledgement puts a settled command back in the queue.
THEOREM SettledForGood == Spec => TerminalForGood
  <1>1. RowsKept =>
          \A c \in CommandIds :
            commands[c].status \in Terminal => commands'[c].status \in Terminal
    BY DEF RowsKept
  <1>2. ServerInv /\ [Next]_vars =>
          [\A c \in CommandIds :
            commands[c].status \in Terminal => commands'[c].status \in Terminal]_vars
    BY <1>1, ServerInvStep
  <1> QED BY <1>2, ServerInvariant, PTL DEF Spec, TerminalForGood

-----------------------------------------------------------------------------
(* One parent request at a time *)

OneParent == \A g, h \in ParentHandlers : g = h

\* With a single request in flight, what it read still holds when it writes;
\* hence decisions are final and every command has an incident of its own.
SerialInv ==
    /\ ServerInv
    /\ \A v, w \in decisions : v = w
    /\ \A w \in decisions : incidents[w.incident].status \in Undecided
    /\ CommandMeansUnlocked
    /\ OneCommandPerIncident
    /\ ReplayAfterUnlock

\* How an incident may change: not at all, from absent to reported, or from
\* undecided to a later status by a request that saw it undecided.
IncidentStep ==
    \A i \in Incidents :
        \/ incidents'[i] = incidents[i]
        \/ /\ incidents[i].status = "NONE"
           /\ incidents'[i].status \in {"DETECTED", "BLOCKED"}
        \/ /\ incidents[i].status \in Undecided
           /\ incidents'[i].status \in {"UNLOCK_REQUESTED", "UNLOCKED", "KEPT_BLOCKED"}
           /\ incidents'[i].device = incidents[i].device
           /\ incidents'[i].key = incidents[i].key
           /\ incidents'[i].replay = incidents[i].replay

\* Steps that touch neither incidents nor the set of commands.
LEMMA SerialDeviceStep ==
    ASSUME SerialInv, ServerInv', RowsKept, CommandIds' = CommandIds,
           UNCHANGED incidents, decisions' \subseteq decisions
    PROVE  SerialInv' /\ IncidentStep
  <1>1. CommandMeansUnlocked' /\ OneCommandPerIncident'
    BY DEF SerialInv, CommandMeansUnlocked, OneCommandPerIncident, RowsKept
  <1>2. ReplayAfterUnlock'
    BY DEF SerialInv, ReplayAfterUnlock, Originals
  <1> QED BY <1>1, <1>2 DEF SerialInv, IncidentStep

\* Steps that change the incident table and nothing about commands.
LEMMA SerialIncidentStep ==
    ASSUME SerialInv, ServerInv', IncidentStep, ReplayAfterUnlock',
           UNCHANGED commands,
           \A i \in Incidents : incidents[i].status = "UNLOCKED" => incidents'[i] = incidents[i],
           \A v, w \in decisions' : v = w,
           \A w \in decisions' : incidents'[w.incident].status \in Undecided
    PROVE  SerialInv'
  <1>1. \A c \in CommandIds : commands[c].incident \in Incidents
    BY CommandFacts DEF SerialInv, ServerInv, Command
  <1>2. CommandMeansUnlocked' /\ OneCommandPerIncident'
    BY <1>1 DEF SerialInv, CommandMeansUnlocked, OneCommandPerIncident, CommandIds
  <1> QED BY <1>2 DEF SerialInv

\* An unlocked original keeps the replay rows it justifies.
Justifies(o, j) ==
    /\ incidents[o].status = "UNLOCKED"
    /\ incidents[o].device = incidents[j].device
    /\ incidents[o].key = incidents[j].key
    /\ ~incidents[o].replay

LEMMA ReplayUnfolded ==
    /\ ReplayAfterUnlock <=>
         \A j \in Incidents : incidents[j].replay => \E o \in Incidents : Justifies(o, j)
    /\ ReplayAfterUnlock' <=>
         \A j \in Incidents : incidents'[j].replay => \E o \in Incidents : Justifies(o, j)'
  BY DEF ReplayAfterUnlock, Originals, Justifies

LEMMA OriginalsStay ==
    ASSUME SerialInv,
           \A i \in Incidents : incidents[i].status = "UNLOCKED" => incidents'[i] = incidents[i],
           NEW j \in Incidents, incidents[j].replay,
           incidents'[j].device = incidents[j].device,
           incidents'[j].key = incidents[j].key
    PROVE  \E o \in Incidents : Justifies(o, j)'
  <1>1. PICK o \in Incidents : Justifies(o, j)
    BY ReplayUnfolded DEF SerialInv
  <1>2. incidents'[o] = incidents[o]
    BY <1>1 DEF Justifies
  <1> QED BY <1>1, <1>2 DEF Justifies

LEMMA SerialCreateIncident ==
    ASSUME SerialInv, ServerInv', NEW d \in Devices, NEW k \in Keys, NEW i \in Incidents,
           NEW blocked \in BOOLEAN, CreateIncident(d, k, i, blocked)
    PROVE  SerialInv' /\ IncidentStep
  <1>1. UNCHANGED <<commands, decisions>>
    BY DEF CreateIncident
  <1>2. CASE UNCHANGED incidents
    <2>1. ReplayAfterUnlock'
      BY <1>2 DEF SerialInv, ReplayAfterUnlock, Originals
    <2> QED BY <1>1, <1>2, <2>1, SerialIncidentStep DEF SerialInv, IncidentStep
  <1>3. ASSUME NEW replay \in BOOLEAN, InsertIncident(d, k, i, blocked, replay),
               replay => \E o \in Originals(d, k) : incidents[o].status = "UNLOCKED"
        PROVE  SerialInv' /\ IncidentStep
    <2>1. /\ incidents[i].status = "NONE"
          /\ incidents'[i].status \in {"BLOCKED", "DETECTED"}
          /\ incidents'[i].device = d /\ incidents'[i].key = k
          /\ incidents'[i].replay = replay
          /\ \A j \in Incidents : j # i => incidents'[j] = incidents[j]
      <3>1. TypeOK
        BY DEF SerialInv, ServerInv
      <3>2. incidents[i].status = "NONE"
        BY <1>3 DEF InsertIncident
      <3> HIDE DEF InsertIncident
      <3> QED BY <1>3, <3>1, <3>2, InsertIncidentType
    <2>2. IncidentStep
      BY <2>1 DEF IncidentStep
    <2>3. \A j \in Incidents : incidents[j].status = "UNLOCKED" => incidents'[j] = incidents[j]
      BY <2>1
    <2>4. ReplayAfterUnlock'
      <3> SUFFICES ASSUME NEW j \in Incidents, incidents'[j].replay
                   PROVE  \E o \in Incidents : Justifies(o, j)'
        BY ReplayUnfolded
      <3>1. CASE j # i
        BY <3>1, <2>1, <2>3, OriginalsStay
      <3>2. CASE j = i
        <4>1. PICK o \in Originals(d, k) : incidents[o].status = "UNLOCKED"
          BY <1>3, <2>1, <3>2
        <4>2. /\ o \in Incidents /\ incidents'[o] = incidents[o]
              /\ incidents[o].device = d /\ incidents[o].key = k
              /\ ~incidents[o].replay
          BY <4>1, <2>3 DEF Originals
        <4> QED BY <4>1, <4>2, <2>1, <3>2 DEF Justifies
      <3> QED BY <3>1, <3>2
    <2>5. \A w \in decisions' : incidents'[w.incident].status \in Undecided
      BY <1>1, <2>1 DEF SerialInv, Undecided, ServerInv, TypeOK, Decision
    <2> QED BY <1>1, <2>2, <2>3, <2>4, <2>5, SerialIncidentStep DEF SerialInv
  <1> QED BY <1>2, <1>3 DEF CreateIncident

LEMMA SerialDecisionRead ==
    ASSUME OneParent, SerialInv, ServerInv', NEW h \in ParentHandlers, NEW i \in Incidents,
           NEW op \in {"request_unlock", "unlock", "keep_blocked"}, DecisionRead(h, op, i)
    PROVE  SerialInv' /\ IncidentStep
  <1>1. decisions = {}
    BY DEF DecisionRead, ParentIdle, OneParent, SerialInv, ServerInv, TypeOK, Decision
  <1>2. UNCHANGED <<incidents, commands>>
    BY DEF DecisionRead
  <1>3. /\ \A v, w \in decisions' : v = w
        /\ \A w \in decisions' : incidents'[w.incident].status \in Undecided
    BY <1>1, <1>2 DEF DecisionRead
  <1>4. ReplayAfterUnlock' /\ IncidentStep
    BY <1>2 DEF SerialInv, ReplayAfterUnlock, Originals, IncidentStep
  <1> QED BY <1>2, <1>3, <1>4, SerialIncidentStep

\* A decision written by the only request in flight.
LEMMA SerialDecided ==
    ASSUME SerialInv, NEW w \in decisions, NEW s \in {"UNLOCK_REQUESTED", "UNLOCKED", "KEPT_BLOCKED"},
           SetIncidentStatus(w.incident, s)
    PROVE  /\ IncidentStep
           /\ ReplayAfterUnlock'
           /\ \A i \in Incidents :
                incidents[i].status = "UNLOCKED" => incidents'[i] = incidents[i]
           /\ \A j \in Incidents : j # w.incident => incidents'[j] = incidents[j]
           /\ w.incident \in Incidents /\ incidents'[w.incident].status = s
           /\ \A c \in CommandIds : commands[c].incident # w.incident
  <1>1. w.incident \in Incidents /\ incidents[w.incident].status \in Undecided
    BY DEF SerialInv, ServerInv, TypeOK, Decision
  <1>2. /\ incidents'[w.incident].status = s
        /\ incidents'[w.incident].device = incidents[w.incident].device
        /\ incidents'[w.incident].key = incidents[w.incident].key
        /\ incidents'[w.incident].replay = incidents[w.incident].replay
        /\ \A j \in Incidents : j # w.incident => incidents'[j] = incidents[j]
    BY <1>1, SetStatusType DEF SerialInv, ServerInv, IncidentStatus
  <1>3. IncidentStep
    BY <1>1, <1>2 DEF IncidentStep
  <1>4. \A i \in Incidents : incidents[i].status = "UNLOCKED" => incidents'[i] = incidents[i]
    BY <1>1, <1>2 DEF Undecided
  <1>5. ReplayAfterUnlock'
    <2> SUFFICES ASSUME NEW j \in Incidents, incidents'[j].replay
                 PROVE  \E o \in Incidents : Justifies(o, j)'
      BY ReplayUnfolded
    <2>1. /\ incidents[j].replay
          /\ incidents'[j].device = incidents[j].device
          /\ incidents'[j].key = incidents[j].key
      BY <1>2
    <2> QED BY <2>1, <1>4, OriginalsStay
  <1>6. \A c \in CommandIds : commands[c].incident # w.incident
    BY <1>1 DEF SerialInv, CommandMeansUnlocked, Undecided
  <1> QED BY <1>1, <1>2, <1>3, <1>4, <1>5, <1>6

LEMMA SerialUnlock ==
    ASSUME SerialInv, ServerInv', RowsKept, NEW w \in decisions, UnlockWrite(w)
    PROVE  SerialInv' /\ IncidentStep
  <1> DEFINE n == Len(commands) + 1
             row == NewCommand(w.incident, w.created)
  <1>1. /\ CommandIds' = CommandIds \cup {n}
        /\ commands'[n] = row
        /\ \A c \in CommandIds : commands'[c] = commands[c]
        /\ decisions' = decisions \ {w}
    BY UnlockAppends DEF SerialInv, UnlockWrite
  <1>2. row.incident = w.incident
    BY DEF NewCommand
  <1>3. SetIncidentStatus(w.incident, "UNLOCKED")
    BY DEF UnlockWrite
  <1>4. /\ IncidentStep /\ ReplayAfterUnlock'
        /\ \A i \in Incidents : incidents[i].status = "UNLOCKED" => incidents'[i] = incidents[i]
        /\ incidents'[w.incident].status = "UNLOCKED"
        /\ \A c \in CommandIds : commands[c].incident # w.incident
    BY <1>3, SerialDecided
  <1>5. decisions' = {}
    BY <1>1 DEF SerialInv
  <1>6. \A c \in CommandIds : commands[c].incident \in Incidents
    BY CommandFacts DEF SerialInv, ServerInv, Command
  <1> HIDE DEF n, row
  <1>7. CommandMeansUnlocked'
    BY <1>1, <1>2, <1>4, <1>6 DEF SerialInv, CommandMeansUnlocked
  <1>8. OneCommandPerIncident'
    BY <1>1, <1>2, <1>4 DEF SerialInv, OneCommandPerIncident
  <1> QED BY <1>4, <1>5, <1>7, <1>8 DEF SerialInv

LEMMA SerialOther ==
    ASSUME SerialInv, ServerInv', NEW w \in decisions,
           RequestUnlockWrite(w) \/ KeepBlockedWrite(w)
    PROVE  SerialInv' /\ IncidentStep
  <1>1. PICK s \in {"UNLOCK_REQUESTED", "KEPT_BLOCKED"} : SetIncidentStatus(w.incident, s)
    BY DEF RequestUnlockWrite, KeepBlockedWrite
  <1>2. UNCHANGED commands /\ decisions' = {}
    BY DEF SerialInv, RequestUnlockWrite, KeepBlockedWrite
  <1>3. /\ IncidentStep /\ ReplayAfterUnlock'
        /\ \A i \in Incidents : incidents[i].status = "UNLOCKED" => incidents'[i] = incidents[i]
    BY <1>1, SerialDecided
  <1> QED BY <1>2, <1>3, SerialIncidentStep

LEMMA SerialInit == Init => SerialInv
  <1> SUFFICES ASSUME Init PROVE SerialInv
    OBVIOUS
  <1>1. CommandIds = {} /\ decisions = {} /\ \A i \in Incidents : ~incidents[i].replay
    BY DEF Init, CommandIds, NoRow
  <1> QED BY <1>1, ServerInvInit
          DEF SerialInv, CommandMeansUnlocked, OneCommandPerIncident, ReplayAfterUnlock

\* The device's own steps rewrite rows in place.
LEMMA DeviceKeepsIds ==
    ASSUME TypeOK,
           \/ PollCommit \/ AckCommit \/ DevicePoll \/ DeviceAck
           \/ \E c \in CommandIds : LegacyAcknowledge(c)
    PROVE  CommandIds' = CommandIds /\ UNCHANGED <<incidents, decisions>>
  <1>1. CASE PollCommit
    BY <1>1 DEF PollCommit, PollWrite, PollConflict, CommandIds
  <1>2. CASE AckCommit
    <2>1. PICK w \in acks : AckWrite(w) \/ AckPreparing(w) \/ AckConflict(w)
      BY <1>2 DEF AckCommit
    <2>2. CASE AckWrite(w)
      BY <2>2 DEF AckWrite, CommandIds
    <2>3. CASE AckPreparing(w)
      BY <2>3 DEF AckPreparing, Prepared, CommandIds
    <2>4. CASE AckConflict(w)
      BY <2>4 DEF AckConflict, CommandIds
    <2> QED BY <2>1, <2>2, <2>3, <2>4
  <1>3. CASE DevicePoll
    BY <1>3 DEF DevicePoll, PollRead, CommandIds
  <1>4. CASE DeviceAck
    BY <1>4 DEF DeviceAck, AckRead, CommandIds
  <1>5. CASE \E c \in CommandIds : LegacyAcknowledge(c)
    BY <1>5 DEF LegacyAcknowledge, CommandIds
  <1> QED BY <1>1, <1>2, <1>3, <1>4, <1>5

LEMMA SerialStep ==
    OneParent /\ SerialInv /\ [Next]_vars => SerialInv' /\ IncidentStep
  <1> SUFFICES ASSUME OneParent, SerialInv, [Next]_vars PROVE SerialInv' /\ IncidentStep
    OBVIOUS
  <1>1. ServerInv' /\ RowsKept
    BY ServerInvStep DEF SerialInv
  <1>2. CASE ParentRequest
    BY <1>1, <1>2, SerialDecisionRead DEF ParentRequest
  <1>3. CASE ParentCommit
    BY <1>1, <1>3, SerialUnlock, SerialOther DEF ParentCommit
  <1>4. CASE DeviceReport
    BY <1>1, <1>4, SerialCreateIncident DEF DeviceReport
  <1>5. CASE \/ PollCommit \/ AckCommit \/ DevicePoll \/ DeviceAck
             \/ \E c \in CommandIds : LegacyAcknowledge(c)
    BY <1>1, <1>5, DeviceKeepsIds, SerialDeviceStep DEF SerialInv, ServerInv
  <1>6. CASE Tick \/ ApiRestart \/ UNCHANGED vars
    BY <1>1, <1>6, SerialDeviceStep DEF Tick, ApiRestart, vars, CommandIds
  <1> QED BY <1>2, <1>3, <1>4, <1>5, <1>6 DEF Next

LEMMA SerialInvariant ==
    ASSUME OneParent
    PROVE  Spec => []SerialInv
  <1>1. SerialInv /\ [Next]_vars => SerialInv'
    BY SerialStep
  <1> QED BY <1>1, SerialInit, PTL DEF Spec

\* When parent requests do not overlap, a command never outlives a decision to
\* keep the block: every queued order belongs to an UNLOCKED incident.
THEOREM OrdersFollowDecisions ==
    ASSUME OneParent
    PROVE  Spec => []CommandMeansUnlocked
  BY SerialInvariant, PTL DEF SerialInv

\* When parent requests do not overlap, no incident gets two unlock commands:
\* the idempotency key of _prepare_commands is unique.
THEOREM UnlockedOnce ==
    ASSUME OneParent
    PROVE  Spec => []OneCommandPerIncident
  BY SerialInvariant, PTL DEF SerialInv

\* When parent requests do not overlap, a replay row always has an unlocked
\* original behind it.
THEOREM ReplaysJustified ==
    ASSUME OneParent
    PROVE  Spec => []ReplayAfterUnlock
  BY SerialInvariant, PTL DEF SerialInv

\* When parent requests do not overlap, an incident only moves forward in the
\* cycle the README draws, and a decision is final.
THEOREM DecisionsAreFinal ==
    ASSUME OneParent
    PROVE  Spec => LifecycleForward
  <1>1. IncidentStep =>
          \A i \in Incidents :
            \/ incidents'[i].status = incidents[i].status
            \/ StatusRank[incidents'[i].status] > StatusRank[incidents[i].status]
    <2>1. /\ StatusRank["NONE"] = 0 /\ StatusRank["DETECTED"] = 1
          /\ StatusRank["BLOCKED"] = 1 /\ StatusRank["UNLOCK_REQUESTED"] = 2
          /\ StatusRank["UNLOCKED"] = 3 /\ StatusRank["KEPT_BLOCKED"] = 3
      BY DEF StatusRank, IncidentStatus
    <2> SUFFICES ASSUME IncidentStep, NEW i \in Incidents,
                        incidents'[i].status # incidents[i].status
                 PROVE  StatusRank[incidents'[i].status] > StatusRank[incidents[i].status]
      OBVIOUS
    <2>2. CASE incidents[i].status = "NONE" /\ incidents'[i].status \in {"DETECTED", "BLOCKED"}
      BY <2>1, <2>2
    <2>3. CASE /\ incidents[i].status \in Undecided
               /\ incidents'[i].status \in {"UNLOCK_REQUESTED", "UNLOCKED", "KEPT_BLOCKED"}
      BY <2>1, <2>3 DEF Undecided
    <2> QED BY <2>2, <2>3 DEF IncidentStep
  <1>2. SerialInv /\ [Next]_vars =>
          [\A i \in Incidents :
            \/ incidents'[i].status = incidents[i].status
            \/ StatusRank[incidents'[i].status] > StatusRank[incidents[i].status]]_vars
    BY <1>1, SerialStep
  <1> QED BY <1>2, SerialInvariant, PTL DEF Spec, LifecycleForward

-----------------------------------------------------------------------------
(* The tables implement the promise *)

\* The orders a step settles.
NewlySettled == {i \in Incidents : OrderOf(i) = "queued" /\ OrderOf(i)' = "settled"}

\* A step of a device settles some queued orders, or none.
LEMMA DeviceSettles ==
    ASSUME SerialInv, RowsKept, CommandIds' = CommandIds, UNCHANGED incidents
    PROVE  [Promise!Next]_(Promise!promiseVars)
  <1>1. \A i \in Incidents : DecisionOf(i)' = DecisionOf(i)
    BY DEF DecisionOf
  <1>2. \A i \in Incidents :
          \/ OrderOf(i)' = OrderOf(i)
          \/ OrderOf(i) = "queued" /\ OrderOf(i)' = "settled"
    BY DEF OrderOf, RowsKept
  <1>3. CASE NewlySettled = {}
    <2>1. \A i \in Incidents : OrderOf(i)' = OrderOf(i)
      BY <1>2, <1>3 DEF NewlySettled
    <2> QED BY <1>1, <2>1 DEF Promise!promiseVars
  <1>4. CASE NewlySettled # {}
    <2>1. \A i \in Incidents :
            OrderOf(i)' = IF i \in NewlySettled THEN "settled" ELSE OrderOf(i)
      BY <1>2 DEF NewlySettled
    <2>2. Promise!Settle(NewlySettled)
      BY <1>1, <1>4, <2>1 DEF Promise!Settle, NewlySettled
    <2>3. NewlySettled \in SUBSET Incidents
      BY DEF NewlySettled
    <2> QED BY <2>2, <2>3 DEF Promise!Next
  <1> QED BY <1>3, <1>4

LEMMA PromiseStep ==
    OneParent /\ SerialInv /\ [Next]_vars => [Promise!Next]_(Promise!promiseVars)
  <1> SUFFICES ASSUME OneParent, SerialInv, [Next]_vars
               PROVE  [Promise!Next]_(Promise!promiseVars)
    OBVIOUS
  <1>1. RowsKept /\ ServerInv'
    BY ServerInvStep DEF SerialInv
  <1>2. CASE ParentRequest
    BY <1>1, <1>2, DeviceSettles DEF ParentRequest, DecisionRead, CommandIds
  <1>3. CASE DeviceReport
    <2>1. PICK d \in Devices, k \in Keys, i \in Incidents, blocked \in BOOLEAN :
            CreateIncident(d, k, i, blocked)
      BY <1>3 DEF DeviceReport
    <2>2. UNCHANGED commands
      BY <2>1 DEF CreateIncident
    <2>3. CASE UNCHANGED incidents
      BY <1>1, <2>2, <2>3, DeviceSettles DEF CommandIds
    <2>4. ASSUME NEW replay \in BOOLEAN, InsertIncident(d, k, i, blocked, replay)
          PROVE  Promise!Report(i)
      <3>1. /\ incidents[i].status = "NONE"
            /\ incidents'[i].status \in {"BLOCKED", "DETECTED"}
            /\ \A j \in Incidents : j # i => incidents'[j] = incidents[j]
        BY <2>4, InsertIncidentType DEF SerialInv, ServerInv, InsertIncident
      <3>2. /\ DecisionOf(i) = "none" /\ DecisionOf(i)' \in {"noted", "open"}
            /\ \A j \in Incidents : j # i => DecisionOf(j)' = DecisionOf(j)
        BY <3>1 DEF DecisionOf, Undecided
      <3>3. \A j \in Incidents : OrderOf(j)' = OrderOf(j)
        BY <2>2 DEF OrderOf, CommandIds
      <3> QED BY <3>2, <3>3 DEF Promise!Report
    <2> QED BY <2>1, <2>3, <2>4 DEF CreateIncident, Promise!Next
  <1>4. CASE ParentCommit
    <2>1. PICK w \in decisions : RequestUnlockWrite(w) \/ KeepBlockedWrite(w) \/ UnlockWrite(w)
      BY <1>4 DEF ParentCommit
    <2>2. w.incident \in Incidents /\ incidents[w.incident].status \in Undecided
      BY DEF SerialInv, ServerInv, TypeOK, Decision
    <2>3. DecisionOf(w.incident) = "open"
      BY <2>2 DEF DecisionOf, Undecided
    <2>4. \A s \in {"UNLOCK_REQUESTED", "UNLOCKED", "KEPT_BLOCKED"} :
            SetIncidentStatus(w.incident, s) =>
              /\ incidents'[w.incident].status = s
              /\ \A j \in Incidents : j # w.incident => DecisionOf(j)' = DecisionOf(j)
      BY SerialDecided DEF DecisionOf
    <2>5. CASE RequestUnlockWrite(w)
      <3>1. \A j \in Incidents : DecisionOf(j)' = DecisionOf(j)
        BY <2>3, <2>4, <2>5 DEF RequestUnlockWrite, DecisionOf, Undecided
      <3>2. \A j \in Incidents : OrderOf(j)' = OrderOf(j)
        BY <2>5 DEF RequestUnlockWrite, OrderOf, CommandIds
      <3> QED BY <3>1, <3>2 DEF Promise!promiseVars
    <2>6. CASE KeepBlockedWrite(w)
      <3>1. DecisionOf(w.incident)' = "kept"
        BY <2>4, <2>6 DEF KeepBlockedWrite, DecisionOf, Undecided
      <3>2. \A j \in Incidents : OrderOf(j)' = OrderOf(j)
        BY <2>6 DEF KeepBlockedWrite, OrderOf, CommandIds
      <3>3. \A j \in Incidents : j # w.incident => DecisionOf(j)' = DecisionOf(j)
        BY <2>4, <2>6 DEF KeepBlockedWrite
      <3>4. Promise!Keep(w.incident)
        BY <2>2, <2>3, <3>1, <3>2, <3>3 DEF Promise!Keep
      <3> QED BY <2>2, <3>4 DEF Promise!Next
    <2>7. CASE UnlockWrite(w)
      <3> DEFINE n == Len(commands) + 1
                 row == NewCommand(w.incident, w.created)
      <3>1. /\ CommandIds' = CommandIds \cup {n}
            /\ commands'[n] = row
            /\ \A c \in CommandIds : commands'[c] = commands[c]
            /\ n \notin CommandIds
        BY <2>7, UnlockAppends DEF SerialInv
      <3>2. row.incident = w.incident /\ row.status \notin Terminal
        BY DEF NewCommand, Terminal
      <3>3. SetIncidentStatus(w.incident, "UNLOCKED")
        BY <2>7 DEF UnlockWrite
      <3>4. DecisionOf(w.incident)' = "unlocked"
        BY <2>4, <3>3 DEF DecisionOf, Undecided
      <3> HIDE DEF n, row
      <3>5. OrderOf(w.incident)' = "queued"
        BY <3>1, <3>2 DEF OrderOf
      <3>6. ASSUME NEW j \in Incidents, j # w.incident
            PROVE  OrderOf(j)' = OrderOf(j)
        BY <3>1, <3>2, <3>6 DEF OrderOf
      <3>7. \A j \in Incidents : j # w.incident => DecisionOf(j)' = DecisionOf(j)
        BY <2>4, <3>3
      <3>8. Promise!Unlock(w.incident)
        BY <2>2, <2>3, <3>4, <3>5, <3>6, <3>7 DEF Promise!Unlock
      <3> QED BY <2>2, <3>8 DEF Promise!Next
    <2> QED BY <2>1, <2>5, <2>6, <2>7
  <1>5. CASE \/ PollCommit \/ AckCommit \/ DevicePoll \/ DeviceAck
             \/ \E c \in CommandIds : LegacyAcknowledge(c)
    BY <1>1, <1>5, DeviceKeepsIds, DeviceSettles DEF SerialInv, ServerInv
  <1>6. CASE Tick \/ ApiRestart \/ UNCHANGED vars
    BY <1>1, <1>6, DeviceSettles DEF Tick, ApiRestart, vars, CommandIds
  <1> QED BY <1>2, <1>3, <1>4, <1>5, <1>6 DEF Next

\* When parent requests do not overlap, the tables, handlers, retries and
\* restarts implement the promise made to the parent: every step is a step of
\* UnlockPromise or invisible to it.
THEOREM ServerKeepsPromise ==
    ASSUME OneParent
    PROVE  Spec => PromiseKept
  <1>1. Init => Promise!Init
    <2> SUFFICES ASSUME Init PROVE Promise!Init
      OBVIOUS
    <2>1. \A i \in Incidents : incidents[i].status = "NONE"
      BY DEF Init, NoRow
    <2>2. CommandIds = {}
      BY DEF Init, CommandIds
    <2>3. \A i \in Incidents : DecisionOf(i) = "none"
      BY <2>1 DEF DecisionOf, Undecided
    <2>4. \A i \in Incidents : OrderOf(i) = "none"
      BY <2>2 DEF OrderOf
    <2> QED BY <2>3, <2>4 DEF Promise!Init
  <1>2. SerialInv /\ [Next]_vars => [Promise!Next]_(Promise!promiseVars)
    BY PromiseStep
  <1> QED BY <1>1, <1>2, SerialInvariant, PTL DEF Spec, PromiseKept, Promise!Spec

-----------------------------------------------------------------------------
(* One device request at a time *)

OneDeviceRequest == \A g, h \in DeviceHandlers : g = h

\* An order is about an incident that was reported, whose device never changes.
OrdersReported ==
    /\ \A c \in CommandIds : incidents[commands[c].incident].status # "NONE"
    /\ \A w \in decisions : incidents[w.incident].status # "NONE"

\* An acknowledgement that has decided before its transaction still finds what
\* it decided on: the row is open, or the sweep's EXPIRED is its answer too.
AckTimely(w) ==
    /\ w.command \in CommandIds
    /\ CommandDevice(w.command) \notin DemoDevices
    /\ \/ commands[w.command].status \notin Terminal
       \/ commands[w.command].status = "EXPIRED" /\ w.write = "EXPIRED"

OutcomeInv ==
    /\ ServerInv
    /\ OrdersReported
    /\ acks # {} => polls = {}
    /\ \A v, w \in acks : v = w
    /\ \A w \in acks : w.unprepared = {} => AckTimely(w)

\* No step changes the outcome of a settled command.
OutcomesKept ==
    \A c \in CommandIds :
        commands[c].status \in Terminal => commands'[c].status = commands[c].status

\* A reported incident stays, on its device.
ReportsKept ==
    \A i \in Incidents : incidents[i].status # "NONE" =>
        incidents'[i].status # "NONE" /\ incidents'[i].device = incidents[i].device

LEMMA ReportedForGood ==
    ASSUME ServerInv, [Next]_vars
    PROVE  ReportsKept
  <1>1. CASE UNCHANGED incidents
    BY <1>1 DEF ReportsKept
  <1>2. ASSUME NEW d \in Devices, NEW k \in Keys, NEW i \in Incidents, NEW blocked \in BOOLEAN,
               CreateIncident(d, k, i, blocked)
        PROVE  ReportsKept
    <2>1. CASE UNCHANGED incidents
      BY <2>1, <1>1
    <2>2. ASSUME NEW replay \in BOOLEAN, InsertIncident(d, k, i, blocked, replay)
          PROVE  ReportsKept
      <3>1. incidents[i].status = "NONE"
        BY <2>2 DEF InsertIncident
      <3>2. \A j \in Incidents : j # i => incidents'[j] = incidents[j]
        BY <2>2, InsertIncidentType DEF ServerInv
      <3> QED BY <3>1, <3>2 DEF ReportsKept
    <2> QED BY <1>2, <2>1, <2>2 DEF CreateIncident
  <1>3. ASSUME NEW w \in decisions, NEW s \in {"UNLOCK_REQUESTED", "UNLOCKED", "KEPT_BLOCKED"},
               SetIncidentStatus(w.incident, s)
        PROVE  ReportsKept
    <2>1. TypeOK /\ w.incident \in Incidents /\ s \in IncidentStatus
      BY DEF ServerInv, TypeOK, Decision, IncidentStatus
    <2>2. /\ incidents'[w.incident].status = s
          /\ incidents'[w.incident].device = incidents[w.incident].device
          /\ \A j \in Incidents : j # w.incident => incidents'[j] = incidents[j]
      BY <1>3, <2>1, SetStatusType
    <2> QED BY <2>2 DEF ReportsKept
  <1>4. CASE DeviceReport
    BY <1>2, <1>4 DEF DeviceReport
  <1>5. CASE ParentCommit
    <2>1. PICK w \in decisions : RequestUnlockWrite(w) \/ KeepBlockedWrite(w) \/ UnlockWrite(w)
      BY <1>5 DEF ParentCommit
    <2> QED BY <2>1, <1>3 DEF RequestUnlockWrite, KeepBlockedWrite, UnlockWrite
  <1>6. CASE \/ PollCommit \/ AckCommit \/ DevicePoll \/ DeviceAck
             \/ \E c \in CommandIds : LegacyAcknowledge(c)
    BY <1>1, <1>6, DeviceKeepsIds DEF ServerInv
  <1>7. CASE ParentRequest \/ Tick \/ ApiRestart \/ UNCHANGED vars
    BY <1>1, <1>7 DEF ParentRequest, DecisionRead, Tick, ApiRestart, vars
  <1> QED BY <1>4, <1>5, <1>6, <1>7 DEF Next

LEMMA OrdersReportedStep ==
    ASSUME ServerInv, OrdersReported, [Next]_vars
    PROVE  OrdersReported'
  <1>1. ReportsKept /\ RowsKept
    BY ReportedForGood, ServerInvStep
  <1>2. /\ \A c \in CommandIds : commands[c].incident \in Incidents
        /\ \A w \in decisions : w.incident \in Incidents
    BY CommandFacts DEF ServerInv, TypeOK, Command, Decision
  <1>3. ASSUME CommandIds' = CommandIds, decisions' \subseteq decisions
        PROVE  OrdersReported'
    BY <1>1, <1>2, <1>3 DEF OrdersReported, ReportsKept, RowsKept
  <1>4. CASE ParentRequest
    <2>1. PICK h \in ParentHandlers, i \in Incidents, op \in {"request_unlock", "unlock", "keep_blocked"} :
            DecisionRead(h, op, i)
      BY <1>4 DEF ParentRequest
    <2>2. /\ UNCHANGED <<incidents, commands>>
          /\ \A w \in decisions' : w \in decisions \/ w.incident = i
          /\ incidents[i].status # "NONE"
      BY <2>1 DEF DecisionRead, Undecided
    <2> QED BY <2>2 DEF OrdersReported, CommandIds
  <1>5. CASE ParentCommit
    <2>1. PICK w \in decisions : RequestUnlockWrite(w) \/ KeepBlockedWrite(w) \/ UnlockWrite(w)
      BY <1>5 DEF ParentCommit
    <2>2. CASE RequestUnlockWrite(w) \/ KeepBlockedWrite(w)
      BY <2>2, <1>3 DEF RequestUnlockWrite, KeepBlockedWrite, CommandIds
    <2>3. CASE UnlockWrite(w)
      <3> DEFINE n == Len(commands) + 1
      <3>1. /\ CommandIds' = CommandIds \cup {n}
            /\ commands'[n] = NewCommand(w.incident, w.created)
            /\ decisions' \subseteq decisions
        BY <2>3, UnlockAppends DEF UnlockWrite
      <3> HIDE DEF n
      <3>2. commands'[n].incident = w.incident
        BY <3>1 DEF NewCommand
      <3> QED BY <1>1, <1>2, <3>1, <3>2 DEF OrdersReported, ReportsKept, RowsKept
    <2> QED BY <2>1, <2>2, <2>3
  <1>6. CASE DeviceReport
    BY <1>6, <1>3 DEF DeviceReport, CreateIncident, CommandIds
  <1>7. CASE \/ PollCommit \/ AckCommit \/ DevicePoll \/ DeviceAck
             \/ \E c \in CommandIds : LegacyAcknowledge(c)
    BY <1>3, <1>7, DeviceKeepsIds DEF ServerInv
  <1>8. CASE Tick \/ ApiRestart \/ UNCHANGED vars
    BY <1>3, <1>8 DEF Tick, ApiRestart, vars, CommandIds
  <1> QED BY <1>4, <1>5, <1>6, <1>7, <1>8 DEF Next

\* An acknowledgement stays timely while open rows and swept ones are left so.
LEMMA TimelyKept ==
    ASSUME OutcomeInv, ReportsKept, RowsKept, OutcomesKept, NEW w \in acks,
           w.unprepared = {}, commands'[w.command].status = commands[w.command].status
    PROVE  AckTimely(w)'
  <1>1. AckTimely(w) /\ w.command \in CommandIds
    BY DEF OutcomeInv, AckTimely
  <1>2. commands[w.command].incident \in Incidents
    BY <1>1, CommandFacts DEF OutcomeInv, ServerInv, Command
  <1>3. incidents[commands[w.command].incident].status # "NONE"
    BY <1>1 DEF OutcomeInv, OrdersReported
  <1>4. CommandDevice(w.command)' = CommandDevice(w.command)
    BY <1>1, <1>2, <1>3 DEF CommandDevice, ReportsKept, RowsKept
  <1> QED BY <1>1, <1>4 DEF AckTimely, RowsKept

\* Steps that touch no outcome and start no device request.
LEMMA OutcomeQuietStep ==
    ASSUME OutcomeInv, ServerInv', OrdersReported', ReportsKept, RowsKept,
           \A c \in CommandIds : commands'[c].status = commands[c].status,
           polls' \subseteq polls, acks' \subseteq acks
    PROVE  OutcomeInv' /\ OutcomesKept
  <1>1. OutcomesKept
    BY DEF OutcomesKept
  <1>2. \A w \in acks' : w.unprepared = {} => AckTimely(w)'
    <2> SUFFICES ASSUME NEW w \in acks', w.unprepared = {} PROVE AckTimely(w)'
      OBVIOUS
    <2>1. w \in acks /\ w.command \in CommandIds
      BY DEF OutcomeInv, AckTimely
    <2> QED BY <1>1, <2>1, TimelyKept
  <1> QED BY <1>1, <1>2 DEF OutcomeInv

\* A sweep and a delivery are of open rows only.
LEMMA OutcomePollWrite ==
    ASSUME OutcomeInv, ServerInv', OrdersReported', NEW w \in polls, PollWrite(w)
    PROVE  OutcomeInv' /\ OutcomesKept
  <1>1. acks = {} /\ acks' = {}
    BY DEF OutcomeInv, PollWrite
  <1>2. \A c \in CommandIds : Prepared(w.unprepared)[c].status = commands[c].status
    BY PreparedRows DEF OutcomeInv, ServerInv, TypeOK
  <1>3. ASSUME NEW c \in CommandIds, commands[c].status \in Terminal
        PROVE  commands'[c].status = commands[c].status
    <2>1. SweptRow(w, c) = Prepared(w.unprepared)[c]
      BY <1>2, <1>3 DEF SweptRow, Swept, Terminal
    <2>2. c \notin Batch(w)
      BY <1>2, <1>3, <2>1 DEF Batch, Due, Terminal
    <2> QED BY <1>2, <2>1, <2>2 DEF PollWrite
  <1> QED BY <1>1, <1>3 DEF OutcomeInv, OutcomesKept

LEMMA OutcomeAckWrite ==
    ASSUME OutcomeInv, ServerInv', OrdersReported', NEW w \in acks,
           AckWrite(w) \/ AckPreparing(w)
    PROVE  OutcomeInv' /\ OutcomesKept
  <1>1. acks' = {} /\ polls' = polls
    BY DEF OutcomeInv, AckWrite, AckPreparing
  <1>2. \A c \in CommandIds : commands[c] \in Command
    BY CommandFacts DEF OutcomeInv, ServerInv
  <1>3. CASE AckWrite(w)
    <2>1. AckTimely(w)
      BY <1>3 DEF AckWrite, OutcomeInv
    <2>2. \A c \in CommandIds :
            commands'[c].status = IF c = w.command THEN w.write ELSE commands[c].status
      BY <1>2, <1>3 DEF AckWrite, CommandIds, Command
    <2>3. OutcomesKept
      BY <2>1, <2>2 DEF OutcomesKept, AckTimely
    <2> QED BY <1>1, <2>3 DEF OutcomeInv
  <1>4. CASE AckPreparing(w)
    <2> DEFINE P == Prepared(w.unprepared)
               s == AckStatus(P[w.command], clock, w.write)
    <2>1. /\ P \in [CommandIds -> Command]
          /\ \A c \in CommandIds : P[c].status = commands[c].status
      BY PreparedRows DEF OutcomeInv, ServerInv, TypeOK
    <2>2. commands' = IF AckRefused(P[w.command], clock) THEN P ELSE [P EXCEPT ![w.command].status = s]
      BY <1>4 DEF AckPreparing
    <2>3. P[w.command].status = "EXPIRED" => s = "EXPIRED"
      BY DEF AckStatus
    <2>4. P[w.command].status \in {"ACKNOWLEDGED", "FAILED"} => AckRefused(P[w.command], clock)
      BY DEF AckRefused
    <2> HIDE DEF P, s
    <2>5. OutcomesKept
      BY <2>1, <2>2, <2>3, <2>4 DEF OutcomesKept, Terminal, Command
    <2> QED BY <1>1, <2>5 DEF OutcomeInv
  <1> QED BY <1>3, <1>4

\* An acknowledgement that decides at its read writes what the row allows.
LEMMA OutcomeAckRead ==
    ASSUME OneDeviceRequest, OutcomeInv, ServerInv', OrdersReported', NEW h \in DeviceHandlers,
           NEW c \in CommandIds, NEW reported \in {"ACKNOWLEDGED", "FAILED"}, AckRead(h, c, reported)
    PROVE  OutcomeInv' /\ OutcomesKept
  <1> DEFINE a == [handler |-> h, command |-> c, unprepared |-> Unprepared,
                   write |-> IF Unprepared = {} THEN AckStatus(commands[c], clock, reported)
                                                ELSE reported]
  <1>1. polls = {} /\ acks = {}
    BY DEF AckRead, DeviceIdle, OneDeviceRequest, OutcomeInv, ServerInv, TypeOK, Poll, Ack
  <1>2. /\ acks' = {a}
        /\ polls' = {}
        /\ UNCHANGED <<clock, incidents, commands, decisions>>
    BY <1>1 DEF AckRead
  <1>3. a.unprepared = {} => AckTimely(a)
    <2> SUFFICES ASSUME Unprepared = {} PROVE AckTimely(a)
      OBVIOUS
    <2>1. /\ CommandDevice(c) \notin DemoDevices
          /\ ~AckRefused(commands[c], clock)
          /\ a.command = c
          /\ a.write = AckStatus(commands[c], clock, reported)
      BY DEF AckRead
    <2> HIDE DEF a
    <2> QED BY <2>1 DEF AckTimely, AckRefused, AckStatus, Terminal
  <1> HIDE DEF a
  <1>4. \A w \in acks' : w.unprepared = {} => AckTimely(w)'
    BY <1>2, <1>3 DEF AckTimely, CommandIds, CommandDevice
  <1>5. OutcomesKept
    BY <1>2 DEF OutcomesKept
  <1> QED BY <1>2, <1>4, <1>5 DEF OutcomeInv

\* The demo route settles pending rows of the devices the others do not serve.
LEMMA OutcomeLegacy ==
    ASSUME OutcomeInv, ServerInv', OrdersReported', ReportsKept, RowsKept,
           NEW c \in CommandIds, LegacyAcknowledge(c)
    PROVE  OutcomeInv' /\ OutcomesKept
  <1>1. UNCHANGED <<polls, acks>>
    BY DEF LegacyAcknowledge
  <1>2. \A e \in CommandIds : e # c => commands'[e] = commands[e]
    BY DEF LegacyAcknowledge, CommandIds
  <1>3. OutcomesKept
    BY <1>2 DEF OutcomesKept, LegacyAcknowledge, Terminal
  <1>4. ASSUME NEW w \in acks, w.unprepared = {}
        PROVE  AckTimely(w)'
    <2>1. w.command \in CommandIds /\ w.command # c
      BY <1>4 DEF OutcomeInv, AckTimely, LegacyAcknowledge
    <2> QED BY <1>2, <1>3, <1>4, <2>1, TimelyKept
  <1> QED BY <1>1, <1>3, <1>4 DEF OutcomeInv

LEMMA OutcomeStep ==
    OneDeviceRequest /\ OutcomeInv /\ [Next]_vars => OutcomeInv' /\ OutcomesKept
  <1> SUFFICES ASSUME OneDeviceRequest, OutcomeInv, [Next]_vars
               PROVE  OutcomeInv' /\ OutcomesKept
    OBVIOUS
  <1>1. ServerInv' /\ RowsKept /\ OrdersReported' /\ ReportsKept
    BY ServerInvStep, OrdersReportedStep, ReportedForGood DEF OutcomeInv
  <1>2. ASSUME UNCHANGED commands, polls' \subseteq polls, acks' \subseteq acks
        PROVE  OutcomeInv' /\ OutcomesKept
    BY <1>1, <1>2, OutcomeQuietStep
  <1>3. CASE ParentRequest \/ DeviceReport \/ Tick \/ ApiRestart \/ UNCHANGED vars
    BY <1>2, <1>3 DEF ParentRequest, DecisionRead, DeviceReport, CreateIncident, Tick,
                      ApiRestart, vars
  <1>4. CASE ParentCommit
    <2>1. PICK w \in decisions : RequestUnlockWrite(w) \/ KeepBlockedWrite(w) \/ UnlockWrite(w)
      BY <1>4 DEF ParentCommit
    <2>2. CASE RequestUnlockWrite(w) \/ KeepBlockedWrite(w)
      BY <2>2, <1>2 DEF RequestUnlockWrite, KeepBlockedWrite
    <2>3. CASE UnlockWrite(w)
      <3>1. \A c \in CommandIds : commands'[c] = commands[c]
        BY <2>3, UnlockAppends DEF OutcomeInv
      <3> QED BY <1>1, <2>3, <3>1, OutcomeQuietStep DEF UnlockWrite
    <2> QED BY <2>1, <2>2, <2>3
  <1>5. CASE DevicePoll
    <2>1. PICK h \in DeviceHandlers, d \in Devices, after \in 0..Len(commands) :
            PollRead(h, d, after)
      BY <1>5 DEF DevicePoll
    <2>2. acks = {}
      BY <2>1 DEF PollRead, DeviceIdle, OneDeviceRequest, OutcomeInv, ServerInv, TypeOK, Ack
    <2>3. UNCHANGED <<commands, acks>>
      BY <2>1 DEF PollRead
    <2> QED BY <1>1, <2>2, <2>3 DEF OutcomeInv, OutcomesKept
  <1>6. CASE PollCommit
    <2>1. PICK w \in polls : PollWrite(w) \/ PollConflict(w)
      BY <1>6 DEF PollCommit
    <2>2. CASE PollConflict(w)
      BY <2>2, <1>2 DEF PollConflict
    <2> QED BY <1>1, <2>1, <2>2, OutcomePollWrite
  <1>7. CASE DeviceAck
    BY <1>1, <1>7, OutcomeAckRead DEF DeviceAck
  <1>8. CASE AckCommit
    <2>1. PICK w \in acks : AckWrite(w) \/ AckPreparing(w) \/ AckConflict(w)
      BY <1>8 DEF AckCommit
    <2>2. CASE AckConflict(w)
      BY <2>2, <1>2 DEF AckConflict
    <2> QED BY <1>1, <2>1, <2>2, OutcomeAckWrite
  <1>9. CASE \E c \in CommandIds : LegacyAcknowledge(c)
    BY <1>1, <1>9, OutcomeLegacy
  <1> QED BY <1>3, <1>4, <1>5, <1>6, <1>7, <1>8, <1>9 DEF Next

\* When device requests do not overlap, the first outcome recorded for a command
\* stays: no acknowledgement finds its row settled between its read and its
\* write.  Parents may race at will.
THEOREM OutcomesAreFinal ==
    ASSUME OneDeviceRequest
    PROVE  Spec => OutcomeRecordedOnce
  <1>1. Init => OutcomeInv
    <2>1. Init => CommandIds = {} /\ decisions = {} /\ acks = {}
      BY DEF Init, CommandIds
    <2> QED BY <2>1, ServerInvInit DEF OutcomeInv, OrdersReported
  <1>2. OutcomeInv /\ [Next]_vars => OutcomeInv'
    BY OutcomeStep
  <1>3. OutcomeInv /\ [Next]_vars =>
          [\A c \in CommandIds :
            commands[c].status \in Terminal => commands'[c].status = commands[c].status]_vars
    BY OutcomeStep DEF OutcomesKept
  <1> QED BY <1>1, <1>2, <1>3, PTL DEF Spec, OutcomeRecordedOnce
=============================================================================
