--------------------------- MODULE ObserverProofs ---------------------------
(***************************************************************************)
(* Theorems about Observer and the PilotControl it extends: the change log *)
(* explains the active configuration, no kill switch disappears unseen,    *)
(* and the outbox loses and reorders nothing.                              *)
(***************************************************************************)
EXTENDS Observer, SequenceTheorems, TLAPS

-----------------------------------------------------------------------------
(* Changes of the configuration *)

\* A log explains a configuration: it is what the last change wrote or found.
Explains(changes, config) ==
    IF changes = <<>> THEN config = None
    ELSE config \in {changes[Len(changes)].active, changes[Len(changes)].previous}

\* A change in progress still has the configuration it compared; its snapshot and its line
\* of the log are there once they are written; and only a snapshot of its own is removed.
ChangeJustified ==
    writer # None =>
        /\ writer.change.previous = active
        /\ seen[writer.by] = active
        /\ Explains(writer.before, active)
        /\ writer.next \in {"SNAPSHOT", "AUDIT", "RESTORE_SNAPSHOT"} => log = writer.before
        /\ writer.next \in {"ACTIVE", "RESTORE_AUDIT"} =>
              log = Append(writer.before, writer.change)
        /\ writer.next # "SNAPSHOT" => writer.change.active \in snapshots
        /\ writer.next = "RESTORE_SNAPSHOT" => writer.fresh
        /\ writer.fresh => writer.change.active # active

ControlInv == ControlTypeOK /\ LogExplainsActive /\ ChangeJustified

\* The last line of a log that has just been written.
LEMMA LastAppended ==
    ASSUME NEW before \in Seq(PilotConfigChange), NEW change \in PilotConfigChange
    PROVE  /\ Append(before, change) \in Seq(PilotConfigChange)
           /\ Append(before, change) # <<>>
           /\ Append(before, change)[Len(Append(before, change))] = change
  OBVIOUS

LEMMA WriterTyped ==
    ASSUME ControlTypeOK, writer # None
    PROVE  /\ writer \in Writer
           /\ writer.by \in Operators /\ writer.fresh \in BOOLEAN
           /\ writer.change \in PilotConfigChange
           /\ writer.change.active \in PilotRolloutConfig
           /\ writer.before \in Seq(PilotConfigChange)
  BY DEF ControlTypeOK, Writer, PilotConfigChange

\* A change goes on with another file.
LEMMA WriterGoesOn ==
    ASSUME ControlTypeOK, writer # None,
           NEW next \in {"SNAPSHOT", "AUDIT", "ACTIVE", "RESTORE_AUDIT", "RESTORE_SNAPSHOT"},
           writer' = [writer EXCEPT !.next = next]
    PROVE  /\ writer' \in Writer
           /\ writer'.next = next /\ writer'.by = writer.by
           /\ writer'.change = writer.change /\ writer'.before = writer.before
           /\ writer'.fresh = writer.fresh
  <1>1. writer \in Writer
    BY WriterTyped
  <1> QED BY <1>1 DEF Writer

LEMMA ChangeStarted ==
    ASSUME ControlInv, NEW o \in Operators, NEW config \in PilotRolloutConfig,
           WriteChange(o, config)
    PROVE  ControlInv'
  <1> USE DEF ControlInv
  <1> DEFINE next == IF config \in snapshots THEN "AUDIT" ELSE "SNAPSHOT"
             change == [previous |-> active, active |-> config]
             new == [by |-> o, change |-> change, fresh |-> config \notin snapshots,
                     before |-> log, next |-> next]
  <1>1. writer' = new /\ UNCHANGED <<active, snapshots, log, seen>> /\ seen[o] = active
    BY DEF WriteChange, ExpectedDigest
  <1>2. change \in PilotConfigChange /\ change.active = config /\ change.previous = active
    BY DEF PilotConfigChange, ControlTypeOK
  <1>3. next \in {"SNAPSHOT", "AUDIT"} /\ (next = "AUDIT" <=> config \in snapshots)
    OBVIOUS
  <1> HIDE DEF change, next
  <1>4. /\ new.by = o /\ new.change = change /\ new.before = log /\ new.next = next
        /\ new.fresh = (config \notin snapshots)
    OBVIOUS
  <1>5. new \in Writer
    BY <1>2, <1>3 DEF Writer, ControlTypeOK
  <1>6. config = active => config \in snapshots
    BY ControlConstants DEF LogExplainsActive
  <1> HIDE DEF new
  <1>7. ControlTypeOK' /\ LogExplainsActive'
    BY <1>1, <1>5 DEF ControlTypeOK, LogExplainsActive
  <1>8. Explains(log, active)
    BY DEF LogExplainsActive, Explains
  <1>9. ChangeJustified'
    BY <1>1, <1>2, <1>3, <1>4, <1>6, <1>8 DEF ChangeJustified
  <1> QED BY <1>7, <1>9

\* The files a change in progress writes, puts back or leaves.
LEMMA ChangeGoesOn ==
    ASSUME ControlInv,
           WriteSnapshot \/ WriteAudit \/ WriteActive \/ WriteFails \/ RestoreAudit
              \/ RestoreSnapshot \/ WriterDies
    PROVE  ControlInv'
  <1> USE DEF ControlInv
  <1>1. /\ writer # None /\ seen' = seen
        /\ writer.by \in Operators /\ writer.fresh \in BOOLEAN
        /\ writer.change \in PilotConfigChange
        /\ writer.change.active \in PilotRolloutConfig
        /\ writer.before \in Seq(PilotConfigChange)
    BY WriterTyped DEF WriteSnapshot, WriteAudit, WriteActive, WriteFails, RestoreAudit,
       RestoreSnapshot, WriterDies
  <1>2. /\ Append(writer.before, writer.change) \in Seq(PilotConfigChange)
        /\ Explains(Append(writer.before, writer.change), writer.change.active)
        /\ Explains(Append(writer.before, writer.change), writer.change.previous)
    BY <1>1, LastAppended DEF Explains
  <1>3. Explains(log, active)
    BY DEF LogExplainsActive, Explains
  <1>4. LogExplainsActive <=> Explains(log, active) /\ (active # None => active \in snapshots)
    BY DEF LogExplainsActive, Explains
  <1>5. LogExplainsActive' <=> Explains(log', active') /\ (active' # None => active' \in snapshots')
    BY DEF LogExplainsActive, Explains
  <1>6. CASE WriteSnapshot
    <2>1. /\ writer' = [writer EXCEPT !.next = "AUDIT"] /\ UNCHANGED <<active, log, seen>>
          /\ snapshots' = snapshots \cup {writer.change.active} /\ writer.next = "SNAPSHOT"
      BY <1>6 DEF WriteSnapshot
    <2>2. /\ writer' \in Writer /\ writer'.next = "AUDIT" /\ writer'.by = writer.by
          /\ writer'.change = writer.change /\ writer'.before = writer.before
          /\ writer'.fresh = writer.fresh
      BY <1>1, <2>1, WriterGoesOn
    <2>3. ControlTypeOK'
      BY <1>1, <2>1, <2>2 DEF ControlTypeOK
    <2>4. ChangeJustified'
      BY <1>1, <2>1, <2>2 DEF ChangeJustified
    <2> QED BY <1>3, <1>4, <1>5, <2>1, <2>3, <2>4
  <1>7. CASE WriteAudit
    <2>1. /\ writer' = [writer EXCEPT !.next = "ACTIVE"] /\ UNCHANGED <<active, snapshots, seen>>
          /\ log' = Append(writer.before, writer.change) /\ writer.next = "AUDIT"
      BY <1>7 DEF WriteAudit
    <2>2. /\ writer' \in Writer /\ writer'.next = "ACTIVE" /\ writer'.by = writer.by
          /\ writer'.change = writer.change /\ writer'.before = writer.before
          /\ writer'.fresh = writer.fresh
      BY <1>1, <2>1, WriterGoesOn
    <2>3. ControlTypeOK'
      BY <1>2, <2>1, <2>2 DEF ControlTypeOK
    <2>4. ChangeJustified'
      BY <1>1, <2>1, <2>2 DEF ChangeJustified
    <2>5. Explains(log', active')
      BY <1>1, <1>2, <2>1 DEF ChangeJustified
    <2> QED BY <1>4, <1>5, <2>1, <2>3, <2>4, <2>5
  <1>8. CASE WriteActive
    <2>1. /\ writer' = None /\ UNCHANGED <<snapshots, log, seen>>
          /\ active' = writer.change.active /\ writer.next = "ACTIVE"
      BY <1>8 DEF WriteActive
    <2>2. ControlTypeOK' /\ ChangeJustified'
      BY <1>1, <2>1 DEF ControlTypeOK, ChangeJustified
    <2>3. Explains(log', active') /\ active' \in snapshots'
      BY <1>1, <1>2, <2>1 DEF ChangeJustified
    <2> QED BY <1>5, <2>2, <2>3
  <1>9. CASE RestoreAudit
    <2>1. /\ UNCHANGED <<active, snapshots, seen>> /\ log' = writer.before
          /\ writer.next = "RESTORE_AUDIT"
          /\ \/ writer.fresh /\ writer' = [writer EXCEPT !.next = "RESTORE_SNAPSHOT"]
             \/ writer' = None
      BY <1>9 DEF RestoreAudit
    <2>2. Explains(log', active')
      BY <1>1, <2>1 DEF ChangeJustified
    <2>3. CASE writer' = None
      <3>1. ControlTypeOK' /\ ChangeJustified'
        BY <1>1, <2>1, <2>3 DEF ControlTypeOK, ChangeJustified
      <3> QED BY <1>4, <1>5, <2>1, <2>2, <3>1
    <2>4. CASE writer.fresh /\ writer' = [writer EXCEPT !.next = "RESTORE_SNAPSHOT"]
      <3>1. /\ writer' \in Writer /\ writer'.next = "RESTORE_SNAPSHOT" /\ writer'.by = writer.by
            /\ writer'.change = writer.change /\ writer'.before = writer.before
            /\ writer'.fresh = writer.fresh
        BY <1>1, <2>4, WriterGoesOn
      <3>2. ControlTypeOK'
        BY <1>1, <2>1, <3>1 DEF ControlTypeOK
      <3>3. ChangeJustified'
        BY <1>1, <2>1, <2>4, <3>1 DEF ChangeJustified
      <3> QED BY <1>4, <1>5, <2>1, <2>2, <3>2, <3>3
    <2> QED BY <2>1, <2>3, <2>4
  <1>10. CASE RestoreSnapshot
    <2>1. /\ UNCHANGED <<active, log, seen>> /\ writer' = None
          /\ snapshots' = snapshots \ {writer.change.active}
          /\ writer.next = "RESTORE_SNAPSHOT"
      BY <1>10 DEF RestoreSnapshot
    <2>2. writer.change.active # active
      BY <1>1, <2>1 DEF ChangeJustified
    <2>3. ControlTypeOK' /\ ChangeJustified'
      BY <2>1 DEF ControlTypeOK, ChangeJustified
    <2> QED BY <1>3, <1>4, <1>5, <2>1, <2>2, <2>3
  <1>11. CASE WriteFails \/ WriterDies
    <2>1. /\ UNCHANGED <<active, snapshots, log, seen>>
          /\ \/ writer' = None
             \/ writer.next = "ACTIVE" /\ writer' = [writer EXCEPT !.next = "RESTORE_AUDIT"]
             \/ /\ writer.next = "AUDIT" /\ writer.fresh
                /\ writer' = [writer EXCEPT !.next = "RESTORE_SNAPSHOT"]
      BY <1>11 DEF WriteFails, WriterDies
    <2>2. CASE writer' = None
      <3>1. ControlTypeOK' /\ ChangeJustified'
        BY <2>1, <2>2 DEF ControlTypeOK, ChangeJustified
      <3> QED BY <1>4, <1>5, <2>1, <3>1
    <2>3. ASSUME NEW next \in {"RESTORE_AUDIT", "RESTORE_SNAPSHOT"},
                 writer' = [writer EXCEPT !.next = next],
                 \/ next = "RESTORE_AUDIT" /\ writer.next = "ACTIVE"
                 \/ next = "RESTORE_SNAPSHOT" /\ writer.next = "AUDIT" /\ writer.fresh
          PROVE  ControlInv'
      <3>1. /\ writer' \in Writer /\ writer'.next = next /\ writer'.by = writer.by
            /\ writer'.change = writer.change /\ writer'.before = writer.before
            /\ writer'.fresh = writer.fresh
        BY <1>1, <2>3, WriterGoesOn
      <3>2. ControlTypeOK'
        BY <2>1, <3>1 DEF ControlTypeOK
      <3>3. ChangeJustified'
        BY <1>1, <2>1, <2>3, <3>1 DEF ChangeJustified
      <3> QED BY <1>4, <1>5, <2>1, <3>2, <3>3
    <2> QED BY <2>1, <2>2, <2>3
  <1> QED BY <1>6, <1>7, <1>8, <1>9, <1>10, <1>11

LEMMA ControlStep == ControlInv /\ [ControlNext]_controlVars => ControlInv'
  <1> SUFFICES ASSUME ControlInv, [ControlNext]_controlVars PROVE ControlInv'
    OBVIOUS
  <1> USE DEF ControlInv
  <1>1. CASE UNCHANGED controlVars
    BY <1>1 DEF controlVars, ControlTypeOK, LogExplainsActive, ChangeJustified, Explains
  <1>2. ASSUME NEW o \in Operators, Status(o)
        PROVE  ControlInv'
    <2>1. UNCHANGED <<active, snapshots, log, writer>> /\ seen' = [seen EXCEPT ![o] = active]
      BY <1>2 DEF Status
    <2>2. ControlTypeOK' /\ LogExplainsActive'
      BY <2>1 DEF ControlTypeOK, LogExplainsActive
    <2>3. writer # None => writer.by \in Operators
      BY WriterTyped
    <2>4. writer # None => seen'[writer.by] = active
      BY <2>1, <2>3 DEF ControlTypeOK, ChangeJustified
    <2>5. ChangeJustified'
      BY <2>1, <2>4 DEF ChangeJustified, Explains
    <2> QED BY <2>2, <2>5
  <1>3. ASSUME NEW o \in Operators, NEW c \in Activatable, Activate(o, c)
        PROVE  ControlInv'
    BY <1>3, ControlConstants, ChangeStarted DEF Activate
  <1>4. ASSUME NEW o \in Operators, NEW c \in snapshots, Rollback(o, c)
        PROVE  ControlInv'
    <2>1. c \in PilotRolloutConfig
      BY DEF ControlTypeOK
    <2> QED BY <1>4, <2>1, ChangeStarted DEF Rollback
  <1>5. ASSUME NEW o \in Operators, NEW s \in Switches, SetKillSwitch(o, s)
        PROVE  ControlInv'
    <2> DEFINE others == {x \in active.switches : x.id # s.id}
               config == [active EXCEPT !.switches = others \cup {s}]
    <2>1. active \in PilotRolloutConfig /\ s \in PilotKillSwitch
      BY <1>5, ControlConstants DEF SetKillSwitch, ControlTypeOK
    <2>2. others \cup {s} \in SUBSET PilotKillSwitch
      BY <2>1 DEF PilotRolloutConfig
    <2> HIDE DEF others
    <2>3. config \in PilotRolloutConfig
      BY <2>1, <2>2 DEF PilotRolloutConfig
    <2>4. WriteChange(o, config)
      BY <1>5 DEF SetKillSwitch, others
    <2> QED BY <2>3, <2>4, ChangeStarted
  <1> QED BY <1>1, <1>2, <1>3, <1>4, <1>5, ChangeGoesOn DEF ControlNext

LEMMA ControlStart == ControlInit => ControlInv
  BY DEF ControlInit, ControlInv, ControlTypeOK, LogExplainsActive, ChangeJustified

\* Every step of the observer leaves the files of the configuration alone.
LEMMA ObserverLeavesControl == [Next]_vars => [ControlNext]_controlVars
  BY DEF Next, vars, Start, Stop, PairAgain, Deliver, Flushed, DeliveryFails,
     DeliveryUnanswered, OutboxFull, SendUnanswered, Abandon, Capture, SendTelemetry,
     ReportIncident, SendOrQueue, Compose, EndFlush

\* The invariant the results about the configuration rest on.
THEOREM ControlInvariant == Spec => []ControlInv
  <1>1. Init => ControlInv
    BY ControlStart DEF Init
  <1>2. ControlInv /\ [Next]_vars => ControlInv'
    BY ControlStep, ObserverLeavesControl
  <1> QED BY <1>1, <1>2, PTL DEF Spec

\* Wherever changes stop, and whichever fail, are undone or are cut off while they are
\* undone, the last line of the log tells what is active.
THEOREM LogAlwaysExplains == Spec => []LogExplainsActive
  <1>1. ControlInv => LogExplainsActive
    BY DEF ControlInv
  <1> QED BY <1>1, ControlInvariant, PTL

\* However operators race, no enabled kill switch goes that its operator was not shown.
THEOREM KillSwitchNeverLostUnseen == Spec => KillSwitchSurvives
  <1>1. ControlInv /\ [ControlNext]_controlVars =>
           [active' # active =>
              \A s \in Enabled(active) \ Enabled(active') :
                 writer # None /\ s \in Enabled(seen[writer.by])]_controlVars
    <2> SUFFICES ASSUME ControlInv, ControlNext, active' # active
                 PROVE  writer # None /\ seen[writer.by] = active
      OBVIOUS
    <2>1. writer # None
      BY DEF ControlNext, Status, Activate, Rollback, SetKillSwitch, WriteChange, WriteSnapshot,
         WriteAudit, WriteActive, WriteFails, RestoreAudit, RestoreSnapshot, WriterDies
    <2> QED BY <2>1 DEF ControlInv, ChangeJustified
  <1>2. ControlInv /\ [Next]_vars =>
           [active' # active =>
              \A s \in Enabled(active) \ Enabled(active') :
                 writer # None /\ s \in Enabled(seen[writer.by])]_controlVars
    BY <1>1, ObserverLeavesControl
  <1> QED BY <1>2, ControlInvariant, PTL DEF Spec, KillSwitchSurvives

-----------------------------------------------------------------------------
(* The outbox *)

\* Messages are queued in the order they are composed; a flush has in memory what it has
\* not delivered of the file, and has delivered the rest.
OutboxJustified ==
    /\ \A i \in DOMAIN outbox : outbox[i].id \in 1..reports
    /\ \A i, j \in DOMAIN outbox : i < j => outbox[i].id < outbox[j].id
    /\ step = "FLUSH" =>
          /\ Len(queue) + delivered = Len(outbox)
          /\ \A i \in 1..Len(queue) : queue[i] = outbox[i + delivered]
          /\ \A i \in 1..delivered : outbox[i].id \in flushed

OutboxInv == ObserverTypeOK /\ OutboxJustified /\ QueueDelivered

LEMMA ObserverTyped ==
    ASSUME ObserverTypeOK
    PROVE  /\ outbox \in Seq(OutboxItem) /\ queue \in Seq(OutboxItem)
           /\ Len(outbox) \in Nat /\ DOMAIN outbox = 1..Len(outbox)
           /\ Len(queue) \in Nat /\ DOMAIN queue = 1..Len(queue)
           /\ delivered \in Nat /\ reports \in Nat /\ MAXIMUM_ITEMS \in Nat
           /\ Len(outbox) <= MAXIMUM_ITEMS
  BY ObserverConstants DEF ObserverTypeOK

LEMMA FailSafeTyped == FailSafe \in PilotRolloutConfig
  BY DEF FailSafe, PilotRolloutConfig, PilotKillSwitch, PilotMode

\* What a flush delivers next: everything queued before it has been delivered.
LEMMA HeadIsNext ==
    ASSUME OutboxInv, step = "FLUSH", MayDeliver
    PROVE  /\ queue[1].id \in 1..reports
           /\ queue[1] = outbox[delivered + 1]
           /\ queue[1].id \in Ids(outbox)
           /\ \A j \in flushed \cup Ids(outbox) : j < queue[1].id => j \in flushed
  <1> USE DEF OutboxInv
  <1>1. Len(queue) >= 1
    BY ObserverTyped DEF MayDeliver
  <1>2. delivered + 1 \in DOMAIN outbox
    BY <1>1, ObserverTyped DEF OutboxJustified
  <1>3. queue[1] = outbox[delivered + 1]
    BY <1>1, ObserverTyped DEF OutboxJustified
  <1>4. \A i \in DOMAIN outbox : i > delivered + 1 => outbox[i].id > queue[1].id
    <2>1. \A i \in DOMAIN outbox : outbox[i].id \in Nat
      BY ObserverTyped DEF OutboxJustified
    <2> QED BY <1>2, <1>3, <2>1, ObserverTyped DEF OutboxJustified
  <1>5. \A i \in DOMAIN outbox : outbox[i].id < queue[1].id => outbox[i].id \in flushed
    <2> TAKE i \in DOMAIN outbox
    <2> HAVE outbox[i].id < queue[1].id
    <2>1. outbox[i].id \in Nat /\ queue[1].id \in Nat /\ i \in Nat
      BY <1>2, <1>3, ObserverTyped DEF OutboxJustified
    <2>2. ~(i > delivered + 1) /\ i # delivered + 1
      BY <1>3, <1>4, <2>1
    <2>3. i \in 1..delivered
      BY <2>1, <2>2, ObserverTyped
    <2> QED BY <2>3 DEF OutboxJustified
  <1>6. queue[1].id \in 1..reports /\ queue[1].id \in Ids(outbox)
    BY <1>2, <1>3 DEF OutboxJustified, Ids
  <1> QED BY <1>3, <1>5, <1>6 DEF Ids

\* The queue a flush leaves in the file.
LEMMA FlushLeaves ==
    ASSUME OutboxInv, step = "FLUSH", EndFlush(queue),
           flushed \subseteq flushed', received \subseteq received',
           received' \subseteq 1..reports, flushed' \subseteq received',
           \A i \in flushed', j \in flushed' \cup Ids(outbox) : j < i => j \in flushed'
    PROVE  OutboxInv'
  <1> USE DEF OutboxInv
  <1>1. /\ Len(queue) + delivered = Len(outbox)
        /\ \A i \in 1..Len(queue) : queue[i] = outbox[i + delivered]
        /\ \A i \in 1..delivered : outbox[i].id \in flushed
    BY DEF OutboxJustified
  <1>2. /\ step' = "CAPTURE" /\ outbox' = queue /\ queue' = <<>> /\ delivered' = 0
        /\ UNCHANGED <<controlVars, rollout, credential, keychain, lastHash, savedHash, reports,
                       abandoned>>
    BY DEF EndFlush
  <1>3. ObserverTypeOK'
    BY <1>1, <1>2, ObserverTyped, ObserverConstants DEF ObserverTypeOK, Step
  <1>4. \A i \in 1..Len(queue) : i + delivered \in 1..Len(outbox)
    BY <1>1, ObserverTyped
  <1>5. OutboxJustified'
    <2>1. \A i \in DOMAIN queue : queue[i].id \in 1..reports
      BY <1>1, <1>4, ObserverTyped DEF OutboxJustified
    <2>2. \A i, j \in DOMAIN queue : i < j => queue[i].id < queue[j].id
      <3> SUFFICES ASSUME NEW i \in 1..Len(queue), NEW j \in 1..Len(queue), i < j
                   PROVE  queue[i].id < queue[j].id
        BY ObserverTyped
      <3>1. i + delivered < j + delivered
        BY ObserverTyped
      <3>2. i + delivered \in DOMAIN outbox /\ j + delivered \in DOMAIN outbox
        BY <1>4, ObserverTyped
      <3>3. outbox[i + delivered].id < outbox[j + delivered].id
        BY <3>1, <3>2 DEF OutboxJustified
      <3> QED BY <1>1, <3>3
    <2> QED BY <1>2, <2>1, <2>2 DEF OutboxJustified
  <1>6. Ids(queue) \subseteq Ids(outbox)
    BY <1>1, <1>4, ObserverTyped DEF Ids
  <1>7. Ids(outbox) \subseteq Ids(queue) \cup flushed
    <2> SUFFICES ASSUME NEW i \in 1..Len(outbox)
                 PROVE  outbox[i].id \in Ids(queue) \cup flushed
      BY ObserverTyped DEF Ids
    <2>1. CASE i <= delivered
      BY <1>1, <2>1, ObserverTyped
    <2>2. CASE i > delivered
      <3>1. i - delivered \in 1..Len(queue) /\ (i - delivered) + delivered = i
        BY <1>1, <2>2, ObserverTyped
      <3>2. queue[i - delivered] = outbox[i]
        BY <1>1, <3>1
      <3> QED BY <3>1, <3>2, ObserverTyped DEF Ids
    <2> QED BY <2>1, <2>2, ObserverTyped
  <1>8. Ids(outbox)' = Ids(queue)
    BY <1>2 DEF Ids
  <1>9. (1..reports) \ abandoned \subseteq received' \cup Ids(queue)
    <2>1. flushed \subseteq received'
      BY DEF ObserverTypeOK
    <2> QED BY <1>7, <2>1 DEF QueueDelivered
  <1>10. QueueDelivered'
    BY <1>2, <1>6, <1>8, <1>9 DEF QueueDelivered
  <1> QED BY <1>3, <1>5, <1>10

\* The end of the process, whatever it has delivered.
LEMMA EndKeepsOutbox ==
    ASSUME OutboxInv, End, UNCHANGED <<keychain, savedHash, outbox, reports, abandoned>>,
           flushed \subseteq flushed', received \subseteq received',
           received' \subseteq 1..reports, flushed' \subseteq received',
           \A i \in flushed', j \in flushed' \cup Ids(outbox) : j < i => j \in flushed'
    PROVE  OutboxInv'
  <1> USE DEF OutboxInv
  <1>1. /\ step' = "DOWN" /\ rollout' = FailSafe /\ credential' = 1 /\ lastHash' = None
        /\ queue' = <<>> /\ delivered' = 0
    BY DEF End
  <1>2. ObserverTypeOK'
    BY <1>1, FailSafeTyped, ObserverTyped, ObserverConstants DEF ObserverTypeOK, Step
  <1>3. OutboxJustified'
    BY <1>1 DEF OutboxJustified
  <1>4. Ids(outbox)' = Ids(outbox)
    BY DEF Ids
  <1>5. QueueDelivered'
    BY <1>4 DEF QueueDelivered
  <1> QED BY <1>2, <1>3, <1>5

\* A message that is sent or queued comes after all before it.
LEMMA MessageKept ==
    ASSUME OutboxInv, NEW answered \in BOOLEAN, NEW reached \in BOOLEAN,
           SendOrQueue(answered, reached)
    PROVE  /\ reports' = reports + 1 /\ reports' \in 0..MaxReports
           /\ outbox' \in Seq(OutboxItem) /\ Len(outbox') <= MAXIMUM_ITEMS
           /\ \A i \in DOMAIN outbox' : outbox'[i].id \in 1..reports'
           /\ \A i, j \in DOMAIN outbox' : i < j => outbox'[i].id < outbox'[j].id
           /\ received \subseteq received' /\ received' \subseteq 1..reports'
           /\ QueueDelivered'
  <1> USE DEF OutboxInv
  <1>1. /\ reports < MaxReports /\ reports' = reports + 1 /\ reports \in Nat
        /\ UNCHANGED <<flushed, abandoned>> /\ MaxReports \in Nat
    BY ObserverTyped, ObserverConstants DEF SendOrQueue, Compose
  <1>2. /\ received \subseteq received' /\ received' \subseteq 1..reports'
        /\ received' \subseteq received \cup {reports + 1}
        /\ answered => reports + 1 \in received'
    BY <1>1 DEF SendOrQueue, ObserverTypeOK
  <1>3. ASSUME NEW next \in 1..reports + 1
        PROVE  next \in 1..reports \/ next = reports + 1
    BY <1>1
  <1>4. \A i \in flushed \cup Ids(outbox) : i \in 1..reports
    BY DEF ObserverTypeOK, OutboxJustified, Ids
  <1>5. CASE outbox' = outbox /\ answered
    <2>1. Ids(outbox)' = Ids(outbox)
      BY <1>5 DEF Ids
    <2>2. (1..reports') \ abandoned' \subseteq received' \cup Ids(outbox)
      BY <1>1, <1>2, <1>3, <1>5 DEF QueueDelivered
    <2>3. QueueDelivered'
      BY <1>1, <2>1, <2>2 DEF QueueDelivered
    <2>4. \A i \in DOMAIN outbox : outbox[i].id \in 1..reports'
      BY <1>1 DEF OutboxJustified
    <2> QED BY <1>1, <1>2, <1>5, <2>3, <2>4, ObserverTyped DEF OutboxJustified
  <1>6. CASE Enqueue
    <2> DEFINE last == Len(outbox) + 1
    <2>1. Message \in OutboxItem /\ Message.id = reports + 1
      BY <1>1, ObserverConstants DEF Message, OutboxItem, ObserverTypeOK
    <2>2. /\ outbox' \in Seq(OutboxItem) /\ Len(outbox') = last
          /\ DOMAIN outbox' = DOMAIN outbox \cup {last}
          /\ \A i \in DOMAIN outbox : outbox'[i] = outbox[i]
          /\ outbox'[last] = Message
      BY <1>6, <2>1, ObserverTyped, AppendProperties DEF Enqueue
    <2>3. last <= MAXIMUM_ITEMS /\ last \in Nat /\ \A i \in DOMAIN outbox : i \in Nat /\ i < last
      BY <1>6, ObserverTyped DEF Enqueue
    <2> HIDE DEF last
    <2>4. \A i \in DOMAIN outbox' : outbox'[i].id \in 1..reports'
      <3>1. \A i \in DOMAIN outbox : outbox[i].id \in 1..reports
        BY DEF OutboxJustified
      <3> QED BY <1>1, <2>1, <2>2, <3>1
    <2>5. \A i, j \in DOMAIN outbox' : i < j => outbox'[i].id < outbox'[j].id
      <3> SUFFICES ASSUME NEW i \in DOMAIN outbox', NEW j \in DOMAIN outbox', i < j
                   PROVE  outbox'[i].id < outbox'[j].id
        OBVIOUS
      <3>1. i \in DOMAIN outbox
        BY <2>2, <2>3
      <3>2. CASE j \in DOMAIN outbox
        BY <2>2, <3>1, <3>2 DEF OutboxJustified
      <3>3. CASE j = last
        <4>1. outbox[i].id \in 1..reports
          BY <3>1 DEF OutboxJustified
        <4> QED BY <1>1, <2>1, <2>2, <3>1, <3>3, <4>1
      <3> QED BY <2>2, <3>2, <3>3
    <2>6. Ids(outbox)' = Ids(outbox) \cup {reports + 1}
      BY <2>1, <2>2 DEF Ids
    <2>7. (1..reports') \ abandoned' \subseteq received' \cup Ids(outbox)'
      BY <1>1, <1>2, <1>3, <2>6 DEF QueueDelivered
    <2>8. \A i \in flushed, j \in flushed \cup Ids(outbox)' : j < i => j \in flushed
      <3> SUFFICES ASSUME NEW i \in flushed, NEW j \in flushed \cup Ids(outbox)', j < i
                   PROVE  j \in flushed
        OBVIOUS
      <3>1. i \in 1..reports
        BY <1>4
      <3>2. j # reports + 1
        BY <1>1, <3>1
      <3>3. j \in flushed \cup Ids(outbox)
        BY <2>6, <3>2
      <3> QED BY <3>3 DEF QueueDelivered
    <2>9. QueueDelivered'
      BY <1>1, <2>7, <2>8 DEF QueueDelivered
    <2> QED BY <1>1, <1>2, <2>2, <2>3, <2>4, <2>5, <2>9
  <1> QED BY <1>5, <1>6 DEF SendOrQueue

LEMMA ObservationStep ==
    ASSUME OutboxInv, NEW answered \in BOOLEAN, NEW reached \in BOOLEAN,
           \/ \E proposed \in EnforcementAction : SendTelemetry(proposed, answered, reached)
           \/ ReportIncident(answered, reached)
    PROVE  OutboxInv'
  <1> USE DEF OutboxInv
  <1>1. /\ SendOrQueue(answered, reached)
        /\ \/ NewCycle(outbox')
           \/ step' = "REPORT" /\ UNCHANGED <<queue, delivered>>
    BY DEF SendTelemetry, ReportIncident
  <1>2. UNCHANGED <<rollout, credential, lastHash, abandoned, keychain, savedHash, flushed>>
    BY <1>1 DEF SendOrQueue, Compose
  <1>3. /\ reports' = reports + 1 /\ reports' \in 0..MaxReports /\ reports \in Nat
        /\ outbox' \in Seq(OutboxItem) /\ Len(outbox') <= MAXIMUM_ITEMS
        /\ \A i \in DOMAIN outbox' : outbox'[i].id \in 1..reports'
        /\ \A i, j \in DOMAIN outbox' : i < j => outbox'[i].id < outbox'[j].id
        /\ received \subseteq received' /\ received' \subseteq 1..reports'
        /\ QueueDelivered'
    BY <1>1, MessageKept, ObserverTyped
  <1>4. flushed' \subseteq received' /\ abandoned' \subseteq 1..reports'
    <2>1. 1..reports \subseteq 1..reports'
      BY <1>3
    <2> QED BY <1>2, <1>3, <2>1 DEF ObserverTypeOK
  <1>5. CASE NewCycle(outbox')
    <2>1. step' = "FLUSH" /\ queue' = outbox' /\ delivered' = 0 /\ Len(outbox') \in Nat
      BY <1>3, <1>5 DEF NewCycle
    <2>2. ObserverTypeOK'
      BY <1>2, <1>3, <1>4, <2>1, ObserverConstants DEF ObserverTypeOK, Step
    <2>3. OutboxJustified'
      BY <1>3, <2>1 DEF OutboxJustified
    <2> QED BY <1>3, <2>2, <2>3
  <1>6. CASE step' = "REPORT" /\ UNCHANGED <<queue, delivered>>
    <2>1. step' \in Step
      BY <1>6 DEF Step
    <2>2. ObserverTypeOK'
      BY <1>2, <1>3, <1>4, <1>6, <2>1 DEF ObserverTypeOK
    <2>3. OutboxJustified'
      BY <1>3, <1>6 DEF OutboxJustified
    <2> QED BY <1>3, <2>2, <2>3
  <1> QED BY <1>1, <1>5, <1>6

\* A message whose sending ends the process is given up.
LEMMA AbandonStep ==
    ASSUME OutboxInv, Abandon
    PROVE  OutboxInv'
  <1> USE DEF OutboxInv
  <1>1. /\ reports < MaxReports /\ reports' = reports + 1 /\ reports \in Nat /\ MaxReports \in Nat
        /\ abandoned' = abandoned \cup {reports + 1}
        /\ UNCHANGED <<keychain, savedHash, flushed, outbox, received>>
        /\ step' = "DOWN" /\ rollout' = FailSafe /\ credential' = 1 /\ lastHash' = None
        /\ queue' = <<>> /\ delivered' = 0
    BY ObserverTyped, ObserverConstants DEF Abandon, Compose, End
  <1>2. 1..reports' = 1..reports \cup {reports + 1}
    BY <1>1
  <1>3. ObserverTypeOK'
    <2>1. reports' \in 0..MaxReports
      BY <1>1
    <2>2. received' \subseteq 1..reports' /\ flushed' \subseteq received'
          /\ abandoned' \subseteq 1..reports'
      BY <1>1, <1>2 DEF ObserverTypeOK
    <2> QED BY <1>1, <2>1, <2>2, FailSafeTyped, ObserverTyped, ObserverConstants
            DEF ObserverTypeOK, Step
  <1>4. OutboxJustified'
    BY <1>1, <1>2 DEF OutboxJustified
  <1>5. Ids(outbox)' = Ids(outbox)
    BY <1>1 DEF Ids
  <1>6. QueueDelivered'
    BY <1>1, <1>2, <1>5 DEF QueueDelivered
  <1> QED BY <1>3, <1>4, <1>6

LEMMA FlushStep ==
    ASSUME OutboxInv, NEW reached \in BOOLEAN,
           Deliver \/ Flushed \/ DeliveryFails(reached) \/ DeliveryUnanswered(reached)
    PROVE  OutboxInv'
  <1> USE DEF OutboxInv
  <1>1. /\ received \subseteq 1..reports /\ flushed \subseteq received
        /\ \A i \in flushed, j \in flushed \cup Ids(outbox) : j < i => j \in flushed
    BY DEF ObserverTypeOK, QueueDelivered
  <1>2. step = "FLUSH"
    BY DEF Deliver, Flushed, DeliveryFails, DeliveryUnanswered
  <1>3. ASSUME MayDeliver, received' = received \cup {queue[1].id},
               flushed' = flushed \cup {queue[1].id}
        PROVE  /\ received' \subseteq 1..reports /\ flushed' \subseteq received'
               /\ \A i \in flushed', j \in flushed' \cup Ids(outbox) : j < i => j \in flushed'
    <2> DEFINE head == queue[1].id
    <2>1. /\ head \in 1..reports /\ head \in Ids(outbox)
          /\ \A j \in flushed \cup Ids(outbox) : j < head => j \in flushed
      BY <1>2, <1>3, HeadIsNext
    <2>2. received' = received \cup {head} /\ flushed' = flushed \cup {head}
      BY <1>3
    <2> HIDE DEF head
    <2>3. ASSUME NEW i \in flushed \cup {head}, NEW j \in flushed \cup {head} \cup Ids(outbox), j < i
          PROVE  j \in flushed \cup {head}
      BY <1>1, <2>1, <2>3
    <2> QED BY <1>1, <2>1, <2>2, <2>3
  <1>4. CASE Flushed
    <2>1. EndFlush(queue) /\ UNCHANGED <<received, flushed>>
      BY <1>4 DEF Flushed
    <2> QED BY <1>1, <1>2, <2>1, FlushLeaves
  <1>5. CASE DeliveryFails(reached)
    <2>1. EndFlush(queue) /\ MayDeliver
      BY <1>5 DEF DeliveryFails, AfterFailure
    <2>2. CASE reached
      <3>1. received' = received \cup {queue[1].id} /\ flushed' = flushed \cup {queue[1].id}
        BY <1>5, <2>2 DEF DeliveryFails
      <3> QED BY <1>2, <1>3, <2>1, <3>1, FlushLeaves
    <2>3. CASE ~reached
      <3>1. UNCHANGED <<received, flushed>>
        BY <1>5, <2>3 DEF DeliveryFails
      <3> QED BY <1>1, <1>2, <2>1, <3>1, FlushLeaves
    <2> QED BY <2>2, <2>3
  <1>6. CASE DeliveryUnanswered(reached)
    <2>1. /\ End /\ MayDeliver
          /\ UNCHANGED <<keychain, savedHash, outbox, reports, abandoned>>
      BY <1>6 DEF DeliveryUnanswered
    <2>2. CASE reached
      <3>1. received' = received \cup {queue[1].id} /\ flushed' = flushed \cup {queue[1].id}
        BY <1>6, <2>2 DEF DeliveryUnanswered
      <3> QED BY <1>3, <2>1, <3>1, EndKeepsOutbox
    <2>3. CASE ~reached
      <3>1. UNCHANGED <<received, flushed>>
        BY <1>6, <2>3 DEF DeliveryUnanswered
      <3> QED BY <1>1, <2>1, <3>1, EndKeepsOutbox
    <2> QED BY <2>2, <2>3
  <1>7. CASE Deliver
    <2>1. /\ MayDeliver /\ queue' = Tail(queue) /\ delivered' = delivered + 1
          /\ received' = received \cup {queue[1].id} /\ flushed' = flushed \cup {queue[1].id}
          /\ UNCHANGED <<controlVars, step, rollout, credential, keychain, lastHash, savedHash,
                         outbox, reports, abandoned>>
      BY <1>7 DEF Deliver
    <2>2. /\ received' \subseteq 1..reports /\ flushed' \subseteq received'
          /\ \A i \in flushed', j \in flushed' \cup Ids(outbox) : j < i => j \in flushed'
      BY <1>3, <2>1
    <2>3. /\ Len(queue) + delivered = Len(outbox)
          /\ \A i \in 1..Len(queue) : queue[i] = outbox[i + delivered]
          /\ \A i \in 1..delivered : outbox[i].id \in flushed
      BY <1>2 DEF OutboxJustified
    <2>4. queue # <<>> /\ delivered < FLUSH_LIMIT /\ FLUSH_LIMIT \in Nat
      BY <2>1, ObserverConstants DEF MayDeliver
    <2>5. /\ queue' \in Seq(OutboxItem) /\ Len(queue') = Len(queue) - 1
          /\ \A i \in 1..Len(queue') : queue'[i] = queue[i + 1]
      BY <2>1, <2>4, ObserverTyped
    <2>6. Len(queue) >= 1
      BY <2>4, ObserverTyped
    <2>7. ObserverTypeOK'
      <3>1. Len(queue') + delivered' <= MAXIMUM_ITEMS /\ delivered' \in 0..FLUSH_LIMIT
        BY <2>1, <2>3, <2>4, <2>5, <2>6, ObserverTyped
      <3> QED BY <2>1, <2>2, <2>5, <3>1 DEF ObserverTypeOK
    <2>8. /\ Len(queue') + delivered' = Len(outbox)
          /\ \A i \in 1..Len(queue') : queue'[i] = outbox[i + delivered']
      <3>1. Len(queue') + delivered' = Len(outbox)
        BY <2>1, <2>3, <2>5, <2>6, ObserverTyped
      <3>2. ASSUME NEW i \in 1..Len(queue') PROVE queue'[i] = outbox[i + delivered']
        <4>1. i + 1 \in 1..Len(queue) /\ (i + 1) + delivered = i + delivered'
          BY <2>1, <2>5, <2>6, ObserverTyped
        <4>2. queue'[i] = queue[i + 1] /\ queue[i + 1] = outbox[(i + 1) + delivered]
          BY <2>3, <2>5, <4>1
        <4> QED BY <4>1, <4>2
      <3> QED BY <3>1, <3>2
    <2>9. \A i \in 1..delivered' : outbox[i].id \in flushed'
      <3> SUFFICES ASSUME NEW i \in 1..delivered + 1 PROVE outbox[i].id \in flushed'
        BY <2>1
      <3>1. i \in 1..delivered \/ i = delivered + 1
        BY ObserverTyped
      <3>2. queue[1] = outbox[delivered + 1]
        BY <1>2, <2>1, HeadIsNext
      <3> QED BY <2>1, <2>3, <3>1, <3>2
    <2>10. OutboxJustified'
      BY <2>1, <2>8, <2>9 DEF OutboxJustified
    <2>11. Ids(outbox)' = Ids(outbox)
      BY <2>1 DEF Ids
    <2>12. QueueDelivered'
      BY <2>1, <2>2, <2>11 DEF QueueDelivered
    <2> QED BY <2>7, <2>10, <2>12
  <1> QED BY <1>4, <1>5, <1>6, <1>7

LEMMA ProcessStep ==
    ASSUME OutboxInv, ControlTypeOK,
           Start \/ Stop \/ PairAgain \/ \E screen \in Screens : Capture(screen)
    PROVE  OutboxInv'
  <1> USE DEF OutboxInv
  <1>1. /\ received \subseteq 1..reports /\ flushed \subseteq received
        /\ \A i \in flushed, j \in flushed \cup Ids(outbox) : j < i => j \in flushed
    BY DEF ObserverTypeOK, QueueDelivered
  <1>2. ASSUME UNCHANGED <<outbox, histories>>
        PROVE  QueueDelivered'
    BY <1>2 DEF QueueDelivered, Ids, histories
  <1>3. CASE Stop
    BY <1>1, <1>3, EndKeepsOutbox DEF Stop, histories
  <1>4. CASE Start
    <2>1. /\ step' = "FLUSH" /\ queue' = outbox /\ delivered' = 0
          /\ rollout' = RuntimeRollout /\ credential' = keychain /\ lastHash' = savedHash
          /\ UNCHANGED <<keychain, savedHash, outbox, histories>>
      BY <1>4 DEF Start, NewCycle
    <2>2. RuntimeRollout \in PilotRolloutConfig
      BY ObserverConstants DEF RuntimeRollout, ControlTypeOK
    <2>3. keychain \in 1..keychain
      BY ObserverConstants DEF ObserverTypeOK
    <2>4. Len(queue') + delivered' <= MAXIMUM_ITEMS /\ delivered' \in 0..FLUSH_LIMIT
      BY <2>1, ObserverTyped, ObserverConstants
    <2>5. ObserverTypeOK'
      BY <2>1, <2>2, <2>3, <2>4 DEF ObserverTypeOK, Step, histories
    <2>6. OutboxJustified'
      BY <2>1, ObserverTyped DEF OutboxJustified, histories
    <2> QED BY <1>2, <2>1, <2>5, <2>6
  <1>5. CASE PairAgain
    <2>1. /\ keychain < MaxPairings /\ keychain' = keychain + 1
          /\ UNCHANGED <<memory, savedHash, outbox, histories>>
      BY <1>5 DEF PairAgain
    <2>2. keychain' \in 1..MaxPairings /\ credential' \in 1..keychain'
      BY <2>1, ObserverConstants DEF ObserverTypeOK, memory
    <2>3. ObserverTypeOK'
      BY <2>1, <2>2 DEF ObserverTypeOK, memory, histories
    <2>4. OutboxJustified'
      BY <2>1 DEF OutboxJustified, memory, histories
    <2> QED BY <1>2, <2>1, <2>3, <2>4
  <1>6. CASE \E screen \in Screens : Capture(screen)
    <2>1. /\ lastHash' \in Screens /\ savedHash' \in Screens \cup {None}
          /\ UNCHANGED <<rollout, credential, keychain, outbox, histories>>
          /\ \/ step' = "ASSESS" /\ UNCHANGED <<queue, delivered>>
             \/ step' = "FLUSH" /\ queue' = outbox /\ delivered' = 0
      BY <1>6 DEF Capture, NewCycle, ObserverTypeOK
    <2>2. Len(queue') + delivered' <= MAXIMUM_ITEMS /\ delivered' \in 0..FLUSH_LIMIT
      BY <2>1, ObserverTyped, ObserverConstants DEF ObserverTypeOK
    <2>3. queue' \in Seq(OutboxItem) /\ step' \in Step
      BY <2>1, ObserverTyped DEF Step
    <2>4. ObserverTypeOK'
      BY <2>1, <2>2, <2>3 DEF ObserverTypeOK, histories
    <2>5. OutboxJustified'
      BY <2>1, ObserverTyped DEF OutboxJustified, histories
    <2> QED BY <1>2, <2>1, <2>4, <2>5
  <1> QED BY <1>3, <1>4, <1>5, <1>6

LEMMA OutboxStart == Init => OutboxInv
  <1> SUFFICES ASSUME Init PROVE OutboxInv
    OBVIOUS
  <1>1. /\ step = "DOWN" /\ rollout = FailSafe /\ credential = 1 /\ keychain = 1
        /\ lastHash = None /\ savedHash = None /\ outbox = <<>> /\ queue = <<>>
        /\ delivered = 0 /\ reports = 0 /\ received = {} /\ flushed = {} /\ abandoned = {}
    BY DEF Init
  <1>2. ObserverTypeOK
    BY <1>1, FailSafeTyped, ObserverConstants DEF ObserverTypeOK, Step
  <1>3. OutboxJustified /\ QueueDelivered
    BY <1>1 DEF OutboxJustified, QueueDelivered, Ids
  <1> QED BY <1>2, <1>3 DEF OutboxInv

LEMMA OutboxStep == OutboxInv /\ ControlTypeOK /\ [Next]_vars => OutboxInv'
  <1> SUFFICES ASSUME OutboxInv, ControlTypeOK, [Next]_vars PROVE OutboxInv'
    OBVIOUS
  <1>1. CASE UNCHANGED observerVars
    BY <1>1 DEF observerVars, memory, histories, OutboxInv, ObserverTypeOK, OutboxJustified,
       QueueDelivered, Ids
  <1>2. CASE Start \/ Stop \/ PairAgain \/ \E screen \in Screens : Capture(screen)
    BY <1>2, ProcessStep
  <1>3. CASE Deliver \/ Flushed \/ \E reached \in BOOLEAN :
                DeliveryFails(reached) \/ DeliveryUnanswered(reached)
    BY <1>3, FlushStep
  <1>4. CASE OutboxFull \/ SendUnanswered
    BY <1>4, AbandonStep DEF OutboxFull, SendUnanswered
  <1>5. CASE \E answered, reached \in BOOLEAN :
                \/ \E proposed \in EnforcementAction : SendTelemetry(proposed, answered, reached)
                \/ ReportIncident(answered, reached)
    BY <1>5, ObservationStep
  <1> QED BY <1>1, <1>2, <1>3, <1>4, <1>5 DEF Next, vars

\* The invariant the results about the outbox rest on.
THEOREM OutboxInvariant == Spec => []OutboxInv
  <1>1. OutboxInv /\ ControlInv /\ [Next]_vars => OutboxInv'
    BY OutboxStep DEF ControlInv
  <1> QED BY <1>1, OutboxStart, ControlInvariant, PTL DEF Spec

\* The files of the configuration, the outbox and the observer's memory stay well formed,
\* the outbox within its capacity, whatever fails and whoever dies.
THEOREM ObserverTypeCorrect == Spec => []TypeOK
  <1>1. ControlInv /\ OutboxInv => TypeOK
    BY DEF ControlInv, OutboxInv, TypeOK
  <1> QED BY <1>1, ControlInvariant, OutboxInvariant, PTL

\* However calls fail and processes end, what the loop went on from is at the server or in
\* the outbox, and the queued messages arrive in their order.
THEOREM OutboxLosesNothing == Spec => []QueueDelivered
  <1>1. OutboxInv => QueueDelivered
    BY DEF OutboxInv
  <1> QED BY <1>1, OutboxInvariant, PTL
=============================================================================
