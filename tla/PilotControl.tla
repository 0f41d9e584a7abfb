---------------------------- MODULE PilotControl ----------------------------
(***************************************************************************)
(* The store of the pilot's rollout configuration and the command that     *)
(* changes it (guardian_core/pilot_control.py,                             *)
(* scripts/manage_pilot_rollout.py): operators race, a change writes three *)
(* files one after the other, a write may fail and its predecessors are    *)
(* then put back, and the process may die anywhere.                        *)
(*                                                                         *)
(* A configuration stands for its digest and for the snapshot named after  *)
(* it.  Each file is replaced as a whole, so no reader sees half of one.   *)
(***************************************************************************)
EXTENDS PilotRollout, Sequences

CONSTANTS
    Operators,
    Activatable,    \* the configurations operators activate
    Switches,       \* the kill switches they set
    None,           \* no active configuration, no writer
    MaxChanges      \* bound on the log

ASSUME ControlConstants ==
    /\ Activatable \subseteq PilotRolloutConfig
    /\ Switches \subseteq PilotKillSwitch
    /\ None \notin PilotRolloutConfig
    /\ MaxChanges \in Nat

VARIABLES
    active,         \* active.json
    snapshots,      \* the files of snapshots/
    log,            \* changes.jsonl
    seen,           \* per operator: the active configuration status showed last
    writer          \* the holder of the lock file and how far its change has come

controlVars == <<active, snapshots, log, seen, writer>>

\* The kind of change, its author, ticket and time are recorded, and read by nobody.
PilotConfigChange ==
    [previous: PilotRolloutConfig \cup {None}, active: PilotRolloutConfig]

\* fresh: the snapshot is the change's own; next: the file to write or to put back next;
\* before: the log as the change found it.
Writer == [by: Operators, change: PilotConfigChange, fresh: BOOLEAN, before: Seq(PilotConfigChange),
           next: {"SNAPSHOT", "AUDIT", "ACTIVE", "RESTORE_AUDIT", "RESTORE_SNAPSHOT"}]

ControlTypeOK ==
    /\ active \in PilotRolloutConfig \cup {None}
    /\ snapshots \subseteq PilotRolloutConfig
    /\ log \in Seq(PilotConfigChange)
    /\ seen \in [Operators -> PilotRolloutConfig \cup {None}]
    /\ writer \in Writer \cup {None}

ControlInit ==
    /\ active = None
    /\ snapshots = {}
    /\ log = <<>>
    /\ seen = [o \in Operators |-> None]
    /\ writer = None

-----------------------------------------------------------------------------
\* Without the lock, at any time.
Status(o) ==
    /\ seen' = [seen EXCEPT ![o] = active]
    /\ UNCHANGED <<active, snapshots, log, writer>>

\* Mutation: what the operator was shown is not compared.
AnyDigest(o) == TRUE

\* The digest the command was given is that of the active configuration.
ExpectedDigest(o) == seen[o] = active

\* _write_change up to its transaction, the lock taken without waiting.
WriteChange(o, config) ==
    /\ writer = None /\ Len(log) < MaxChanges
    /\ ExpectedDigest(o)
    /\ writer' =
        [by |-> o, change |-> [previous |-> active, active |-> config],
         fresh |-> config \notin snapshots, before |-> log,
         next |-> IF config \in snapshots THEN "AUDIT" ELSE "SNAPSHOT"]
    /\ UNCHANGED <<active, snapshots, log, seen>>

Activate(o, config) == WriteChange(o, config)

HasGlobalKillSwitch(config) ==
    \E s \in config.switches : s.enabled /\ s.category = Every /\ s.cohort = Every

\* Only to a technical shadow or to a global kill switch, whatever its ceiling.
Rollback(o, target) ==
    /\ target \in snapshots
    /\ target.mode = "TECHNICAL_SHADOW" \/ HasGlobalKillSwitch(target)
    /\ WriteChange(o, target)

\* A switch of the same identifier is replaced.
SetKillSwitch(o, switch) ==
    /\ active # None
    /\ LET others == {s \in active.switches : s.id # switch.id}
       IN  WriteChange(o, [active EXCEPT !.switches = others \cup {switch}])

-----------------------------------------------------------------------------
(* _apply_transaction: the files in order; on an error those written, in reverse. *)

WriteSnapshot ==
    /\ writer # None /\ writer.next = "SNAPSHOT"
    /\ snapshots' = snapshots \cup {writer.change.active}
    /\ writer' = [writer EXCEPT !.next = "AUDIT"]
    /\ UNCHANGED <<active, log, seen>>

WriteAudit ==
    /\ writer # None /\ writer.next = "AUDIT"
    /\ log' = Append(writer.before, writer.change)
    /\ writer' = [writer EXCEPT !.next = "ACTIVE"]
    /\ UNCHANGED <<active, snapshots, seen>>

WriteActive ==
    /\ writer # None /\ writer.next = "ACTIVE"
    /\ active' = writer.change.active
    /\ writer' = None
    /\ UNCHANGED <<snapshots, log, seen>>

WriteFails ==
    /\ writer # None /\ writer.next \in {"SNAPSHOT", "AUDIT", "ACTIVE"}
    /\ writer' = IF writer.next = "ACTIVE" THEN [writer EXCEPT !.next = "RESTORE_AUDIT"]
                 ELSE IF writer.next = "AUDIT" /\ writer.fresh
                 THEN [writer EXCEPT !.next = "RESTORE_SNAPSHOT"]
                 ELSE None
    /\ UNCHANGED <<active, snapshots, log, seen>>

\* Mutation: a snapshot that was there before is removed, too.
RestoreAllSnapshots ==
    /\ writer # None /\ writer.next = "RESTORE_AUDIT"
    /\ log' = writer.before
    /\ writer' = [writer EXCEPT !.next = "RESTORE_SNAPSHOT"]
    /\ UNCHANGED <<active, snapshots, seen>>

RestoreAudit ==
    /\ writer # None /\ writer.next = "RESTORE_AUDIT"
    /\ log' = writer.before
    /\ writer' = IF writer.fresh THEN [writer EXCEPT !.next = "RESTORE_SNAPSHOT"] ELSE None
    /\ UNCHANGED <<active, snapshots, seen>>

RestoreSnapshot ==
    /\ writer # None /\ writer.next = "RESTORE_SNAPSHOT"
    /\ snapshots' = snapshots \ {writer.change.active}
    /\ writer' = None
    /\ UNCHANGED <<active, log, seen>>

\* The writer's process dies, or a restore fails: the system frees the lock.
WriterDies ==
    /\ writer # None
    /\ writer' = None
    /\ UNCHANGED <<active, snapshots, log, seen>>

ControlNext ==
    \/ \E o \in Operators :
          \/ Status(o)
          \/ \E c \in Activatable : Activate(o, c)
          \/ \E c \in snapshots : Rollback(o, c)
          \/ \E s \in Switches : SetKillSwitch(o, s)
    \/ WriteSnapshot \/ WriteAudit \/ WriteActive
    \/ WriteFails \/ RestoreAudit \/ RestoreSnapshot \/ WriterDies

-----------------------------------------------------------------------------
(* Properties *)

Enabled(config) == IF config = None THEN {} ELSE {s \in config.switches : s.enabled}

\* No change drops or loosens a kill switch its operator was not shown: between the
\* status an operator read, the check under the lock and the last of the three writes,
\* others may have changed the configuration, failed or died.
KillSwitchSurvives ==
    [][active' # active =>
         \A s \in Enabled(active) \ Enabled(active') :
            writer # None /\ s \in Enabled(seen[writer.by])]_controlVars

\* Wherever a change stops, the log's last line tells what is active: that change's
\* configuration, or the one before it.  And what is active can be rolled back to.
LogExplainsActive ==
    /\ active # None => active \in snapshots
    /\ IF log = <<>> THEN active = None
       ELSE active \in {log[Len(log)].active, log[Len(log)].previous}
=============================================================================
