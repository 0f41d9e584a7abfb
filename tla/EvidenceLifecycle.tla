-------------------------- MODULE EvidenceLifecycle --------------------------
(***************************************************************************)
(* Evidence under access control, retention, family deletion and restore   *)
(* (api/data_security/evidence.py and lifecycle.py), over the tables of    *)
(* api/data_security/schema.py: both repositories of the library are taken *)
(* to be the one table evidence_objects, so that marking evidence          *)
(* inaccessible is mark_deleted, and one FamilyRevoker is taken to be the  *)
(* family epoch of the authorization state.                                *)
(*                                                                         *)
(* No transaction spans the calls of an operation: each call to a          *)
(* repository, the ledger or the object store is a step of its own, and a  *)
(* crash may fall between any two.                                         *)
(***************************************************************************)
EXTENDS Integers, Sequences, FiniteSets

CONSTANTS
    Families,
    Evidence,           \* ids; the object key of a record goes by its id
    Sessions,
    Handlers,           \* calls of EvidenceService in progress
    Jobs,               \* retention runs and family deletions in progress
    Nothing,            \* no row, no family, no backup
    Retention,          \* evidence lives for one of these times
    GrantTtl,           \* a grant for one of these
    MaxTime, MaxEpoch   \* bounds

ASSUME EvidenceConstants ==
    /\ Nothing \notin Families \cup Evidence
    /\ Families \cap Evidence = {}
    /\ Retention \subseteq Nat \ {0} /\ GrantTtl \subseteq Nat \ {0}
    /\ {MaxTime, MaxEpoch} \subseteq Nat

VARIABLES
    now,
    families,       \* families with rows
    hidden,         \* families marked inaccessible
    rows,           \* evidence_objects
    grants,         \* evidence_access_grants
    objects,        \* keys the object store holds
    epoch, sessions,    \* the authorization state
    ledger,         \* deletion_tombstones: their targets, in order of sequence
    calls, jobs,
    backup,         \* the last backup of the database
    open,           \* access is open
    closed          \* history: evidence that has been made inaccessible

database == <<families, hidden, rows, grants>>
authorization == <<epoch, sessions>>
vars == <<now, database, objects, authorization, ledger, calls, jobs, backup, open, closed>>

EvidenceRecord == [family: Families, expires: Nat, deleted: BOOLEAN]

Grant == [evidence: Evidence, session: Sessions, epoch: Nat, expires: Nat, revoked: BOOLEAN]

Idle == [step |-> "IDLE"]

\* A store has put the object; an issue has found the evidence; a delivery has found its
\* grant, and then its evidence.  barred is a history field: the evidence was inaccessible
\* when the delivery began.
Call ==
    {Idle} \cup [step: {"PUT"}, evidence: Evidence, row: EvidenceRecord]
           \cup [step: {"ISSUING"}, grant: Grant]
           \cup [step: {"FOUND", "READ"}, evidence: Evidence, at: Nat, barred: BOOLEAN]

\* family is Nothing in a retention run.
JobStep == {"REQUESTED", "HIDDEN", "NEXT", "TOMBSTONED", "MARKED", "DELETED"}

Job == {Idle} \cup [step: JobStep, family: Families \cup {Nothing}, todo: SUBSET Evidence,
                    current: Evidence \cup {Nothing}, failed: BOOLEAN]

Backup == [families: SUBSET Families, hidden: SUBSET Families,
           rows: [Evidence -> EvidenceRecord \cup {Nothing}], grants: SUBSET Grant,
           watermark: Nat]

TypeOK ==
    /\ now \in 0..MaxTime
    /\ hidden \subseteq Families /\ families \subseteq Families
    /\ rows \in [Evidence -> EvidenceRecord \cup {Nothing}]
    /\ grants \subseteq Grant
    /\ objects \subseteq Evidence /\ closed \subseteq Evidence
    /\ epoch \in [Families -> 0..MaxEpoch]
    /\ sessions \in [Sessions -> [family: Families, epoch: Nat] \cup {Nothing}]
    /\ ledger \in Seq(Families \cup Evidence)
    /\ \A i, j \in DOMAIN ledger : ledger[i] = ledger[j] => i = j
    /\ calls \in [Handlers -> Call] /\ jobs \in [Jobs -> Job]
    /\ backup \in Backup \cup {Nothing}
    /\ open \in BOOLEAN

Init ==
    /\ now = 0
    /\ families = Families /\ hidden = {}
    /\ rows = [e \in Evidence |-> Nothing]
    /\ grants = {} /\ objects = {} /\ closed = {}
    /\ epoch = [f \in Families |-> 0]
    /\ sessions = [s \in Sessions |-> Nothing]
    /\ ledger = <<>>
    /\ calls = [h \in Handlers |-> Idle] /\ jobs = [j \in Jobs |-> Idle]
    /\ backup = Nothing /\ open = TRUE

Tick ==
    /\ now < MaxTime
    /\ now' = now + 1
    /\ UNCHANGED <<database, objects, authorization, ledger, calls, jobs, backup, open, closed>>

-----------------------------------------------------------------------------
(* The authorization state *)

Register(s, f) ==
    /\ sessions' = [sessions EXCEPT ![s] = [family |-> f, epoch |-> epoch[f]]]
    /\ UNCHANGED <<now, database, objects, epoch, ledger, calls, jobs, backup, open, closed>>

RevokeSession(s) ==
    /\ sessions' = [sessions EXCEPT ![s] = Nothing]
    /\ UNCHANGED <<now, database, objects, epoch, ledger, calls, jobs, backup, open, closed>>

\* The subject is the one that was registered.
IsActive(s) == sessions[s] # Nothing /\ sessions[s].epoch = epoch[sessions[s].family]

-----------------------------------------------------------------------------
(* EvidenceService *)

Continue(h, call) == calls' = [calls EXCEPT ![h] = call]

\* Neither deleted nor expired at time t.
Live(e, t) == rows[e] # Nothing /\ ~rows[e].deleted /\ t < rows[e].expires

\* Ids and keys are random: no other record has had them.
Fresh(e) ==
    /\ rows[e] = Nothing /\ e \notin objects \cup closed
    /\ \A h \in Handlers : calls[h].step = "PUT" => calls[h].evidence # e

PutObject(h, e, f, retention) ==
    /\ open /\ calls[h] = Idle /\ f \in families /\ Fresh(e)
    /\ objects' = objects \cup {e}
    /\ Continue(h, [step |-> "PUT", evidence |-> e,
           row |-> [family |-> f, expires |-> now + retention, deleted |-> FALSE]])
    /\ UNCHANGED <<now, database, authorization, ledger, jobs, backup, open, closed>>

\* The row references its family.
AddEvidence(h) ==
    /\ calls[h].step = "PUT" /\ calls[h].row.family \in families
    /\ rows' = [rows EXCEPT ![calls[h].evidence] = calls[h].row]
    /\ Continue(h, Idle)
    /\ UNCHANGED <<now, families, hidden, grants, objects, authorization, ledger, jobs,
                   backup, open, closed>>

\* add_evidence raised, for the family or for the database.
UndoPut(h) ==
    /\ calls[h].step = "PUT"
    /\ objects' = objects \ {calls[h].evidence}
    /\ Continue(h, Idle)
    /\ UNCHANGED <<now, database, authorization, ledger, jobs, backup, open, closed>>

CheckEvidence(h, s, e, ttl) ==
    /\ open /\ calls[h] = Idle /\ IsActive(s)
    /\ Live(e, now) /\ rows[e].family = sessions[s].family
    /\ LET expires == IF now + ttl < rows[e].expires THEN now + ttl ELSE rows[e].expires
       IN  Continue(h, [step |-> "ISSUING",
               grant |-> [evidence |-> e, session |-> s, epoch |-> sessions[s].epoch,
                          expires |-> expires, revoked |-> FALSE]])
    /\ UNCHANGED <<now, database, objects, authorization, ledger, jobs, backup, open, closed>>

\* The grant references its evidence.
AddGrant(h) ==
    /\ calls[h].step = "ISSUING"
    /\ grants' = IF rows[calls[h].grant.evidence] = Nothing THEN grants
                 ELSE grants \cup {calls[h].grant}
    /\ Continue(h, Idle)
    /\ UNCHANGED <<now, families, hidden, rows, objects, authorization, ledger, jobs, backup,
                   open, closed>>

FindGrant(h, g) ==
    /\ open /\ calls[h] = Idle
    /\ IsActive(g.session) /\ g.epoch = sessions[g.session].epoch
    /\ ~g.revoked /\ now < g.expires
    /\ Continue(h, [step |-> "FOUND", evidence |-> g.evidence, at |-> now,
                    barred |-> g.evidence \in closed])
    /\ UNCHANGED <<now, database, objects, authorization, ledger, jobs, backup, open, closed>>

ReadEvidence(h) ==
    /\ calls[h].step = "FOUND"
    /\ Continue(h, IF Live(calls[h].evidence, calls[h].at)
                   THEN [calls[h] EXCEPT !.step = "READ"] ELSE Idle)
    /\ UNCHANGED <<now, database, objects, authorization, ledger, jobs, backup, open, closed>>

\* The object is delivered, or not found any more; a crash ends any call the same way.
EndCall(h) ==
    /\ calls[h] # Idle
    /\ Continue(h, Idle)
    /\ UNCHANGED <<now, database, objects, authorization, ledger, jobs, backup, open, closed>>

Revoked(e) == {IF g.evidence = e THEN [g EXCEPT !.revoked = TRUE] ELSE g : g \in grants}

RevokeGrants(e) ==
    /\ open /\ rows[e] # Nothing
    /\ grants' = Revoked(e)
    /\ UNCHANGED <<now, families, hidden, rows, objects, authorization, ledger, calls, jobs,
                   backup, open, closed>>

-----------------------------------------------------------------------------
(* RetentionCoordinator.expire and FamilyPrivacyService.delete *)

\* Mutation: nothing is recorded.
ForgetTombstone(target) == ledger

\* Mutation: a target is recorded each time it is deleted.
RecordAgain(target) == Append(ledger, target)

\* One tombstone for each target.
WithTombstone(target) ==
    IF \E i \in DOMAIN ledger : ledger[i] = target THEN ledger ELSE Append(ledger, target)

Proceed(j, step) == jobs' = [jobs EXCEPT ![j].step = step]

NewJob(j, step, family, todo) ==
    jobs' = [jobs EXCEPT ![j] = [step |-> step, family |-> family, todo |-> todo,
                                 current |-> Nothing, failed |-> FALSE]]

\* The next piece of evidence of the list the job read once.
Take(j, step) ==
    \E e \in jobs[j].todo :
        jobs' = [jobs EXCEPT ![j].step = step, ![j].current = e, ![j].todo = @ \ {e}]

StartRetention(j) ==
    /\ open /\ jobs[j] = Idle
    /\ NewJob(j, "NEXT", Nothing, {e \in Evidence : rows[e] # Nothing /\ rows[e].expires <= now})
    /\ UNCHANGED <<now, database, objects, authorization, ledger, calls, backup, open, closed>>

TombstoneEvidence(j) ==
    /\ jobs[j].step = "NEXT" /\ jobs[j].family = Nothing
    /\ Take(j, "TOMBSTONED")
    /\ ledger' = WithTombstone(jobs'[j].current)
    /\ UNCHANGED <<now, database, objects, authorization, calls, backup, open, closed>>

TombstoneFamily(j, f) ==
    /\ open /\ jobs[j] = Idle /\ f \in families /\ epoch[f] < MaxEpoch
    /\ ledger' = WithTombstone(f)
    /\ NewJob(j, "REQUESTED", f, {})
    /\ UNCHANGED <<now, database, objects, authorization, calls, backup, open, closed>>

HideFamily(j) ==
    /\ jobs[j].step = "REQUESTED"
    /\ hidden' = hidden \cup {jobs[j].family}
    /\ Proceed(j, "HIDDEN")
    /\ UNCHANGED <<now, families, rows, grants, objects, authorization, ledger, calls, backup,
                   open, closed>>

\* Then the family's evidence is listed.
RevokeFamily(j) ==
    /\ jobs[j].step = "HIDDEN" /\ epoch[jobs[j].family] < MaxEpoch
    /\ epoch' = [epoch EXCEPT ![jobs[j].family] = @ + 1]
    /\ NewJob(j, "NEXT", jobs[j].family,
              {e \in Evidence : rows[e] # Nothing /\ rows[e].family = jobs[j].family})
    /\ UNCHANGED <<now, database, objects, sessions, ledger, calls, backup, open, closed>>

Mark(e) ==
    /\ rows' = IF rows[e] = Nothing THEN rows ELSE [rows EXCEPT ![e].deleted = TRUE]
    /\ grants' = Revoked(e)
    /\ closed' = closed \cup {e}

MarkExpired(j) ==
    /\ jobs[j].step = "TOMBSTONED"
    /\ Mark(jobs[j].current)
    /\ Proceed(j, "MARKED")
    /\ UNCHANGED <<now, families, hidden, objects, authorization, ledger, calls, backup, open>>

\* Family deletion has its one tombstone already.
MarkOfFamily(j) ==
    /\ jobs[j].step = "NEXT" /\ jobs[j].family # Nothing
    /\ Take(j, "MARKED")
    /\ Mark(jobs'[j].current)
    /\ UNCHANGED <<now, families, hidden, objects, authorization, ledger, calls, backup, open>>

DeleteObject(j) ==
    /\ jobs[j].step = "MARKED"
    /\ objects' = objects \ {jobs[j].current}
    /\ Proceed(j, "DELETED")
    /\ UNCHANGED <<now, database, authorization, ledger, calls, backup, open, closed>>

\* The row stays, inaccessible, for another run.
DeleteObjectFails(j) ==
    /\ jobs[j].step = "MARKED"
    /\ jobs' = [jobs EXCEPT ![j].step = "NEXT", ![j].failed = TRUE]
    /\ UNCHANGED <<now, database, objects, authorization, ledger, calls, backup, open, closed>>

\* The rows of some evidence, and the grants that reference them.
Remove(set) ==
    /\ rows' = [e \in Evidence |-> IF e \in set THEN Nothing ELSE rows[e]]
    /\ grants' = {g \in grants : g.evidence \notin set}

PurgeEvidence(j) ==
    /\ jobs[j].step = "DELETED"
    /\ Remove({jobs[j].current})
    /\ Proceed(j, "NEXT")
    /\ UNCHANGED <<now, families, hidden, objects, authorization, ledger, calls, backup, open,
                   closed>>

EvidenceOf(f) == {e \in Evidence : rows[e] # Nothing /\ rows[e].family = f}

\* A family's rows go when all its listed objects have, with any row added since.
EndJob(j) ==
    /\ jobs[j].step = "NEXT" /\ jobs[j].todo = {}
    /\ LET f == jobs[j].family
       IN  IF f = Nothing \/ jobs[j].failed
           THEN UNCHANGED <<database, closed>>
           ELSE /\ families' = families \ {f}
                /\ Remove(EvidenceOf(f))
                /\ closed' = closed \cup EvidenceOf(f)
                /\ UNCHANGED hidden
    /\ jobs' = [jobs EXCEPT ![j] = Idle]
    /\ UNCHANGED <<now, objects, authorization, ledger, calls, backup, open>>

CrashJob(j) ==
    /\ jobs[j] # Idle
    /\ jobs' = [jobs EXCEPT ![j] = Idle]
    /\ UNCHANGED <<now, database, objects, authorization, ledger, calls, backup, open, closed>>

-----------------------------------------------------------------------------
(* Backups and restore *)

\* is_tombstone_applied.
Applied(target) == IF target \in Families THEN target \notin families ELSE rows[target] = Nothing

\* A backup and its watermark: the operator vouches for the tombstones up to it. The
\* objects, the ledger and the authorization state are kept elsewhere.
TakeBackup ==
    /\ open
    /\ \E w \in 0..Len(ledger) :
          /\ \A i \in 1..w : Applied(ledger[i])
          /\ backup' = [families |-> families, hidden |-> hidden, rows |-> rows,
                        grants |-> grants, watermark |-> w]
    /\ UNCHANGED <<now, database, objects, authorization, ledger, calls, jobs, open, closed>>

\* The database is lost, with everything in progress.
Restore ==
    /\ backup # Nothing
    /\ families' = backup.families /\ hidden' = backup.hidden
    /\ rows' = backup.rows /\ grants' = backup.grants
    /\ calls' = [h \in Handlers |-> Idle] /\ jobs' = [j \in Jobs |-> Idle]
    /\ open' = FALSE
    /\ UNCHANGED <<now, objects, authorization, ledger, backup, closed>>

\* Mutation: the first tombstone after the watermark is taken for one before it.
AfterNext(w) == {ledger[i] : i \in (w + 2)..Len(ledger)}

After(w) == {ledger[i] : i \in (w + 1)..Len(ledger)}

\* Every tombstone after the watermark is applied, but for those that raise; access is
\* opened only if none did.
Reconcile ==
    /\ ~open
    /\ \E failures \in SUBSET After(backup.watermark) :
          LET done == After(backup.watermark) \ failures
              gone == done \cap Families
          IN  /\ families' = families \ gone
              /\ hidden' = hidden \cup gone
              /\ Remove((done \cap Evidence) \cup UNION {EvidenceOf(f) : f \in gone})
              /\ open' = (failures = {})
    /\ UNCHANGED <<now, objects, authorization, ledger, calls, jobs, backup, closed>>

-----------------------------------------------------------------------------
Service(h) ==
    \/ \E e \in Evidence, f \in Families, r \in Retention : PutObject(h, e, f, r)
    \/ AddEvidence(h) \/ UndoPut(h)
    \/ \E s \in Sessions, e \in Evidence, ttl \in GrantTtl : CheckEvidence(h, s, e, ttl)
    \/ AddGrant(h)
    \/ \E g \in grants : FindGrant(h, g)
    \/ ReadEvidence(h)
    \/ EndCall(h)

Deletion(j) ==
    \/ StartRetention(j) \/ TombstoneEvidence(j) \/ MarkExpired(j)
    \/ \E f \in Families : TombstoneFamily(j, f)
    \/ HideFamily(j) \/ RevokeFamily(j) \/ MarkOfFamily(j)
    \/ DeleteObject(j) \/ DeleteObjectFails(j) \/ PurgeEvidence(j)
    \/ EndJob(j) \/ CrashJob(j)

Next ==
    \/ Tick
    \/ \E s \in Sessions : RevokeSession(s) \/ \E f \in Families : Register(s, f)
    \/ \E e \in Evidence : RevokeGrants(e)
    \/ \E h \in Handlers : Service(h)
    \/ \E j \in Jobs : Deletion(j)
    \/ TakeBackup \/ Restore \/ Reconcile

Spec == Init /\ [][Next]_vars

-----------------------------------------------------------------------------
(* Properties *)

\* No delivery that begins after evidence was made inaccessible gets as far as its
\* object, with grants that were being issued meanwhile, or rows and grants that a
\* restored backup brought back.
NothingDeletedIsDelivered ==
    \A h \in Handlers : calls[h].step = "READ" => ~calls[h].barred

\* While access is open, every record a parent may still read has its object: no crash,
\* failed deletion or restore leaves a live row of a deleted object.
ServedIntact ==
    open => \A e \in Evidence : rows[e] # Nothing /\ ~rows[e].deleted => e \in objects
=============================================================================
