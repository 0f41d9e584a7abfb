---------------------- MODULE EvidenceLifecycleProofs ----------------------
(***************************************************************************)
(* Proofs about EvidenceLifecycle for every set of families, evidence,     *)
(* sessions, calls and jobs, every time to live and every backup.          *)
(***************************************************************************)
EXTENDS EvidenceLifecycle, SequenceTheorems, TLAPS

-----------------------------------------------------------------------------
(* Calls, jobs and rows *)

Running == [step: JobStep, family: Families \cup {Nothing}, todo: SUBSET Evidence,
            current: Evidence \cup {Nothing}, failed: BOOLEAN]

\* What the step of a job says of its family and its current evidence.
JobsShaped ==
    \A j \in Jobs :
        /\ jobs[j].step \in {"REQUESTED", "HIDDEN"} => jobs[j].family \in Families
        /\ jobs[j].step \in {"TOMBSTONED", "MARKED", "DELETED"} => jobs[j].current \in Evidence

\* Nothing is under way while access is closed for a restore.
Suspended ==
    ~open =>
        /\ backup # Nothing
        /\ \A h \in Handlers : calls[h] = Idle
        /\ \A j \in Jobs : jobs[j] = Idle

WellFormed == TypeOK /\ JobsShaped /\ Suspended

LEMMA ConstantsTyped ==
    /\ Nothing \notin Families /\ Nothing \notin Evidence
    /\ \A x \in Families : x \notin Evidence
    /\ \A r \in Retention : r \in Nat
    /\ \A ttl \in GrantTtl : ttl \in Nat
    /\ MaxTime \in Nat /\ MaxEpoch \in Nat
  BY EvidenceConstants

LEMMA CallTyped ==
    ASSUME NEW call \in Call
    PROVE  /\ call.step = "PUT" => call.evidence \in Evidence /\ call.row \in EvidenceRecord
           /\ call.step = "ISSUING" => call.grant \in Grant
           /\ call.step \in {"FOUND", "READ"} =>
                 call \in [step: {"FOUND", "READ"}, evidence: Evidence, at: Nat, barred: BOOLEAN]
           /\ call.step \in {"PUT", "ISSUING", "FOUND", "READ"} => call # Idle
  BY DEF Call, Idle

LEMMA JobTyped ==
    ASSUME NEW job \in Job
    PROVE  /\ job # Idle <=> job \in Running
           /\ job.step \in JobStep <=> job \in Running
           /\ Idle.step \notin JobStep
  BY DEF Job, Running, Idle, JobStep

LEMMA Continued ==
    ASSUME TypeOK, NEW h \in Handlers, NEW call \in Call, Continue(h, call)
    PROVE  /\ calls' \in [Handlers -> Call] /\ calls'[h] = call
           /\ \A g \in Handlers : g # h => calls'[g] = calls[g]
  BY DEF TypeOK, Continue

\* The record of a job is replaced by another.
LEMMA JobReplaced ==
    ASSUME TypeOK, NEW j \in Jobs, NEW job \in Job, jobs' = [jobs EXCEPT ![j] = job]
    PROVE  /\ jobs' \in [Jobs -> Job] /\ jobs'[j] = job
           /\ \A i \in Jobs : i # j => jobs'[i] = jobs[i]
  BY DEF TypeOK

LEMMA Proceeded ==
    ASSUME TypeOK, NEW j \in Jobs, jobs[j].step \in JobStep, NEW step \in JobStep,
           Proceed(j, step)
    PROVE  /\ jobs' \in [Jobs -> Job] /\ jobs'[j] # Idle /\ jobs'[j].step = step
           /\ jobs'[j].family = jobs[j].family /\ jobs'[j].todo = jobs[j].todo
           /\ jobs'[j].current = jobs[j].current
           /\ \A i \in Jobs : i # j => jobs'[i] = jobs[i]
  <1>1. jobs[j] \in Running
    BY JobTyped DEF TypeOK
  <1> DEFINE job == [jobs[j] EXCEPT !.step = step]
  <1>2. /\ job \in Running /\ job.step = step /\ job.family = jobs[j].family
        /\ job.todo = jobs[j].todo /\ job.current = jobs[j].current
    BY <1>1 DEF Running
  <1>3. jobs' = [jobs EXCEPT ![j] = job]
    BY DEF Proceed
  <1> HIDE DEF job
  <1>4. job \in Job /\ job # Idle
    BY <1>2, JobTyped DEF Job, Running
  <1> QED BY <1>2, <1>3, <1>4, JobReplaced

LEMMA Failed ==
    ASSUME TypeOK, NEW j \in Jobs, DeleteObjectFails(j)
    PROVE  /\ jobs' \in [Jobs -> Job] /\ jobs'[j] # Idle /\ jobs'[j].step = "NEXT"
           /\ jobs'[j].family = jobs[j].family /\ jobs'[j].todo = jobs[j].todo
           /\ jobs'[j].current = jobs[j].current
           /\ \A i \in Jobs : i # j => jobs'[i] = jobs[i]
  <1>1. jobs[j] \in Running
    BY JobTyped DEF TypeOK, DeleteObjectFails, JobStep
  <1> DEFINE job == [jobs[j] EXCEPT !.step = "NEXT", !.failed = TRUE]
  <1>2. /\ job \in Running /\ job.step = "NEXT" /\ job.family = jobs[j].family
        /\ job.todo = jobs[j].todo /\ job.current = jobs[j].current
    <2>1. ASSUME NEW row \in [step: JobStep, family: Families \cup {Nothing},
                              todo: SUBSET Evidence, current: Evidence \cup {Nothing},
                              failed: BOOLEAN]
          PROVE  LET next == [row EXCEPT !.step = "NEXT", !.failed = TRUE]
                 IN  /\ next \in [step: JobStep, family: Families \cup {Nothing},
                                  todo: SUBSET Evidence, current: Evidence \cup {Nothing},
                                  failed: BOOLEAN]
                     /\ next.step = "NEXT" /\ next.family = row.family
                     /\ next.todo = row.todo /\ next.current = row.current
      BY DEF JobStep
    <2> QED BY <1>1, <2>1 DEF Running
  <1>3. jobs' = [jobs EXCEPT ![j] = job]
    <2>1. DOMAIN jobs = Jobs
      BY DEF TypeOK
    <2> QED BY <2>1 DEF DeleteObjectFails
  <1> HIDE DEF job
  <1>4. job \in Job /\ job # Idle
    BY <1>2, JobTyped DEF Job, Running
  <1> QED BY <1>2, <1>3, <1>4, JobReplaced

LEMMA Begun ==
    ASSUME TypeOK, NEW j \in Jobs, NEW step \in JobStep, NEW family \in Families \cup {Nothing},
           NEW todo \in SUBSET Evidence, NewJob(j, step, family, todo)
    PROVE  /\ jobs' \in [Jobs -> Job] /\ jobs'[j] # Idle /\ jobs'[j].step = step
           /\ jobs'[j].family = family /\ jobs'[j].todo = todo /\ jobs'[j].current = Nothing
           /\ \A i \in Jobs : i # j => jobs'[i] = jobs[i]
  <1> DEFINE job == [step |-> step, family |-> family, todo |-> todo,
                     current |-> Nothing, failed |-> FALSE]
  <1>1. /\ job \in Running /\ job.step = step /\ job.family = family
        /\ job.todo = todo /\ job.current = Nothing
    BY DEF Running
  <1>2. jobs' = [jobs EXCEPT ![j] = job]
    BY DEF NewJob
  <1> HIDE DEF job
  <1>3. job \in Job /\ job # Idle
    BY <1>1, JobTyped DEF Job, Running
  <1> QED BY <1>1, <1>2, <1>3, JobReplaced

LEMMA Taken ==
    ASSUME TypeOK, NEW j \in Jobs, jobs[j].step \in JobStep, NEW step \in JobStep,
           Take(j, step)
    PROVE  \E e \in jobs[j].todo :
           /\ e \in Evidence
           /\ jobs' \in [Jobs -> Job] /\ jobs'[j] # Idle /\ jobs'[j].step = step
           /\ jobs'[j].family = jobs[j].family /\ jobs'[j].todo = jobs[j].todo \ {e}
           /\ jobs'[j].current = e
           /\ \A i \in Jobs : i # j => jobs'[i] = jobs[i]
  <1>1. jobs[j] \in Running /\ DOMAIN jobs = Jobs
    BY JobTyped DEF TypeOK
  <1>2. PICK e \in jobs[j].todo :
           jobs' = [jobs EXCEPT ![j].step = step, ![j].current = e, ![j].todo = @ \ {e}]
    BY DEF Take
  <1> DEFINE job == [jobs[j] EXCEPT !.step = step, !.current = e, !.todo = @ \ {e}]
  <1>3. e \in Evidence
    BY <1>1 DEF Running
  <1>4. /\ job \in Running /\ job.step = step /\ job.family = jobs[j].family
        /\ job.todo = jobs[j].todo \ {e} /\ job.current = e
    <2>1. ASSUME NEW row \in [step: JobStep, family: Families \cup {Nothing},
                              todo: SUBSET Evidence, current: Evidence \cup {Nothing},
                              failed: BOOLEAN],
                 NEW left \in SUBSET Evidence
          PROVE  LET next == [row EXCEPT !.step = step, !.current = e, !.todo = left]
                 IN  /\ next \in [step: JobStep, family: Families \cup {Nothing},
                                  todo: SUBSET Evidence, current: Evidence \cup {Nothing},
                                  failed: BOOLEAN]
                     /\ next.step = step /\ next.family = row.family
                     /\ next.todo = left /\ next.current = e
      BY <1>3
    <2>2. jobs[j].todo \ {e} \in SUBSET Evidence
      BY <1>1 DEF Running
    <2>3. job = [jobs[j] EXCEPT !.step = step, !.current = e, !.todo = jobs[j].todo \ {e}]
      BY <1>1 DEF Running
    <2> QED BY <1>1, <2>1, <2>2, <2>3 DEF Running
  <1>5. jobs' = [jobs EXCEPT ![j] = job]
    BY <1>1, <1>2 DEF Running
  <1> HIDE DEF job
  <1>6. job \in Job /\ job # Idle
    BY <1>4, JobTyped DEF Job, Running
  <1> QED BY <1>3, <1>4, <1>5, <1>6, JobReplaced

LEMMA Ended ==
    ASSUME TypeOK, NEW j \in Jobs, jobs' = [jobs EXCEPT ![j] = Idle]
    PROVE  /\ jobs' \in [Jobs -> Job] /\ jobs'[j] = Idle
           /\ \A i \in Jobs : i # j => jobs'[i] = jobs[i]
  BY JobReplaced DEF Job
LEMMA Marked ==
    ASSUME TypeOK, NEW e \in Evidence, Mark(e)
    PROVE  /\ rows' \in [Evidence -> EvidenceRecord \cup {Nothing}]
           /\ grants' \subseteq Grant
           /\ closed' = closed \cup {e}
           /\ rows'[e] = Nothing \/ rows'[e].deleted
           /\ \A x \in Evidence :
                 /\ rows'[x] # Nothing => rows[x] # Nothing /\ rows'[x].family = rows[x].family
                 /\ x # e => rows'[x] = rows[x]
  <1>1. rows \in [Evidence -> EvidenceRecord \cup {Nothing}] /\ grants \subseteq Grant
    BY DEF TypeOK
  <1>2. grants' \subseteq Grant
    <2>1. \A g \in Grant : [g EXCEPT !.revoked = TRUE] \in Grant
      BY DEF Grant
    <2> QED BY <1>1, <2>1 DEF Mark, Revoked
  <1>3. CASE rows[e] = Nothing
    BY <1>1, <1>2, <1>3 DEF Mark
  <1>4. CASE rows[e] # Nothing
    <2> DEFINE row == [rows[e] EXCEPT !.deleted = TRUE]
    <2>1. row \in EvidenceRecord /\ row.family = rows[e].family /\ row.deleted
      BY <1>1, <1>4 DEF EvidenceRecord
    <2>2. rows' = [rows EXCEPT ![e] = row] /\ closed' = closed \cup {e}
      BY <1>4 DEF Mark
    <2> HIDE DEF row
    <2>3. \A x \in Evidence : rows'[x] = IF x = e THEN row ELSE rows[x]
      BY <1>1, <2>2
    <2>4. rows' \in [Evidence -> EvidenceRecord \cup {Nothing}]
      BY <1>1, <2>1, <2>2
    <2> QED BY <1>2, <1>4, <2>1, <2>2, <2>3, <2>4
  <1> QED BY <1>3, <1>4

LEMMA Removed ==
    ASSUME TypeOK, NEW set, Remove(set)
    PROVE  /\ rows' \in [Evidence -> EvidenceRecord \cup {Nothing}]
           /\ grants' \subseteq Grant
           /\ \A x \in Evidence : rows'[x] = IF x \in set THEN Nothing ELSE rows[x]
  BY DEF TypeOK, Remove

LEMMA Tombstoned ==
    ASSUME TypeOK, NEW target \in Families \cup Evidence, ledger' = WithTombstone(target)
    PROVE  /\ ledger' \in Seq(Families \cup Evidence)
           /\ \A i, k \in DOMAIN ledger' : ledger'[i] = ledger'[k] => i = k
           /\ Len(ledger) <= Len(ledger')
           /\ \E i \in DOMAIN ledger' : ledger'[i] = target
           /\ \A i \in DOMAIN ledger : i \in DOMAIN ledger' /\ ledger'[i] = ledger[i]
           /\ \A i \in DOMAIN ledger' : i \in DOMAIN ledger \/ ledger'[i] = target
  <1>1. /\ ledger \in Seq(Families \cup Evidence)
        /\ \A i, k \in DOMAIN ledger : ledger[i] = ledger[k] => i = k
    BY DEF TypeOK
  <1>2. CASE \E i \in DOMAIN ledger : ledger[i] = target
    BY <1>1, <1>2 DEF WithTombstone
  <1>3. CASE ~\E i \in DOMAIN ledger : ledger[i] = target
    <2>1. ledger' = Append(ledger, target)
      BY <1>3 DEF WithTombstone
    <2>2. /\ ledger' \in Seq(Families \cup Evidence) /\ Len(ledger') = Len(ledger) + 1
          /\ \A i \in 1..Len(ledger) : ledger'[i] = ledger[i]
          /\ ledger'[Len(ledger) + 1] = target
      BY <1>1, <2>1, AppendProperties
    <2>3. /\ DOMAIN ledger' = 1..Len(ledger') /\ DOMAIN ledger = 1..Len(ledger)
          /\ Len(ledger) \in Nat
      BY <1>1, <2>2
    <2>4. DOMAIN ledger' = DOMAIN ledger \cup {Len(ledger) + 1}
      BY <2>2, <2>3
    <2>5. \A i, k \in DOMAIN ledger' : ledger'[i] = ledger'[k] => i = k
      BY <1>1, <1>3, <2>2, <2>3, <2>4
    <2> QED BY <2>2, <2>3, <2>4, <2>5
  <1> QED BY <1>2, <1>3

-----------------------------------------------------------------------------
(* Type correctness *)

LEMMA InitWellFormed == Init => WellFormed
  <1> SUFFICES ASSUME Init
               PROVE  WellFormed
    OBVIOUS
  <1>1. Idle \in Call /\ Idle \in Job /\ Idle.step = "IDLE"
    BY DEF Call, Job, Idle
  <1>2. TypeOK
    BY <1>1, ConstantsTyped DEF Init, TypeOK
  <1>3. JobsShaped /\ Suspended
    BY <1>1 DEF Init, JobsShaped, Suspended
  <1> QED BY <1>2, <1>3 DEF WellFormed

\* A step of one call, while access is open.
LEMMA CallWellFormed ==
    ASSUME WellFormed, NEW h \in Handlers, NEW call \in Call, Continue(h, call),
           open \/ calls[h] # Idle,
           UNCHANGED <<now, families, hidden, epoch, sessions, ledger, jobs, backup, open,
                       closed>>,
           rows' \in [Evidence -> EvidenceRecord \cup {Nothing}], grants' \subseteq Grant,
           objects' \subseteq Evidence
    PROVE  WellFormed'
  <1>1. TypeOK /\ JobsShaped /\ open
    BY DEF WellFormed, Suspended
  <1>2. calls' \in [Handlers -> Call]
    BY <1>1, Continued
  <1>3. TypeOK'
    BY <1>1, <1>2 DEF TypeOK
  <1> QED BY <1>1, <1>3 DEF WellFormed, JobsShaped, Suspended

LEMMA ServiceWellFormed ==
    ASSUME WellFormed, NEW h \in Handlers, Service(h)
    PROVE  WellFormed'
  <1>1. TypeOK
    BY DEF WellFormed
  <1>2. /\ now \in Nat /\ calls[h] \in Call
        /\ rows \in [Evidence -> EvidenceRecord \cup {Nothing}]
        /\ grants \subseteq Grant /\ objects \subseteq Evidence
    BY <1>1, ConstantsTyped DEF TypeOK
  <1>3. Idle \in Call
    BY DEF Call
  <1>4. ASSUME NEW e \in Evidence, NEW f \in Families, NEW r \in Retention, PutObject(h, e, f, r)
        PROVE  WellFormed'
    <2> DEFINE row == [family |-> f, expires |-> now + r, deleted |-> FALSE]
               call == [step |-> "PUT", evidence |-> e, row |-> row]
    <2>1. row \in EvidenceRecord
      BY <1>2, ConstantsTyped DEF EvidenceRecord
    <2> HIDE DEF row
    <2>2. call \in Call
      BY <2>1 DEF Call
    <2>3. Continue(h, call)
      BY <1>4 DEF PutObject, row
    <2> HIDE DEF call
    <2>4. objects' \subseteq Evidence
      BY <1>2, <1>4 DEF PutObject
    <2> QED BY <1>2, <1>4, <2>2, <2>3, <2>4, CallWellFormed
            DEF PutObject, database, authorization
  <1>5. CASE AddEvidence(h)
    <2>1. /\ calls[h] # Idle /\ calls[h].evidence \in Evidence
          /\ calls[h].row \in EvidenceRecord
      BY <1>2, <1>5, CallTyped DEF AddEvidence
    <2>2. rows' \in [Evidence -> EvidenceRecord \cup {Nothing}]
      BY <1>2, <1>5, <2>1 DEF AddEvidence
    <2> QED BY <1>2, <1>3, <1>5, <2>1, <2>2, CallWellFormed DEF AddEvidence, authorization
  <1>6. CASE UndoPut(h)
    <2>1. calls[h] # Idle
      BY <1>2, <1>6, CallTyped DEF UndoPut
    <2>2. objects' \subseteq Evidence
      BY <1>2, <1>6 DEF UndoPut
    <2> QED BY <1>2, <1>3, <1>6, <2>1, <2>2, CallWellFormed DEF UndoPut, database, authorization
  <1>7. ASSUME NEW s \in Sessions, NEW e \in Evidence, NEW ttl \in GrantTtl,
               CheckEvidence(h, s, e, ttl)
        PROVE  WellFormed'
    <2> DEFINE expires == IF now + ttl < rows[e].expires THEN now + ttl ELSE rows[e].expires
               grant == [evidence |-> e, session |-> s, epoch |-> sessions[s].epoch,
                         expires |-> expires, revoked |-> FALSE]
               call == [step |-> "ISSUING", grant |-> grant]
    <2>1. sessions[s].epoch \in Nat
      BY <1>1, <1>7 DEF TypeOK, CheckEvidence, IsActive
    <2>2. rows[e].expires \in Nat
      BY <1>2, <1>7 DEF CheckEvidence, Live, EvidenceRecord
    <2>3. expires \in Nat
      BY <1>2, <2>2, ConstantsTyped
    <2> HIDE DEF expires
    <2>4. grant \in Grant
      BY <2>1, <2>3 DEF Grant
    <2> HIDE DEF grant
    <2>5. call \in Call
      BY <2>4 DEF Call
    <2>6. Continue(h, call)
      BY <1>7 DEF CheckEvidence, grant, expires
    <2> HIDE DEF call
    <2> QED BY <1>2, <1>7, <2>5, <2>6, CallWellFormed DEF CheckEvidence, database, authorization
  <1>8. CASE AddGrant(h)
    <2>1. calls[h] # Idle /\ calls[h].grant \in Grant
      BY <1>2, <1>8, CallTyped DEF AddGrant
    <2>2. grants' \subseteq Grant
      BY <1>2, <1>8, <2>1 DEF AddGrant
    <2> QED BY <1>2, <1>3, <1>8, <2>1, <2>2, CallWellFormed DEF AddGrant, authorization
  <1>9. ASSUME NEW g \in grants, FindGrant(h, g)
        PROVE  WellFormed'
    <2> DEFINE call == [step |-> "FOUND", evidence |-> g.evidence, at |-> now,
                        barred |-> g.evidence \in closed]
    <2>1. g.evidence \in Evidence
      BY <1>2 DEF Grant
    <2>2. call \in Call
      BY <1>2, <2>1 DEF Call
    <2>3. Continue(h, call)
      BY <1>9 DEF FindGrant
    <2> HIDE DEF call
    <2> QED BY <1>2, <1>9, <2>2, <2>3, CallWellFormed DEF FindGrant, database, authorization
  <1>10. CASE ReadEvidence(h)
    <2>1. /\ calls[h] # Idle
          /\ calls[h] \in [step: {"FOUND", "READ"}, evidence: Evidence, at: Nat, barred: BOOLEAN]
      BY <1>2, <1>10, CallTyped DEF ReadEvidence
    <2>2. [calls[h] EXCEPT !.step = "READ"] \in Call
      BY <2>1 DEF Call
    <2>3. Continue(h, [calls[h] EXCEPT !.step = "READ"]) \/ Continue(h, Idle)
      BY <1>10 DEF ReadEvidence
    <2> QED BY <1>2, <1>3, <1>10, <2>1, <2>2, <2>3, CallWellFormed
            DEF ReadEvidence, database, authorization
  <1>11. CASE EndCall(h)
    BY <1>2, <1>3, <1>11, CallWellFormed DEF EndCall, database, authorization
  <1> QED BY <1>4, <1>5, <1>6, <1>7, <1>8, <1>9, <1>10, <1>11 DEF Service
\* The tables a job writes.
TablesTyped ==
    /\ families \subseteq Families /\ hidden \subseteq Families
    /\ rows \in [Evidence -> EvidenceRecord \cup {Nothing}]
    /\ grants \subseteq Grant
    /\ objects \subseteq Evidence /\ closed \subseteq Evidence
    /\ epoch \in [Families -> 0..MaxEpoch]
    /\ ledger \in Seq(Families \cup Evidence)
    /\ \A i, k \in DOMAIN ledger : ledger[i] = ledger[k] => i = k

\* A step of one job, while access is open.
LEMMA JobWellFormed ==
    ASSUME WellFormed, NEW j \in Jobs, open \/ jobs[j] # Idle,
           UNCHANGED <<now, sessions, calls, backup, open>>,
           TablesTyped',
           jobs' \in [Jobs -> Job], \A i \in Jobs : i # j => jobs'[i] = jobs[i],
           jobs'[j].step \in {"REQUESTED", "HIDDEN"} => jobs'[j].family \in Families,
           jobs'[j].step \in {"TOMBSTONED", "MARKED", "DELETED"} => jobs'[j].current \in Evidence
    PROVE  WellFormed'
  <1>1. TypeOK /\ JobsShaped /\ open
    BY DEF WellFormed, Suspended
  <1>2. TypeOK'
    BY <1>1 DEF TypeOK, TablesTyped
  <1>3. JobsShaped'
    BY <1>1 DEF JobsShaped
  <1> QED BY <1>1, <1>2, <1>3 DEF WellFormed, Suspended

\* The step names are all different, and none is that of an idle job.
LEMMA JobRunning ==
    ASSUME WellFormed, NEW j \in Jobs, jobs[j].step \in JobStep
    PROVE  /\ jobs[j] \in Running /\ jobs[j] # Idle
           /\ jobs[j].step \in {"REQUESTED", "HIDDEN"} => jobs[j].family \in Families
           /\ jobs[j].step \in {"TOMBSTONED", "MARKED", "DELETED"} => jobs[j].current \in Evidence
  BY JobTyped DEF WellFormed, TypeOK, JobsShaped

LEMMA DeletionWellFormed ==
    ASSUME WellFormed, NEW j \in Jobs, Deletion(j)
    PROVE  WellFormed'
  <1>1. TypeOK /\ TablesTyped
    BY DEF WellFormed, TypeOK, TablesTyped
  <1>2. ASSUME UNCHANGED <<families, hidden, rows, grants, objects, closed, epoch, ledger>>
        PROVE  TablesTyped'
    BY <1>1, <1>2 DEF TablesTyped
  <1>3. CASE StartRetention(j)
    <2> DEFINE todo == {e \in Evidence : rows[e] # Nothing /\ rows[e].expires <= now}
    <2>1. NewJob(j, "NEXT", Nothing, todo) /\ todo \in SUBSET Evidence
      BY <1>3 DEF StartRetention
    <2> HIDE DEF todo
    <2>2. /\ jobs' \in [Jobs -> Job] /\ jobs'[j].step = "NEXT"
          /\ \A i \in Jobs : i # j => jobs'[i] = jobs[i]
      BY <1>1, <2>1, Begun DEF JobStep
    <2> QED BY <1>2, <1>3, <2>2, JobWellFormed DEF StartRetention, database, authorization
  <1>4. CASE TombstoneEvidence(j)
    <2>1. jobs[j].step \in JobStep /\ Take(j, "TOMBSTONED")
      BY <1>4 DEF TombstoneEvidence, JobStep
    <2>2. PICK e \in jobs[j].todo :
             /\ e \in Evidence /\ jobs' \in [Jobs -> Job] /\ jobs'[j].step = "TOMBSTONED"
             /\ jobs'[j].current = e
             /\ \A i \in Jobs : i # j => jobs'[i] = jobs[i]
      BY <1>1, <2>1, Taken DEF JobStep
    <2>3. ledger' = WithTombstone(e)
      BY <1>4, <2>2 DEF TombstoneEvidence
    <2>4. TablesTyped'
      BY <1>1, <1>4, <2>2, <2>3, Tombstoned DEF TombstoneEvidence, TablesTyped, database, authorization
    <2> QED BY <1>4, <2>1, <2>2, <2>4, JobRunning, JobWellFormed
            DEF TombstoneEvidence, database, authorization
  <1>5. CASE MarkExpired(j)
    <2>1. jobs[j] # Idle /\ jobs[j].current \in Evidence /\ jobs[j].step \in JobStep
      BY <1>5, JobRunning DEF MarkExpired, JobStep
    <2>2. TablesTyped'
      BY <1>1, <1>5, <2>1, Marked DEF MarkExpired, TablesTyped, authorization
    <2>3. /\ jobs' \in [Jobs -> Job] /\ jobs'[j].step = "MARKED"
          /\ jobs'[j].current = jobs[j].current
          /\ \A i \in Jobs : i # j => jobs'[i] = jobs[i]
      BY <1>1, <1>5, <2>1, Proceeded DEF MarkExpired, JobStep
    <2> QED BY <1>5, <2>1, <2>2, <2>3, JobWellFormed DEF MarkExpired, authorization
  <1>6. ASSUME NEW f \in Families, TombstoneFamily(j, f)
        PROVE  WellFormed'
    <2>1. TablesTyped'
      BY <1>1, <1>6, Tombstoned DEF TombstoneFamily, TablesTyped, database, authorization
    <2>2. /\ jobs' \in [Jobs -> Job] /\ jobs'[j].step = "REQUESTED" /\ jobs'[j].family = f
          /\ \A i \in Jobs : i # j => jobs'[i] = jobs[i]
      BY <1>1, <1>6, Begun DEF TombstoneFamily, JobStep
    <2> QED BY <1>6, <2>1, <2>2, JobWellFormed DEF TombstoneFamily, database, authorization
  <1>7. CASE HideFamily(j)
    <2>1. jobs[j] # Idle /\ jobs[j].family \in Families /\ jobs[j].step \in JobStep
      BY <1>7, JobRunning DEF HideFamily, JobStep
    <2>2. TablesTyped'
      BY <1>1, <1>7, <2>1 DEF HideFamily, TablesTyped, authorization
    <2>3. /\ jobs' \in [Jobs -> Job] /\ jobs'[j].step = "HIDDEN"
          /\ jobs'[j].family = jobs[j].family
          /\ \A i \in Jobs : i # j => jobs'[i] = jobs[i]
      BY <1>1, <1>7, <2>1, Proceeded DEF HideFamily, JobStep
    <2> QED BY <1>7, <2>1, <2>2, <2>3, JobWellFormed DEF HideFamily, authorization
  <1>8. CASE RevokeFamily(j)
    <2> DEFINE f == jobs[j].family
               todo == {e \in Evidence : rows[e] # Nothing /\ rows[e].family = f}
    <2>1. jobs[j] # Idle /\ f \in Families
      BY <1>8, JobRunning DEF RevokeFamily, JobStep
    <2>2. epoch' \in [Families -> 0..MaxEpoch]
      <3>1. epoch[f] + 1 \in 0..MaxEpoch
        BY <1>1, <1>8, <2>1, ConstantsTyped DEF RevokeFamily, TablesTyped
      <3> QED BY <1>1, <1>8, <3>1 DEF RevokeFamily, TablesTyped
    <2>3. TablesTyped'
      BY <1>1, <1>8, <2>2 DEF RevokeFamily, TablesTyped, database
    <2>4. NewJob(j, "NEXT", f, todo) /\ todo \in SUBSET Evidence
      BY <1>8 DEF RevokeFamily
    <2> HIDE DEF todo
    <2>5. /\ jobs' \in [Jobs -> Job] /\ jobs'[j].step = "NEXT"
          /\ \A i \in Jobs : i # j => jobs'[i] = jobs[i]
      BY <1>1, <2>1, <2>4, Begun DEF JobStep
    <2> QED BY <1>8, <2>1, <2>3, <2>5, JobWellFormed DEF RevokeFamily, database
  <1>9. CASE MarkOfFamily(j)
    <2>1. jobs[j].step \in JobStep /\ Take(j, "MARKED")
      BY <1>9 DEF MarkOfFamily, JobStep
    <2>2. PICK e \in jobs[j].todo :
             /\ e \in Evidence /\ jobs' \in [Jobs -> Job] /\ jobs'[j].step = "MARKED"
             /\ jobs'[j].current = e
             /\ \A i \in Jobs : i # j => jobs'[i] = jobs[i]
      BY <1>1, <2>1, Taken DEF JobStep
    <2>3. Mark(e)
      BY <1>9, <2>2 DEF MarkOfFamily
    <2>4. TablesTyped'
      BY <1>1, <1>9, <2>2, <2>3, Marked DEF MarkOfFamily, TablesTyped, authorization
    <2> QED BY <1>9, <2>1, <2>2, <2>4, JobRunning, JobWellFormed DEF MarkOfFamily, authorization
  <1>10. CASE DeleteObject(j)
    <2>1. jobs[j] # Idle /\ jobs[j].current \in Evidence /\ jobs[j].step \in JobStep
      BY <1>10, JobRunning DEF DeleteObject, JobStep
    <2>2. TablesTyped'
      BY <1>1, <1>10 DEF DeleteObject, TablesTyped, database, authorization
    <2>3. /\ jobs' \in [Jobs -> Job] /\ jobs'[j].step = "DELETED"
          /\ jobs'[j].current = jobs[j].current
          /\ \A i \in Jobs : i # j => jobs'[i] = jobs[i]
      BY <1>1, <1>10, <2>1, Proceeded DEF DeleteObject, JobStep
    <2> QED BY <1>10, <2>1, <2>2, <2>3, JobWellFormed DEF DeleteObject, authorization
  <1>11. CASE DeleteObjectFails(j)
    <2>1. jobs[j] # Idle
      BY <1>11, JobRunning DEF DeleteObjectFails, JobStep
    <2>2. /\ jobs' \in [Jobs -> Job] /\ jobs'[j].step = "NEXT"
          /\ \A i \in Jobs : i # j => jobs'[i] = jobs[i]
      BY <1>1, <1>11, Failed
    <2> QED BY <1>2, <1>11, <2>1, <2>2, JobWellFormed
            DEF DeleteObjectFails, database, authorization
  <1>12. CASE PurgeEvidence(j)
    <2>1. jobs[j] # Idle /\ jobs[j].step \in JobStep
      BY <1>12, JobRunning DEF PurgeEvidence, JobStep
    <2>2. TablesTyped'
      BY <1>1, <1>12, Removed DEF PurgeEvidence, TablesTyped, authorization
    <2>3. /\ jobs' \in [Jobs -> Job] /\ jobs'[j].step = "NEXT"
          /\ \A i \in Jobs : i # j => jobs'[i] = jobs[i]
      BY <1>1, <1>12, <2>1, Proceeded DEF PurgeEvidence, JobStep
    <2> QED BY <1>12, <2>1, <2>2, <2>3, JobWellFormed DEF PurgeEvidence, authorization
  <1>13. CASE EndJob(j)
    <2>1. jobs[j] # Idle
      BY <1>13, JobRunning DEF EndJob, JobStep
    <2>2. /\ jobs' \in [Jobs -> Job] /\ jobs'[j] = Idle
          /\ \A i \in Jobs : i # j => jobs'[i] = jobs[i]
      BY <1>1, <1>13, Ended DEF EndJob
    <2>3. Idle.step = "IDLE"
      BY DEF Idle
    <2>4. TablesTyped'
      <3>1. CASE UNCHANGED <<database, closed>>
        BY <1>2, <1>13, <3>1 DEF EndJob, database, authorization
      <3>2. CASE ~UNCHANGED <<database, closed>>
        <4>1. /\ families' = families \ {jobs[j].family}
              /\ Remove(EvidenceOf(jobs[j].family))
              /\ closed' = closed \cup EvidenceOf(jobs[j].family)
              /\ UNCHANGED hidden
          BY <1>13, <3>2, Zenon DEF EndJob
        <4>2. EvidenceOf(jobs[j].family) \subseteq Evidence
          BY DEF EvidenceOf
        <4> QED BY <1>1, <1>13, <4>1, <4>2, Removed DEF EndJob, TablesTyped, authorization
      <3> QED BY <3>1, <3>2
    <2> QED BY <1>13, <2>1, <2>2, <2>3, <2>4, JobWellFormed DEF EndJob, authorization
  <1>14. CASE CrashJob(j)
    <2>1. /\ jobs' \in [Jobs -> Job] /\ jobs'[j] = Idle
          /\ \A i \in Jobs : i # j => jobs'[i] = jobs[i]
      BY <1>1, <1>14, Ended DEF CrashJob
    <2>2. Idle.step = "IDLE"
      BY DEF Idle
    <2> QED BY <1>2, <1>14, <2>1, <2>2, JobWellFormed DEF CrashJob, database, authorization
  <1> QED BY <1>3, <1>4, <1>5, <1>6, <1>7, <1>8, <1>9, <1>10, <1>11, <1>12, <1>13, <1>14
          DEF Deletion

LEMMA StepWellFormed == WellFormed /\ [Next]_vars => WellFormed'
  <1> SUFFICES ASSUME WellFormed, [Next]_vars
               PROVE  WellFormed'
    OBVIOUS
  <1>1. TypeOK /\ JobsShaped /\ Suspended
    BY DEF WellFormed
  <1>2. CASE Tick
    BY <1>1, <1>2, ConstantsTyped
       DEF WellFormed, Tick, TypeOK, JobsShaped, Suspended, database, authorization
  <1>3. ASSUME NEW s \in Sessions, RevokeSession(s) \/ \E f \in Families : Register(s, f)
        PROVE  WellFormed'
    <2>1. sessions' \in [Sessions -> [family: Families, epoch: Nat] \cup {Nothing}]
      <3>1. ASSUME NEW f \in Families, Register(s, f)
            PROVE  sessions' \in [Sessions -> [family: Families, epoch: Nat] \cup {Nothing}]
        <4>1. [family |-> f, epoch |-> epoch[f]] \in [family: Families, epoch: Nat]
          BY <1>1, ConstantsTyped DEF TypeOK
        <4> QED BY <1>1, <3>1, <4>1 DEF TypeOK, Register
      <3> QED BY <1>1, <1>3, <3>1 DEF TypeOK, RevokeSession
    <2>2. UNCHANGED <<now, database, objects, epoch, ledger, calls, jobs, backup, open, closed>>
      BY <1>3 DEF RevokeSession, Register
    <2> QED BY <1>1, <2>1, <2>2 DEF WellFormed, TypeOK, JobsShaped, Suspended, database
  <1>4. ASSUME NEW e \in Evidence, RevokeGrants(e)
        PROVE  WellFormed'
    <2>1. grants' \subseteq Grant
      <3>1. \A g \in Grant : [g EXCEPT !.revoked = TRUE] \in Grant
        BY DEF Grant
      <3> QED BY <1>1, <1>4, <3>1 DEF TypeOK, RevokeGrants, Revoked
    <2> QED BY <1>1, <1>4, <2>1
            DEF WellFormed, TypeOK, JobsShaped, Suspended, RevokeGrants, authorization
  <1>5. CASE TakeBackup
    <2>1. PICK w \in 0..Len(ledger) :
             backup' = [families |-> families, hidden |-> hidden, rows |-> rows,
                        grants |-> grants, watermark |-> w]
      BY <1>5 DEF TakeBackup
    <2>2. w \in Nat
      BY <1>1 DEF TypeOK
    <2>3. backup' \in Backup
      BY <1>1, <2>1, <2>2 DEF TypeOK, Backup
    <2> QED BY <1>1, <1>5, <2>3
            DEF WellFormed, TypeOK, JobsShaped, Suspended, TakeBackup, database, authorization
  <1>6. CASE Restore
    <2>1. backup \in Backup /\ backup # Nothing
      BY <1>1, <1>6 DEF TypeOK, Restore
    <2>2. /\ families' \subseteq Families /\ hidden' \subseteq Families
          /\ rows' \in [Evidence -> EvidenceRecord \cup {Nothing}] /\ grants' \subseteq Grant
      BY <1>6, <2>1 DEF Restore, Backup
    <2>3. /\ calls' = [h \in Handlers |-> Idle] /\ jobs' = [j \in Jobs |-> Idle]
          /\ open' = FALSE
          /\ UNCHANGED <<now, objects, epoch, sessions, ledger, backup, closed>>
      BY <1>6 DEF Restore, authorization
    <2>4. Idle \in Call /\ Idle \in Job /\ Idle.step = "IDLE"
      BY DEF Call, Job, Idle
    <2>5. calls' \in [Handlers -> Call] /\ jobs' \in [Jobs -> Job]
      BY <2>3, <2>4
    <2>6. TypeOK'
      BY <1>1, <2>2, <2>3, <2>5 DEF TypeOK
    <2>7. JobsShaped' /\ Suspended'
      BY <2>1, <2>3, <2>4 DEF JobsShaped, Suspended
    <2> QED BY <2>6, <2>7 DEF WellFormed
  <1>7. CASE Reconcile
    <2>1. PICK failures \in SUBSET After(backup.watermark) :
             LET done == After(backup.watermark) \ failures
                 gone == done \cap Families
             IN  /\ families' = families \ gone
                 /\ hidden' = hidden \cup gone
                 /\ Remove((done \cap Evidence) \cup UNION {EvidenceOf(f) : f \in gone})
                 /\ open' = (failures = {})
      BY <1>7 DEF Reconcile
    <2>2. rows' \in [Evidence -> EvidenceRecord \cup {Nothing}] /\ grants' \subseteq Grant
      BY <1>1, <2>1, Removed
    <2>3. families' \subseteq Families /\ hidden' \subseteq Families /\ open' \in BOOLEAN
      BY <1>1, <2>1 DEF TypeOK
    <2> QED BY <1>1, <1>7, <2>2, <2>3
            DEF WellFormed, TypeOK, JobsShaped, Suspended, Reconcile, authorization
  <1>8. CASE UNCHANGED vars
    BY <1>1, <1>8 DEF WellFormed, vars, TypeOK, JobsShaped, Suspended, database, authorization
  <1> QED BY <1>2, <1>3, <1>4, <1>5, <1>6, <1>7, <1>8, ServiceWellFormed, DeletionWellFormed
          DEF Next

LEMMA AlwaysWellFormed == Spec => []WellFormed
  BY InitWellFormed, StepWellFormed, PTL DEF Spec

\* The tables, the calls and jobs in progress and the last backup stay well formed, and a
\* target is recorded in the deletion ledger once, whatever crashes and restores.
THEOREM LifecycleTypeCorrect == Spec => []TypeOK
  <1>1. WellFormed => TypeOK
    BY DEF WellFormed
  <1> QED BY <1>1, AlwaysWellFormed, PTL
-----------------------------------------------------------------------------
(* What rows, backup, ledger, jobs and objects know of each other *)

InLedger(target) == \E i \in DOMAIN ledger : ledger[i] = target

Listed(e) == \E j \in Jobs : jobs[j] # Idle /\ e \in jobs[j].todo \cup {jobs[j].current}

BackedUp(e) == backup # Nothing /\ backup.rows[e] # Nothing

\* Some table, backup or job has the id of the evidence.
Known(e) == rows[e] # Nothing \/ BackedUp(e) \/ Listed(e) \/ InLedger(e)

\* No row, restored or not, is without its object unless it was made inaccessible.
KnownStored == \A e \in Evidence : Known(e) => e \in objects \cup closed

\* What is being stored is new, to one call.
PutsUnknown ==
    \A h \in Handlers, e \in Evidence :
        calls[h].step = "PUT" /\ calls[h].evidence = e =>
            /\ ~Known(e) /\ e \notin closed
            /\ \A g \in Handlers : calls[g].step = "PUT" /\ calls[g].evidence = e => g = h

PutsStored == \A h \in Handlers : calls[h].step = "PUT" => calls[h].evidence \in objects

Hidden(e) == rows[e] = Nothing \/ rows[e].deleted

ClosedHidden == open => \A e \in closed : Hidden(e)

BarredClosed ==
    \A h \in Handlers :
        /\ calls[h].step = "FOUND" /\ calls[h].barred => calls[h].evidence \in closed
        /\ calls[h].step = "READ" => ~calls[h].barred

FamiliesAgree ==
    \A e \in Evidence :
        /\ rows[e] # Nothing => rows[e].family \in families
        /\ BackedUp(e) => backup.rows[e].family \in backup.families
        /\ rows[e] # Nothing /\ BackedUp(e) => rows[e].family = backup.rows[e].family

OfFamily(e, f) ==
    /\ rows[e] # Nothing => rows[e].family = f
    /\ BackedUp(e) => backup.rows[e].family = f

\* A job hides evidence only behind a tombstone of its own or of its family.
JobRecorded(j) ==
    jobs[j] # Idle =>
        /\ \A f \in Families : jobs[j].family = f =>
              /\ InLedger(f)
              /\ \A e \in Evidence :
                    e \in jobs[j].todo \cup {jobs[j].current} => OfFamily(e, f)
        /\ \A e \in Evidence :
              jobs[j].step = "TOMBSTONED" /\ jobs[j].current = e => InLedger(e)
        /\ jobs[j].step \in {"MARKED", "DELETED"} => jobs[j].current \in closed

JobsRecorded == \A j \in Jobs : JobRecorded(j)

\* The tombstones up to the watermark need not be applied to the backup again.
Watermarked ==
    backup # Nothing =>
        /\ backup.watermark \in 0..Len(ledger)
        /\ \A i \in 1..backup.watermark :
              /\ ledger[i] \in Families => ledger[i] \notin backup.families
              /\ ledger[i] \in Evidence => backup.rows[ledger[i]] = Nothing

\* Those after it hide whatever was made inaccessible since the backup.
BackupCovered ==
    \A e \in closed :
        BackedUp(e) =>
            \/ backup.rows[e].deleted
            \/ e \in After(backup.watermark)
            \/ backup.rows[e].family \in After(backup.watermark)

\* Until access is open again, rows are what the backup had, or gone.
RowsRestored == ~open => \A e \in Evidence : rows[e] # Nothing => rows[e] = backup.rows[e]

Tracked ==
    /\ KnownStored /\ PutsUnknown /\ PutsStored
    /\ ClosedHidden /\ BarredClosed
    /\ FamiliesAgree /\ JobsRecorded
    /\ Watermarked /\ BackupCovered /\ RowsRestored

LEMMA InitTracked == Init => Tracked
  <1> SUFFICES ASSUME Init
               PROVE  Tracked
    OBVIOUS
  <1>1. Idle.step = "IDLE"
    BY DEF Idle
  <1>2. /\ rows = [e \in Evidence |-> Nothing] /\ backup = Nothing /\ closed = {} /\ open
        /\ calls = [h \in Handlers |-> Idle] /\ jobs = [j \in Jobs |-> Idle]
        /\ DOMAIN ledger = {}
    BY DEF Init
  <1>3. \A e \in Evidence : ~Known(e)
    BY <1>2 DEF Known, BackedUp, Listed, InLedger
  <1>4. KnownStored /\ PutsUnknown /\ PutsStored
    BY <1>1, <1>2, <1>3 DEF KnownStored, PutsUnknown, PutsStored
  <1>5. ClosedHidden /\ BarredClosed
    BY <1>1, <1>2 DEF ClosedHidden, BarredClosed
  <1>6. FamiliesAgree /\ JobsRecorded
    BY <1>2 DEF FamiliesAgree, BackedUp, JobsRecorded, JobRecorded
  <1>7. Watermarked /\ BackupCovered /\ RowsRestored
    BY <1>2 DEF Watermarked, BackupCovered, RowsRestored
  <1> QED BY <1>4, <1>5, <1>6, <1>7 DEF Tracked

\* Sessions, grants, epochs and time matter to none of it.
LEMMA TrackedUnchanged ==
    ASSUME Tracked,
           UNCHANGED <<rows, families, objects, ledger, calls, jobs, backup, open, closed>>
    PROVE  Tracked'
  <1>1. \A e : Known(e)' = Known(e)
    BY DEF Known, BackedUp, Listed, InLedger
  <1>2. KnownStored' /\ PutsUnknown' /\ PutsStored'
    BY <1>1 DEF Tracked, KnownStored, PutsUnknown, PutsStored
  <1>3. ClosedHidden' /\ BarredClosed'
    BY DEF Tracked, ClosedHidden, BarredClosed, Hidden
  <1>4. FamiliesAgree' /\ JobsRecorded'
    BY DEF Tracked, FamiliesAgree, BackedUp, JobsRecorded, JobRecorded, OfFamily, InLedger
  <1>5. Watermarked' /\ BackupCovered' /\ RowsRestored'
    BY DEF Tracked, Watermarked, BackupCovered, RowsRestored, BackedUp, After
  <1> QED BY <1>2, <1>3, <1>4, <1>5 DEF Tracked

\* A call that stores nothing now.
LEMMA CallTracked ==
    ASSUME WellFormed, Tracked, NEW h \in Handlers, NEW call \in Call, Continue(h, call),
           call.step # "PUT",
           call.step = "FOUND" /\ call.barred => call.evidence \in closed,
           call.step = "READ" => ~call.barred,
           UNCHANGED <<rows, families, objects, ledger, jobs, backup, open, closed>>
    PROVE  Tracked'
  <1>1. \A e : Known(e)' = Known(e)
    BY DEF Known, BackedUp, Listed, InLedger
  <1>2. calls'[h] = call /\ \A g \in Handlers : g # h => calls'[g] = calls[g]
    BY Continued DEF WellFormed
  <1>3. KnownStored' /\ PutsUnknown' /\ PutsStored'
    BY <1>1, <1>2 DEF Tracked, KnownStored, PutsUnknown, PutsStored
  <1>4. ClosedHidden' /\ BarredClosed'
    BY <1>2 DEF Tracked, ClosedHidden, BarredClosed, Hidden
  <1>5. FamiliesAgree' /\ JobsRecorded'
    BY DEF Tracked, FamiliesAgree, BackedUp, JobsRecorded, JobRecorded, OfFamily, InLedger
  <1>6. Watermarked' /\ BackupCovered' /\ RowsRestored'
    BY DEF Tracked, Watermarked, BackupCovered, RowsRestored, BackedUp, After
  <1> QED BY <1>3, <1>4, <1>5, <1>6 DEF Tracked

LEMMA PutTracked ==
    ASSUME WellFormed, Tracked, NEW h \in Handlers, NEW e \in Evidence, NEW f \in Families,
           NEW r \in Retention, PutObject(h, e, f, r)
    PROVE  Tracked'
  <1> DEFINE row == [family |-> f, expires |-> now + r, deleted |-> FALSE]
             call == [step |-> "PUT", evidence |-> e, row |-> row]
  <1>1. row \in EvidenceRecord
    BY ConstantsTyped DEF WellFormed, TypeOK, EvidenceRecord
  <1> HIDE DEF row
  <1>2. call \in Call /\ call.step = "PUT" /\ call.evidence = e
    BY <1>1 DEF Call
  <1>3. /\ Fresh(e) /\ Continue(h, call) /\ objects' = objects \cup {e}
        /\ UNCHANGED <<rows, families, ledger, jobs, backup, open, closed>>
    BY DEF PutObject, database, row
  <1> HIDE DEF call
  <1>4. calls'[h] = call /\ \A g \in Handlers : g # h => calls'[g] = calls[g]
    BY <1>2, <1>3, Continued DEF WellFormed
  <1>5. \A x : Known(x)' = Known(x)
    BY <1>3 DEF Known, BackedUp, Listed, InLedger
  <1>6. ~Known(e) /\ e \notin closed
    BY <1>3 DEF Tracked, KnownStored, Fresh
  <1>7. KnownStored' /\ PutsStored'
    BY <1>2, <1>3, <1>4, <1>5 DEF Tracked, KnownStored, PutsStored
  <1>8. PutsUnknown'
    <2> SUFFICES ASSUME NEW g \in Handlers, NEW x \in Evidence, calls'[g].step = "PUT",
                        calls'[g].evidence = x
                 PROVE  /\ ~Known(x)' /\ x \notin closed'
                        /\ \A k \in Handlers :
                              calls'[k].step = "PUT" /\ calls'[k].evidence = x => k = g
      BY DEF PutsUnknown
    <2>1. \A k \in Handlers : calls[k].step = "PUT" => calls[k].evidence # e
      BY <1>3 DEF Fresh
    <2>2. CASE g = h
      BY <1>2, <1>3, <1>4, <1>5, <1>6, <2>1, <2>2
    <2>3. CASE g # h
      BY <1>2, <1>3, <1>4, <1>5, <2>1, <2>3 DEF Tracked, PutsUnknown
    <2> QED BY <2>2, <2>3
  <1>9. ClosedHidden' /\ BarredClosed'
    BY <1>2, <1>3, <1>4 DEF Tracked, ClosedHidden, BarredClosed, Hidden
  <1>10. FamiliesAgree' /\ JobsRecorded'
    BY <1>3 DEF Tracked, FamiliesAgree, BackedUp, JobsRecorded, JobRecorded, OfFamily, InLedger
  <1>11. Watermarked' /\ BackupCovered' /\ RowsRestored'
    BY <1>3 DEF Tracked, Watermarked, BackupCovered, RowsRestored, BackedUp, After
  <1> QED BY <1>7, <1>8, <1>9, <1>10, <1>11 DEF Tracked
LEMMA AddTracked ==
    ASSUME WellFormed, Tracked, NEW h \in Handlers, AddEvidence(h)
    PROVE  Tracked'
  <1>1. PICK e \in Evidence : calls[h].evidence = e
    BY CallTyped DEF WellFormed, TypeOK, AddEvidence
  <1> DEFINE row == calls[h].row
  <1>2. /\ calls[h].step = "PUT" /\ row.family \in families
        /\ rows' = [rows EXCEPT ![e] = row] /\ Continue(h, Idle)
        /\ UNCHANGED <<families, objects, ledger, jobs, backup, open, closed>>
    BY <1>1 DEF AddEvidence
  <1>3. /\ ~Known(e) /\ e \notin closed /\ open
        /\ \A g \in Handlers : calls[g].step = "PUT" /\ calls[g].evidence = e => g = h
    <2>1. calls[h] # Idle
      BY <1>2, CallTyped DEF WellFormed, TypeOK
    <2> QED BY <1>1, <1>2, <2>1 DEF Tracked, PutsUnknown, WellFormed, Suspended
  <1> HIDE DEF row
  <1>4. \A x \in Evidence : rows'[x] = IF x = e THEN row ELSE rows[x]
    BY <1>2 DEF WellFormed, TypeOK
  <1>5. /\ calls'[h] = Idle /\ Idle.step = "IDLE"
        /\ \A g \in Handlers : g # h => calls'[g] = calls[g]
    BY <1>2, Continued DEF WellFormed, Call, Idle
  <1>6. \A x \in Evidence : Known(x)' => Known(x) \/ x = e
    BY <1>2, <1>4 DEF Known, BackedUp, Listed, InLedger
  <1>7. e \in objects
    BY <1>1, <1>2 DEF Tracked, PutsStored
  <1>8. KnownStored'
    BY <1>2, <1>6, <1>7 DEF Tracked, KnownStored
  <1>9. PutsUnknown' /\ PutsStored'
    <2>1. PutsUnknown'
      <3> SUFFICES ASSUME NEW g \in Handlers, NEW x \in Evidence, calls'[g].step = "PUT",
                          calls'[g].evidence = x
                   PROVE  /\ ~Known(x)' /\ x \notin closed'
                          /\ \A k \in Handlers :
                                calls'[k].step = "PUT" /\ calls'[k].evidence = x => k = g
        BY DEF PutsUnknown
      <3>1. g # h
        BY <1>5
      <3>2. x # e
        BY <1>3, <1>5, <3>1
      <3> QED BY <1>2, <1>5, <1>6, <3>1, <3>2 DEF Tracked, PutsUnknown
    <2>2. PutsStored'
      BY <1>2, <1>5 DEF Tracked, PutsStored
    <2> QED BY <2>1, <2>2
  <1>10. ClosedHidden' /\ BarredClosed'
    BY <1>2, <1>3, <1>4, <1>5 DEF Tracked, ClosedHidden, BarredClosed, Hidden, WellFormed, TypeOK
  <1>11. FamiliesAgree'
    BY <1>2, <1>3, <1>4 DEF Tracked, FamiliesAgree, BackedUp, Known
  <1>12. JobsRecorded'
    <2> SUFFICES ASSUME NEW j \in Jobs
                 PROVE  JobRecorded(j)'
      BY DEF JobsRecorded
    <2>1. JobRecorded(j)
      BY DEF Tracked, JobsRecorded
    <2>2. jobs[j] # Idle => e \notin jobs[j].todo \cup {jobs[j].current}
      BY <1>3 DEF Known, Listed
    <2> QED BY <1>2, <1>4, <2>1, <2>2 DEF JobRecorded, OfFamily, BackedUp, InLedger
  <1>13. Watermarked' /\ BackupCovered' /\ RowsRestored'
    BY <1>2, <1>3 DEF Tracked, Watermarked, BackupCovered, RowsRestored, BackedUp, After
  <1> QED BY <1>8, <1>9, <1>10, <1>11, <1>12, <1>13 DEF Tracked

LEMMA UndoTracked ==
    ASSUME WellFormed, Tracked, NEW h \in Handlers, UndoPut(h)
    PROVE  Tracked'
  <1>1. PICK e \in Evidence : calls[h].evidence = e
    BY CallTyped DEF WellFormed, TypeOK, UndoPut
  <1>2. /\ calls[h].step = "PUT" /\ objects' = objects \ {e} /\ Continue(h, Idle)
        /\ UNCHANGED <<rows, families, ledger, jobs, backup, open, closed>>
    BY <1>1 DEF UndoPut, database
  <1>3. /\ ~Known(e)
        /\ \A g \in Handlers : calls[g].step = "PUT" /\ calls[g].evidence = e => g = h
    BY <1>1, <1>2 DEF Tracked, PutsUnknown
  <1>4. /\ calls'[h] = Idle /\ Idle.step = "IDLE"
        /\ \A g \in Handlers : g # h => calls'[g] = calls[g]
    BY <1>2, Continued DEF WellFormed, Call, Idle
  <1>5. \A x : Known(x)' = Known(x)
    BY <1>2 DEF Known, BackedUp, Listed, InLedger
  <1>6. KnownStored' /\ PutsUnknown'
    BY <1>2, <1>3, <1>4, <1>5 DEF Tracked, KnownStored, PutsUnknown
  <1>7. PutsStored'
    BY <1>2, <1>3, <1>4 DEF Tracked, PutsStored
  <1>8. ClosedHidden' /\ BarredClosed'
    BY <1>2, <1>4 DEF Tracked, ClosedHidden, BarredClosed, Hidden
  <1>9. FamiliesAgree' /\ JobsRecorded'
    BY <1>2 DEF Tracked, FamiliesAgree, BackedUp, JobsRecorded, JobRecorded, OfFamily, InLedger
  <1>10. Watermarked' /\ BackupCovered' /\ RowsRestored'
    BY <1>2 DEF Tracked, Watermarked, BackupCovered, RowsRestored, BackedUp, After
  <1> QED BY <1>6, <1>7, <1>8, <1>9, <1>10 DEF Tracked

\* A delivery that was barred when it began finds its evidence hidden.
LEMMA ReadTracked ==
    ASSUME WellFormed, Tracked, NEW h \in Handlers, ReadEvidence(h)
    PROVE  Tracked'
  <1>1. /\ calls[h].step = "FOUND" /\ open
        /\ calls[h] \in [step: {"FOUND", "READ"}, evidence: Evidence, at: Nat, barred: BOOLEAN]
    BY CallTyped DEF WellFormed, TypeOK, Suspended, ReadEvidence
  <1>2. UNCHANGED <<rows, families, objects, ledger, jobs, backup, open, closed>>
    BY DEF ReadEvidence, database
  <1>3. Idle \in Call /\ Idle.step = "IDLE"
    BY DEF Call, Idle
  <1>4. CASE Live(calls[h].evidence, calls[h].at)
    <2> DEFINE call == [calls[h] EXCEPT !.step = "READ"]
    <2>1. /\ call \in Call /\ call.step = "READ" /\ call.barred = calls[h].barred
      BY <1>1 DEF Call
    <2>2. Continue(h, call)
      BY <1>4 DEF ReadEvidence
    <2> HIDE DEF call
    <2>3. ~calls[h].barred
      BY <1>1, <1>4 DEF Tracked, BarredClosed, ClosedHidden, Hidden, Live
    <2> QED BY <1>2, <2>1, <2>2, <2>3, CallTracked
  <1>5. CASE ~Live(calls[h].evidence, calls[h].at)
    <2>1. Continue(h, Idle)
      BY <1>5 DEF ReadEvidence
    <2> QED BY <1>2, <1>3, <2>1, CallTracked
  <1> QED BY <1>4, <1>5

LEMMA ServiceTracked ==
    ASSUME WellFormed, Tracked, NEW h \in Handlers, Service(h)
    PROVE  Tracked'
  <1>1. Idle \in Call /\ Idle.step = "IDLE"
    BY DEF Call, Idle
  <1>2. ASSUME NEW s \in Sessions, NEW e \in Evidence, NEW ttl \in GrantTtl,
               CheckEvidence(h, s, e, ttl)
        PROVE  Tracked'
    <2>1. WellFormed'
      BY <1>2, ServiceWellFormed DEF Service
    <2>2. PICK grant : Continue(h, [step |-> "ISSUING", grant |-> grant])
      BY <1>2 DEF CheckEvidence
    <2> DEFINE call == [step |-> "ISSUING", grant |-> grant]
    <2>3. calls'[h] = call
      BY <2>2 DEF Continue, WellFormed, TypeOK
    <2>4. call.step = "ISSUING"
      OBVIOUS
    <2> HIDE DEF call
    <2>6. calls' \in [Handlers -> Call]
      BY <2>1 DEF WellFormed, TypeOK
    <2>5. call \in Call
      BY <2>3, <2>6
    <2> QED BY <1>2, <2>2, <2>4, <2>5, CallTracked DEF CheckEvidence, database, call
  <1>3. ASSUME NEW g \in grants, FindGrant(h, g)
        PROVE  Tracked'
    <2> DEFINE call == [step |-> "FOUND", evidence |-> g.evidence, at |-> now,
                        barred |-> g.evidence \in closed]
    <2>1. g.evidence \in Evidence /\ now \in Nat
      BY ConstantsTyped DEF WellFormed, TypeOK, Grant
    <2>2. /\ call \in Call /\ call.step = "FOUND" /\ call.evidence = g.evidence
          /\ call.barred => g.evidence \in closed
      <3>1. call \in Call
        BY <2>1 DEF Call
      <3>2. call.step = "FOUND" /\ call.evidence = g.evidence
        OBVIOUS
      <3>3. call.barred = (g.evidence \in closed)
        OBVIOUS
      <3> QED BY <3>1, <3>2, <3>3, Zenon
    <2>3. Continue(h, call)
      BY <1>3 DEF FindGrant
    <2> HIDE DEF call
    <2> QED BY <1>3, <2>2, <2>3, CallTracked DEF FindGrant, database
  <1>4. CASE AddGrant(h) \/ EndCall(h)
    BY <1>1, <1>4, CallTracked DEF AddGrant, EndCall, database
  <1> QED BY <1>2, <1>3, <1>4, PutTracked, AddTracked, UndoTracked, ReadTracked DEF Service
-----------------------------------------------------------------------------
(* What a step of a job does, whichever step it is *)

\* Tombstones are only added, for a family or for evidence that is known.
LedgerGrows ==
    /\ Len(ledger) <= Len(ledger')
    /\ \A i \in DOMAIN ledger : i \in DOMAIN ledger' /\ ledger'[i] = ledger[i]
    /\ \A e \in Evidence : InLedger(e)' => Known(e)

\* Rows are hidden or removed, and what is hidden from now on has a tombstone.
RowsFade ==
    /\ \A e \in Evidence :
          /\ rows'[e] # Nothing =>
                /\ rows[e] # Nothing /\ rows'[e].family = rows[e].family
                /\ rows'[e].family \in families'
          /\ Hidden(e) => Hidden(e)'
    /\ closed \subseteq closed'
    /\ \A e \in closed' \ closed :
          /\ Known(e) /\ Hidden(e)'
          /\ InLedger(e) \/ (BackedUp(e) => InLedger(backup.rows[e].family))

ObjectsGo == objects' \subseteq objects /\ objects \ objects' \subseteq closed

JobGoesOn(j) ==
    /\ \A i \in Jobs : i # j => jobs'[i] = jobs[i]
    /\ \A e \in Evidence :
          jobs'[j] # Idle /\ e \in jobs'[j].todo \cup {jobs'[j].current} => Known(e)
    /\ JobRecorded(j)'

JobEffect(j) ==
    /\ open /\ UNCHANGED <<calls, backup, open>>
    /\ LedgerGrows /\ RowsFade /\ ObjectsGo /\ JobGoesOn(j)

LEMMA SameLedger == ASSUME TypeOK, UNCHANGED ledger PROVE LedgerGrows
  BY DEF TypeOK, LedgerGrows, InLedger, Known

LEMMA SameRows ==
    ASSUME Tracked, UNCHANGED <<families, rows, closed>>
    PROVE  RowsFade
  BY DEF Tracked, FamiliesAgree, RowsFade, Hidden

LEMMA SameObjects == ASSUME UNCHANGED objects PROVE ObjectsGo
  BY DEF ObjectsGo

LEMMA TombstoneAdded ==
    ASSUME TypeOK, NEW target \in Families \cup Evidence, ledger' = WithTombstone(target),
           target \in Evidence => Known(target)
    PROVE  LedgerGrows /\ InLedger(target)'
  BY Tombstoned, ConstantsTyped DEF LedgerGrows, InLedger, Known

\* Evidence is hidden behind its tombstone, or its family's.
LEMMA MarkFades ==
    ASSUME WellFormed, Tracked, NEW e \in Evidence, Mark(e), UNCHANGED families, Known(e),
           InLedger(e) \/ (BackedUp(e) => InLedger(backup.rows[e].family))
    PROVE  RowsFade /\ e \in closed'
  <1>1. TypeOK
    BY DEF WellFormed
  <1>2. /\ closed' = closed \cup {e}
        /\ rows'[e] = Nothing \/ rows'[e].deleted
        /\ \A x \in Evidence :
              /\ rows'[x] # Nothing => rows[x] # Nothing /\ rows'[x].family = rows[x].family
              /\ x # e => rows'[x] = rows[x]
    BY <1>1, Marked
  <1> QED BY <1>2 DEF Tracked, FamiliesAgree, RowsFade, Hidden

\* A family's rows go with it, behind its tombstone.
LEMMA FamilyFades ==
    ASSUME WellFormed, Tracked, NEW f, Remove(EvidenceOf(f)), families' = families \ {f},
           closed' = closed \cup EvidenceOf(f), InLedger(f)
    PROVE  RowsFade
  <1>1. \A x \in Evidence : rows'[x] = IF x \in EvidenceOf(f) THEN Nothing ELSE rows[x]
    BY Removed DEF WellFormed
  <1>2. \A x \in EvidenceOf(f) : x \in Evidence /\ rows[x] # Nothing /\ rows[x].family = f
    BY DEF EvidenceOf
  <1>3. \A x \in EvidenceOf(f) : BackedUp(x) => InLedger(backup.rows[x].family)
    BY <1>2 DEF Tracked, FamiliesAgree
  <1>4. \A e \in Evidence :
           /\ rows'[e] # Nothing =>
                 /\ rows[e] # Nothing /\ rows'[e].family = rows[e].family
                 /\ rows'[e].family \in families'
           /\ Hidden(e) => Hidden(e)'
    BY <1>1 DEF EvidenceOf, Tracked, FamiliesAgree, Hidden
  <1>5. \A e \in closed' \ closed :
           /\ Known(e) /\ Hidden(e)'
           /\ InLedger(e) \/ (BackedUp(e) => InLedger(backup.rows[e].family))
    BY <1>1, <1>2, <1>3 DEF Known, Hidden
  <1> QED BY <1>4, <1>5 DEF RowsFade

\* The rows of evidence that is hidden already go.
LEMMA PurgeFades ==
    ASSUME WellFormed, Tracked, NEW e \in Evidence, Remove({e}), UNCHANGED <<families, closed>>
    PROVE  RowsFade
  <1>1. \A x \in Evidence : rows'[x] = IF x = e THEN Nothing ELSE rows[x]
    BY Removed DEF WellFormed
  <1> QED BY <1>1 DEF Tracked, FamiliesAgree, RowsFade, Hidden

\* A job that goes on with what it had, or drops it.
LEMMA JobKept ==
    ASSUME WellFormed, Tracked, NEW j \in Jobs, jobs[j] # Idle, jobs'[j] # Idle,
           UNCHANGED backup, LedgerGrows, RowsFade,
           jobs'[j].family = jobs[j].family, jobs'[j].todo \subseteq jobs[j].todo,
           jobs'[j].current \in jobs[j].todo \cup {jobs[j].current},
           \A e \in Evidence :
              jobs'[j].step = "TOMBSTONED" /\ jobs'[j].current = e => InLedger(e)',
           jobs'[j].step \in {"MARKED", "DELETED"} => jobs'[j].current \in closed',
           \A i \in Jobs : i # j => jobs'[i] = jobs[i]
    PROVE  JobGoesOn(j)
  <1>1. \A x : InLedger(x) => InLedger(x)'
    BY DEF LedgerGrows, InLedger
  <1>2. JobRecorded(j)
    BY DEF Tracked, JobsRecorded
  <1>3. \A f : \A e \in Evidence : OfFamily(e, f) => OfFamily(e, f)'
    BY DEF OfFamily, RowsFade, BackedUp
  <1>4. jobs'[j].todo \cup {jobs'[j].current} \subseteq jobs[j].todo \cup {jobs[j].current}
    OBVIOUS
  <1>5. ASSUME NEW f \in Families, f = jobs[j].family
        PROVE  /\ InLedger(f)'
               /\ \A e \in Evidence :
                     e \in jobs'[j].todo \cup {jobs'[j].current} => OfFamily(e, f)'
    BY <1>1, <1>2, <1>3, <1>4, <1>5 DEF JobRecorded
  <1>6. JobRecorded(j)'
    BY <1>5 DEF JobRecorded
  <1>7. \A e \in Evidence : e \in jobs'[j].todo \cup {jobs'[j].current} => Known(e)
    BY <1>4 DEF Known, Listed
  <1> QED BY <1>6, <1>7 DEF JobGoesOn

LEMMA JobDropped ==
    ASSUME NEW j \in Jobs, jobs'[j] = Idle, \A i \in Jobs : i # j => jobs'[i] = jobs[i]
    PROVE  JobGoesOn(j)
  BY DEF JobGoesOn, JobRecorded
LEMMA JobStarted ==
    ASSUME NEW j \in Jobs, NEW step \in {"REQUESTED", "NEXT"},
           NEW family \in Families \cup {Nothing}, NEW todo \in SUBSET Evidence,
           TypeOK, NewJob(j, step, family, todo),
           family # Nothing => InLedger(family)',
           \A e \in todo : Known(e) /\ (family # Nothing => OfFamily(e, family)')
    PROVE  JobGoesOn(j)
  <1>1. /\ jobs'[j].step = step /\ jobs'[j].family = family /\ jobs'[j].todo = todo
        /\ jobs'[j].current = Nothing
        /\ \A i \in Jobs : i # j => jobs'[i] = jobs[i]
    BY Begun DEF JobStep
  <1>2. \A e \in Evidence : e \in jobs'[j].todo \cup {jobs'[j].current} => e \in todo
    BY <1>1, ConstantsTyped
  <1>3. \A f \in Families : f # Nothing
    BY ConstantsTyped
  <1>4. JobRecorded(j)'
    BY <1>1, <1>2, <1>3 DEF JobRecorded
  <1> QED BY <1>1, <1>2, <1>4 DEF JobGoesOn

LEMMA DeletionEffect ==
    ASSUME WellFormed, Tracked, NEW j \in Jobs, Deletion(j)
    PROVE  JobEffect(j)
  <1>1. TypeOK /\ JobRecorded(j)
    BY DEF WellFormed, Tracked, JobsRecorded
  <1>2. \A e \in Evidence : rows[e] # Nothing => Known(e)
    BY DEF Known
  <1>3. CASE StartRetention(j)
    <2> DEFINE todo == {e \in Evidence : rows[e] # Nothing /\ rows[e].expires <= now}
    <2>1. /\ NewJob(j, "NEXT", Nothing, todo) /\ open
          /\ UNCHANGED <<families, rows, closed, objects, ledger, calls, backup, open>>
      BY <1>3 DEF StartRetention, database
    <2>2. todo \in SUBSET Evidence /\ \A e \in todo : Known(e)
      BY <1>2
    <2> HIDE DEF todo
    <2>3. JobGoesOn(j)
      BY <1>1, <2>1, <2>2, JobStarted
    <2> QED BY <1>1, <2>1, <2>3, SameLedger, SameRows, SameObjects DEF JobEffect
  <1>4. CASE TombstoneEvidence(j)
    <2>1. /\ jobs[j].step \in JobStep /\ jobs[j] # Idle /\ open /\ Take(j, "TOMBSTONED")
          /\ UNCHANGED <<families, rows, closed, objects, calls, backup, open>>
      BY <1>4, JobRunning DEF TombstoneEvidence, JobStep, WellFormed, Suspended, database
    <2>2. PICK e \in jobs[j].todo :
             /\ e \in Evidence /\ jobs'[j] # Idle /\ jobs'[j].step = "TOMBSTONED"
             /\ jobs'[j].family = jobs[j].family /\ jobs'[j].todo = jobs[j].todo \ {e}
             /\ jobs'[j].current = e
             /\ \A i \in Jobs : i # j => jobs'[i] = jobs[i]
      BY <1>1, <2>1, Taken DEF JobStep
    <2>3. ledger' = WithTombstone(e)
      BY <1>4, <2>2 DEF TombstoneEvidence
    <2>4. Known(e)
      BY <2>1 DEF Known, Listed
    <2>5. LedgerGrows /\ InLedger(e)'
      BY <1>1, <2>2, <2>3, <2>4, TombstoneAdded
    <2>6. RowsFade /\ ObjectsGo
      BY <2>1, SameRows, SameObjects
    <2>7. JobGoesOn(j)
      <3>1. jobs'[j].todo \subseteq jobs[j].todo
        BY <2>2
      <3> QED BY <2>1, <2>2, <2>5, <2>6, <3>1, JobKept
    <2> QED BY <2>1, <2>5, <2>6, <2>7 DEF JobEffect
  <1>5. CASE MarkExpired(j)
    <2>1. /\ jobs[j] # Idle /\ jobs[j].current \in Evidence /\ jobs[j].step = "TOMBSTONED"
          /\ jobs[j].step \in JobStep /\ open
          /\ UNCHANGED <<families, objects, ledger, calls, backup, open>>
      BY <1>5, JobRunning DEF MarkExpired, JobStep, WellFormed, Suspended
    <2>2. PICK e \in Evidence : e = jobs[j].current
      BY <2>1
    <2>3. Mark(e) /\ Proceed(j, "MARKED")
      BY <1>5, <2>2 DEF MarkExpired
    <2>4. InLedger(e) /\ Known(e)
      BY <1>1, <2>1, <2>2 DEF JobRecorded, Known
    <2>5. RowsFade /\ e \in closed'
      BY <2>1, <2>3, <2>4, MarkFades
    <2>6. LedgerGrows /\ ObjectsGo
      BY <1>1, <2>1, SameLedger, SameObjects
    <2>7. /\ jobs'[j] # Idle /\ jobs'[j].step = "MARKED" /\ jobs'[j].family = jobs[j].family
          /\ jobs'[j].todo = jobs[j].todo /\ jobs'[j].current = jobs[j].current
          /\ \A i \in Jobs : i # j => jobs'[i] = jobs[i]
      BY <1>1, <2>1, <2>3, Proceeded DEF JobStep
    <2>8. JobGoesOn(j)
      BY <2>1, <2>2, <2>5, <2>6, <2>7, JobKept
    <2> QED BY <2>1, <2>5, <2>6, <2>8 DEF JobEffect
  <1>6. ASSUME NEW f \in Families, TombstoneFamily(j, f)
        PROVE  JobEffect(j)
    <2>1. /\ NewJob(j, "REQUESTED", f, {}) /\ open /\ ledger' = WithTombstone(f)
          /\ UNCHANGED <<families, rows, closed, objects, calls, backup, open>>
      BY <1>6 DEF TombstoneFamily, database
    <2>2. LedgerGrows /\ InLedger(f)'
      BY <1>1, <2>1, TombstoneAdded, ConstantsTyped
    <2>3. JobGoesOn(j)
      BY <1>1, <2>1, <2>2, JobStarted
    <2> QED BY <2>1, <2>2, <2>3, SameRows, SameObjects DEF JobEffect
  <1>7. CASE HideFamily(j) \/ DeleteObject(j)
    <2>1. /\ jobs[j].step \in {"REQUESTED", "MARKED"} /\ jobs[j].step \in JobStep
          /\ jobs[j] # Idle /\ open
          /\ Proceed(j, "HIDDEN") \/ (jobs[j].step = "MARKED" /\ Proceed(j, "DELETED"))
          /\ UNCHANGED <<families, rows, closed, ledger, calls, backup, open>>
          /\ \/ UNCHANGED objects
             \/ jobs[j].step = "MARKED" /\ objects' = objects \ {jobs[j].current}
      BY <1>7, JobRunning DEF HideFamily, DeleteObject, JobStep, WellFormed, Suspended, database
    <2>2. LedgerGrows /\ RowsFade
      BY <1>1, <2>1, SameLedger, SameRows
    <2>3. jobs[j].step = "MARKED" => jobs[j].current \in closed
      BY <1>1, <2>1 DEF JobRecorded
    <2>4. ObjectsGo
      BY <2>1, <2>3 DEF ObjectsGo
    <2>5. /\ jobs'[j] # Idle
          /\ jobs'[j].step = "HIDDEN" \/ (jobs[j].step = "MARKED" /\ jobs'[j].step = "DELETED")
          /\ jobs'[j].family = jobs[j].family
          /\ jobs'[j].todo = jobs[j].todo /\ jobs'[j].current = jobs[j].current
          /\ \A i \in Jobs : i # j => jobs'[i] = jobs[i]
      BY <1>1, <2>1, Proceeded DEF JobStep
    <2>6. JobGoesOn(j)
      BY <2>1, <2>2, <2>3, <2>5, JobKept
    <2> QED BY <2>1, <2>2, <2>4, <2>6 DEF JobEffect
  <1>8. CASE RevokeFamily(j)
    <2>1. jobs[j] # Idle /\ jobs[j].family \in Families /\ open
      BY <1>8, JobRunning DEF RevokeFamily, JobStep, WellFormed, Suspended
    <2>2. PICK f \in Families : f = jobs[j].family
      BY <2>1
    <2> DEFINE todo == {e \in Evidence : rows[e] # Nothing /\ rows[e].family = f}
    <2>3. /\ NewJob(j, "NEXT", f, todo) /\ todo \in SUBSET Evidence
          /\ UNCHANGED <<families, rows, closed, objects, ledger, calls, backup, open>>
      BY <1>8, <2>2 DEF RevokeFamily, database
    <2>4. InLedger(f)'
      BY <1>1, <2>1, <2>2, <2>3 DEF JobRecorded, InLedger
    <2>5. \A e \in todo : Known(e) /\ OfFamily(e, f)'
      BY <1>2, <2>3 DEF OfFamily, Tracked, FamiliesAgree, BackedUp
    <2> HIDE DEF todo
    <2>6. JobGoesOn(j)
      BY <1>1, <2>3, <2>4, <2>5, JobStarted
    <2> QED BY <1>1, <2>1, <2>3, <2>6, SameLedger, SameRows, SameObjects DEF JobEffect
  <1>9. CASE MarkOfFamily(j)
    <2>1. /\ jobs[j].step \in JobStep /\ jobs[j] # Idle /\ open /\ Take(j, "MARKED")
          /\ jobs[j] \in Running /\ jobs[j].family # Nothing
          /\ UNCHANGED <<families, objects, ledger, calls, backup, open>>
      BY <1>9, JobRunning DEF MarkOfFamily, JobStep, WellFormed, Suspended
    <2>2. PICK e \in jobs[j].todo :
             /\ e \in Evidence /\ jobs'[j] # Idle /\ jobs'[j].step = "MARKED"
             /\ jobs'[j].family = jobs[j].family /\ jobs'[j].todo = jobs[j].todo \ {e}
             /\ jobs'[j].current = e
             /\ \A i \in Jobs : i # j => jobs'[i] = jobs[i]
      BY <1>1, <2>1, Taken DEF JobStep
    <2>3. Mark(e)
      BY <1>9, <2>2 DEF MarkOfFamily
    <2>4. Known(e)
      BY <2>1 DEF Known, Listed
    <2>5. jobs[j].family \in Families
      BY <2>1 DEF Running
    <2>6. BackedUp(e) => InLedger(backup.rows[e].family)
      BY <1>1, <2>1, <2>2, <2>5 DEF JobRecorded, OfFamily
    <2>7. RowsFade /\ e \in closed'
      BY <2>1, <2>2, <2>3, <2>4, <2>6, MarkFades
    <2>8. LedgerGrows /\ ObjectsGo
      BY <1>1, <2>1, SameLedger, SameObjects
    <2>9. jobs'[j].todo \subseteq jobs[j].todo
      BY <2>2
    <2>10. JobGoesOn(j)
      BY <2>1, <2>2, <2>7, <2>8, <2>9, JobKept
    <2> QED BY <2>1, <2>7, <2>8, <2>10 DEF JobEffect
  <1>10. CASE DeleteObjectFails(j)
    <2>1. /\ jobs[j] # Idle /\ open
          /\ UNCHANGED <<families, rows, closed, objects, ledger, calls, backup, open>>
      BY <1>10, JobRunning DEF DeleteObjectFails, JobStep, WellFormed, Suspended, database
    <2>2. LedgerGrows /\ RowsFade /\ ObjectsGo
      BY <1>1, <2>1, SameLedger, SameRows, SameObjects
    <2>3. /\ jobs'[j] # Idle /\ jobs'[j].step = "NEXT" /\ jobs'[j].family = jobs[j].family
          /\ jobs'[j].todo = jobs[j].todo /\ jobs'[j].current = jobs[j].current
          /\ \A i \in Jobs : i # j => jobs'[i] = jobs[i]
      BY <1>1, <1>10, Failed
    <2>4. JobGoesOn(j)
      BY <2>1, <2>2, <2>3, JobKept
    <2> QED BY <2>1, <2>2, <2>4 DEF JobEffect
  <1>11. CASE PurgeEvidence(j)
    <2>1. /\ jobs[j] # Idle /\ jobs[j].current \in Evidence /\ jobs[j].step \in JobStep /\ open
          /\ UNCHANGED <<families, closed, objects, ledger, calls, backup, open>>
      BY <1>11, JobRunning DEF PurgeEvidence, JobStep, WellFormed, Suspended
    <2>2. RowsFade
      BY <1>11, <2>1, PurgeFades DEF PurgeEvidence
    <2>3. LedgerGrows /\ ObjectsGo
      BY <1>1, <2>1, SameLedger, SameObjects
    <2>4. /\ jobs'[j] # Idle /\ jobs'[j].step = "NEXT" /\ jobs'[j].family = jobs[j].family
          /\ jobs'[j].todo = jobs[j].todo /\ jobs'[j].current = jobs[j].current
          /\ \A i \in Jobs : i # j => jobs'[i] = jobs[i]
      BY <1>1, <1>11, <2>1, Proceeded DEF PurgeEvidence, JobStep
    <2>5. JobGoesOn(j)
      BY <2>1, <2>2, <2>3, <2>4, JobKept
    <2> QED BY <2>1, <2>2, <2>3, <2>5 DEF JobEffect
  <1>12. CASE EndJob(j) \/ CrashJob(j)
    <2>1. /\ jobs[j] # Idle /\ open /\ jobs' = [jobs EXCEPT ![j] = Idle]
          /\ UNCHANGED <<objects, ledger, calls, backup, open>>
      BY <1>12, JobRunning DEF EndJob, CrashJob, JobStep, WellFormed, Suspended
    <2>2. JobGoesOn(j)
      BY <1>1, <2>1, Ended, JobDropped
    <2>3. RowsFade
      <3>1. CASE UNCHANGED <<families, rows, closed>>
        BY <3>1, SameRows
      <3>2. CASE ~UNCHANGED <<families, rows, closed>>
        <4> DEFINE f == jobs[j].family
        <4>1. /\ jobs[j] \in Running /\ f # Nothing /\ families' = families \ {f}
              /\ Remove(EvidenceOf(f)) /\ closed' = closed \cup EvidenceOf(f)
          BY <1>12, <3>2, JobRunning DEF EndJob, CrashJob, JobStep, database
        <4>2. InLedger(f)
          BY <1>1, <2>1, <4>1 DEF Running, JobRecorded
        <4> HIDE DEF f
        <4> QED BY <4>1, <4>2, FamilyFades
      <3> QED BY <3>1, <3>2
    <2> QED BY <1>1, <2>1, <2>2, <2>3, SameLedger, SameObjects DEF JobEffect
  <1> QED BY <1>3, <1>4, <1>5, <1>6, <1>7, <1>8, <1>9, <1>10, <1>11, <1>12 DEF Deletion
LEMMA LedgerPositions ==
    ASSUME TypeOK
    PROVE  /\ ledger \in Seq(Families \cup Evidence)
           /\ DOMAIN ledger = 1..Len(ledger) /\ Len(ledger) \in Nat
           /\ \A i \in DOMAIN ledger : ledger[i] \in Families \cup Evidence
  BY DEF TypeOK

\* A tombstone that is not applied to the backup comes after its watermark.
LEMMA TombstoneAfter ==
    ASSUME WellFormed, Tracked, backup # Nothing, NEW target, InLedger(target),
           \/ target \in Evidence /\ backup.rows[target] # Nothing
           \/ target \in Families /\ target \in backup.families
    PROVE  target \in After(backup.watermark)
  <1>1. PICK i \in DOMAIN ledger : ledger[i] = target
    BY DEF InLedger
  <1>2. /\ i \in 1..Len(ledger) /\ Len(ledger) \in Nat /\ backup.watermark \in 0..Len(ledger)
        /\ i \notin 1..backup.watermark
    BY <1>1, LedgerPositions DEF WellFormed, Tracked, Watermarked
  <1>3. i \in (backup.watermark + 1)..Len(ledger)
    BY <1>2
  <1> QED BY <1>1, <1>3 DEF After

LEMMA DeletionTracked ==
    ASSUME WellFormed, WellFormed', Tracked, NEW j \in Jobs, JobEffect(j)
    PROVE  Tracked'
  <1>1. /\ open /\ UNCHANGED <<calls, backup, open>>
        /\ LedgerGrows /\ RowsFade /\ ObjectsGo /\ JobGoesOn(j)
        /\ closed \subseteq Evidence /\ closed \subseteq closed'
    BY DEF JobEffect, RowsFade, WellFormed, TypeOK
  <1>2. \A x : InLedger(x) => InLedger(x)'
    BY <1>1 DEF LedgerGrows, InLedger
  <1>3. \A e \in Evidence : Known(e)' => Known(e)
    <2>1. \A e \in Evidence : Listed(e)' => Known(e)
      BY <1>1 DEF JobGoesOn, Listed, Known
    <2> QED BY <1>1, <2>1 DEF LedgerGrows, RowsFade, Known, BackedUp
  <1>4. KnownStored'
    BY <1>1, <1>3 DEF Tracked, KnownStored, ObjectsGo
  <1>5. PutsUnknown'
    <2> SUFFICES ASSUME NEW h \in Handlers, NEW e \in Evidence, calls[h].step = "PUT",
                        calls[h].evidence = e
                 PROVE  /\ ~Known(e)' /\ e \notin closed'
                        /\ \A g \in Handlers : calls[g].step = "PUT" /\ calls[g].evidence = e => g = h
      BY <1>1 DEF PutsUnknown
    <2>1. /\ ~Known(e) /\ e \notin closed
          /\ \A g \in Handlers : calls[g].step = "PUT" /\ calls[g].evidence = e => g = h
      BY DEF Tracked, PutsUnknown
    <2> QED BY <1>1, <1>3, <2>1 DEF RowsFade
  <1>6. PutsStored'
    <2> SUFFICES ASSUME NEW h \in Handlers, calls[h].step = "PUT"
                 PROVE  calls[h].evidence \in objects'
      BY <1>1 DEF PutsStored
    <2>1. calls[h].evidence \in Evidence
      BY CallTyped DEF WellFormed, TypeOK
    <2>2. calls[h].evidence \in objects /\ calls[h].evidence \notin closed
      BY <2>1 DEF Tracked, PutsStored, PutsUnknown
    <2> QED BY <1>1, <2>2 DEF ObjectsGo
  <1>7. ClosedHidden'
    BY <1>1 DEF Tracked, ClosedHidden, RowsFade
  <1>8. BarredClosed'
    BY <1>1 DEF Tracked, BarredClosed
  <1>9. FamiliesAgree'
    BY <1>1 DEF Tracked, FamiliesAgree, RowsFade, BackedUp
  <1>10. JobsRecorded'
    <2> SUFFICES ASSUME NEW i \in Jobs
                 PROVE  JobRecorded(i)'
      BY DEF JobsRecorded
    <2>1. CASE i = j
      BY <1>1, <2>1 DEF JobGoesOn
    <2>2. CASE i # j
      <3>1. JobRecorded(i) /\ jobs'[i] = jobs[i]
        BY <1>1, <2>2 DEF Tracked, JobsRecorded, JobGoesOn
      <3>2. \A f : \A e \in Evidence : OfFamily(e, f) => OfFamily(e, f)'
        BY <1>1 DEF OfFamily, RowsFade, BackedUp
      <3> QED BY <1>1, <1>2, <3>1, <3>2 DEF JobRecorded
    <2> QED BY <2>1, <2>2
  <1>11. Watermarked'
    BY <1>1, LedgerPositions DEF Tracked, Watermarked, LedgerGrows, WellFormed
  <1>12. BackupCovered'
    <2> SUFFICES ASSUME NEW e \in closed', BackedUp(e)
                 PROVE  \/ backup.rows[e].deleted
                        \/ e \in After(backup.watermark)'
                        \/ backup.rows[e].family \in After(backup.watermark)'
      BY <1>1 DEF BackupCovered, BackedUp
    <2>1. PICK w : w = backup.watermark
      OBVIOUS
    <2>2. \A x : x \in After(w) => x \in After(backup.watermark)'
      BY <1>1, <2>1, LedgerPositions DEF Tracked, Watermarked, BackedUp, After, LedgerGrows, WellFormed
    <2>3. CASE e \in closed
      BY <2>1, <2>2, <2>3 DEF Tracked, BackupCovered
    <2>4. CASE e \notin closed
      <3>1. e \in Evidence /\ (InLedger(e) \/ InLedger(backup.rows[e].family))
        BY <1>1, <2>4 DEF RowsFade, WellFormed, TypeOK
      <3>2. backup.rows[e].family \in Families \cap backup.families
        BY <3>1 DEF Tracked, FamiliesAgree, BackedUp, WellFormed, TypeOK, Backup, EvidenceRecord
      <3>3. e \in After(w) \/ backup.rows[e].family \in After(w)
        BY <2>1, <3>1, <3>2, TombstoneAfter DEF BackedUp
      <3> QED BY <2>2, <3>3
    <2> QED BY <2>3, <2>4
  <1>13. RowsRestored'
    BY <1>1 DEF RowsRestored
  <1> QED BY <1>4, <1>5, <1>6, <1>7, <1>8, <1>9, <1>10, <1>11, <1>12, <1>13 DEF Tracked

-----------------------------------------------------------------------------
(* Backup, restore and reconciliation *)

LEMMA BackupTracked ==
    ASSUME WellFormed, Tracked, TakeBackup
    PROVE  Tracked'
  <1>1. PICK w \in 0..Len(ledger) :
           /\ \A i \in 1..w : Applied(ledger[i])
           /\ backup' = [families |-> families, hidden |-> hidden, rows |-> rows,
                         grants |-> grants, watermark |-> w]
    BY DEF TakeBackup
  <1>2. /\ backup'.families = families /\ backup'.rows = rows /\ backup'.watermark = w
        /\ open /\ UNCHANGED <<rows, families, objects, ledger, calls, jobs, open, closed>>
    BY <1>1 DEF TakeBackup, database
  <1>3. \A e \in Evidence : (BackedUp(e)' => rows[e] # Nothing) /\ (Known(e)' => Known(e))
    BY <1>2 DEF BackedUp, Known, Listed, InLedger
  <1>4. KnownStored' /\ PutsUnknown' /\ PutsStored'
    BY <1>2, <1>3 DEF Tracked, KnownStored, PutsUnknown, PutsStored
  <1>5. ClosedHidden' /\ BarredClosed'
    BY <1>2 DEF Tracked, ClosedHidden, BarredClosed, Hidden
  <1>6. FamiliesAgree'
    BY <1>2, <1>3 DEF Tracked, FamiliesAgree
  <1>7. JobsRecorded'
    BY <1>2, <1>3 DEF Tracked, JobsRecorded, JobRecorded, OfFamily, InLedger
  <1>8. Watermarked'
    BY <1>1, <1>2, ConstantsTyped, LedgerPositions DEF Watermarked, Applied, WellFormed
  <1>9. BackupCovered' /\ RowsRestored'
    BY <1>2, <1>3 DEF Tracked, BackupCovered, RowsRestored, ClosedHidden, Hidden, WellFormed, TypeOK
  <1> QED BY <1>4, <1>5, <1>6, <1>7, <1>8, <1>9 DEF Tracked

LEMMA RestoreTracked ==
    ASSUME WellFormed, Tracked, Restore
    PROVE  Tracked'
  <1>1. /\ families' = backup.families /\ rows' = backup.rows /\ backup # Nothing
        /\ calls' = [h \in Handlers |-> Idle] /\ jobs' = [j \in Jobs |-> Idle]
        /\ open' = FALSE
        /\ UNCHANGED <<objects, ledger, backup, closed>>
    BY DEF Restore
  <1>2. Idle.step = "IDLE"
    BY DEF Idle
  <1>3. \A e \in Evidence : Known(e)' => Known(e)
    BY <1>1 DEF Known, BackedUp, Listed, InLedger
  <1>4. KnownStored' /\ PutsUnknown' /\ PutsStored'
    BY <1>1, <1>2, <1>3 DEF Tracked, KnownStored, PutsUnknown, PutsStored
  <1>5. ClosedHidden' /\ BarredClosed'
    BY <1>1, <1>2 DEF ClosedHidden, BarredClosed
  <1>6. FamiliesAgree' /\ JobsRecorded'
    BY <1>1 DEF Tracked, FamiliesAgree, BackedUp, JobsRecorded, JobRecorded
  <1>7. Watermarked' /\ BackupCovered' /\ RowsRestored'
    BY <1>1 DEF Tracked, Watermarked, BackupCovered, RowsRestored, BackedUp, After
  <1> QED BY <1>4, <1>5, <1>6, <1>7 DEF Tracked

\* Access is opened only when every tombstone after the watermark has been applied.
LEMMA ReconcileTracked ==
    ASSUME WellFormed, Tracked, Reconcile
    PROVE  Tracked'
  <1> DEFINE after == After(backup.watermark)
  <1>1. PICK failures \in SUBSET after :
           /\ families' = families \ ((after \ failures) \cap Families)
           /\ Remove(((after \ failures) \cap Evidence) \cup
                        UNION {EvidenceOf(f) : f \in (after \ failures) \cap Families})
           /\ open' = (failures = {})
    BY DEF Reconcile
  <1>2. /\ ~open /\ UNCHANGED <<objects, ledger, calls, jobs, backup, closed>>
        /\ closed \subseteq Evidence
    BY DEF Reconcile, WellFormed, TypeOK
  <1> DEFINE done == after \ failures
             removed == (done \cap Evidence) \cup UNION {EvidenceOf(f) : f \in done \cap Families}
  <1>3. \A e \in Evidence : rows'[e] = IF e \in removed THEN Nothing ELSE rows[e]
    BY <1>1, Removed DEF WellFormed
  <1>4. \A e \in Evidence, f \in done \cap Families :
           rows[e] # Nothing /\ rows[e].family = f => e \in removed
    BY DEF EvidenceOf
  <1>5. open' => done = after
    BY <1>1
  <1> HIDE DEF after, done
  <1>6. \A e \in done : e \in Evidence => e \in removed
    OBVIOUS
  <1>7. families' = families \ (done \cap Families)
    BY <1>1 DEF done
  <1> HIDE DEF removed
  <1>8. \A e \in Evidence : Known(e)' => Known(e)
    BY <1>2, <1>3 DEF Known, BackedUp, Listed, InLedger
  <1>9. KnownStored' /\ PutsUnknown' /\ PutsStored'
    BY <1>2, <1>8 DEF Tracked, KnownStored, PutsUnknown, PutsStored
  <1>10. ClosedHidden'
    <2> SUFFICES ASSUME open', NEW e \in closed, rows'[e] # Nothing
                 PROVE  rows'[e].deleted
      BY <1>2 DEF ClosedHidden, Hidden
    <2>1. e \in Evidence /\ e \notin removed /\ rows'[e] = rows[e]
      BY <1>2, <1>3
    <2>2. rows[e] = backup.rows[e] /\ BackedUp(e)
      BY <1>2, <2>1 DEF Tracked, RowsRestored, BackedUp, WellFormed, Suspended
    <2>3. e \notin after /\ backup.rows[e].family \notin after
      <3>1. backup.rows[e].family \in Families
        BY <2>1, <2>2 DEF WellFormed, TypeOK, EvidenceRecord
      <3> QED BY <1>4, <1>5, <1>6, <2>1, <2>2, <3>1
    <2> QED BY <2>1, <2>2, <2>3 DEF Tracked, BackupCovered, after
  <1>11. BarredClosed'
    BY <1>2 DEF Tracked, BarredClosed
  <1>12. FamiliesAgree'
    <2>1. \A e \in Evidence : rows'[e] # Nothing =>
             rows'[e] = rows[e] /\ rows[e].family \in families \ (done \cap Families)
      BY <1>3, <1>4 DEF Tracked, FamiliesAgree
    <2> QED BY <1>2, <1>7, <2>1 DEF Tracked, FamiliesAgree, BackedUp
  <1>13. JobsRecorded'
    BY <1>2 DEF WellFormed, Suspended, JobsRecorded, JobRecorded
  <1>14. Watermarked' /\ BackupCovered'
    BY <1>2 DEF Tracked, Watermarked, BackupCovered, BackedUp, After
  <1>15. RowsRestored'
    BY <1>2, <1>3 DEF Tracked, RowsRestored
  <1> QED BY <1>9, <1>10, <1>11, <1>12, <1>13, <1>14, <1>15 DEF Tracked

LEMMA AlwaysTracked == Spec => []Tracked
  <1>1. WellFormed /\ Tracked /\ [Next]_vars => Tracked'
    <2> SUFFICES ASSUME WellFormed, Tracked, [Next]_vars
                 PROVE  Tracked'
      OBVIOUS
    <2>1. WellFormed'
      BY StepWellFormed
    <2>2. CASE UNCHANGED <<rows, families, objects, ledger, calls, jobs, backup, open, closed>>
      BY <2>2, TrackedUnchanged
    <2>3. ASSUME \/ Tick \/ UNCHANGED vars
                 \/ \E s \in Sessions : RevokeSession(s) \/ \E f \in Families : Register(s, f)
                 \/ \E e \in Evidence : RevokeGrants(e)
          PROVE  UNCHANGED <<rows, families, objects, ledger, calls, jobs, backup, open, closed>>
      BY <2>3 DEF Tick, vars, RevokeSession, Register, RevokeGrants, database
    <2>4. ASSUME NEW h \in Handlers, Service(h)
          PROVE  Tracked'
      BY <2>4, ServiceTracked
    <2>5. ASSUME NEW j \in Jobs, Deletion(j)
          PROVE  Tracked'
      BY <2>1, <2>5, DeletionEffect, DeletionTracked
    <2> QED BY <2>2, <2>3, <2>4, <2>5, BackupTracked, RestoreTracked, ReconcileTracked DEF Next
  <1> QED BY <1>1, InitTracked, AlwaysWellFormed, PTL DEF Spec

-----------------------------------------------------------------------------
(* What a parent is served *)

\* No delivery that begins after evidence was made inaccessible gets as far as its
\* object, with grants that were being issued meanwhile, or rows and grants that a
\* restored backup brought back.
THEOREM DeletedIsNotDelivered == Spec => []NothingDeletedIsDelivered
  <1>1. Tracked => NothingDeletedIsDelivered
    BY DEF Tracked, BarredClosed, NothingDeletedIsDelivered
  <1> QED BY <1>1, AlwaysTracked, PTL

\* While access is open, every record a parent may still read has its object: no crash,
\* failed deletion or restore leaves a live row of a deleted object.
THEOREM ServedIsIntact == Spec => []ServedIntact
  <1>1. Tracked => ServedIntact
    BY DEF Tracked, KnownStored, Known, ClosedHidden, Hidden, ServedIntact
  <1> QED BY <1>1, AlwaysTracked, PTL
=============================================================================
