------------------------ MODULE FamilyDeletionProofs ------------------------
(***************************************************************************)
(* Proofs about FamilyDeletion for every set of files and deletions, with  *)
(* any faults.                                                             *)
(***************************************************************************)
EXTENDS FamilyDeletion, TLAPS

-----------------------------------------------------------------------------
(* The inductive invariant *)

\* The commit that deletes the family is the one that leaves a tombstone.
GoneIsTombstoned ==
    /\ family <=> ~Tombstoned
    /\ ~family => rows = {}

\* An upload in progress has its file, the family and the API.
UploadsJustified ==
    /\ uploads # {} => api /\ family
    /\ \A e \in uploads : files[e] = "stored" /\ e \notin rows

\* What a receipt's status says about its staging directory.
ReceiptsJustified ==
    \A r \in Receipts :
        /\ receipts[r].status \in {"NONE", "COMPLETED"} => StagedIn(r) = {}
        /\ receipts[r].status \in {"DATABASE_DELETED", "FAILED_STORAGE_CLEANUP"}
              => receipts[r].staging \/ StagedIn(r) = {}

\* What each phase of the program relies on: the status of its receipt, and
\* that its lists cover the staging directory.
RunJustified ==
    /\ run.pc # "idle" => ~api
    /\ run.pc \in {"staging", "deleting", "restoring"} =>
          receipts[run.receipt].status = "STARTED"
    /\ run.pc \in {"staging", "deleting"} => StagedIn(run.receipt) = run.staged
    /\ run.pc = "deleting" /\ run.staged # {} => receipts[run.receipt].staging
    /\ run.pc = "cleaning" => receipts[run.receipt].status = "DATABASE_DELETED"
    /\ run.pc = "returning" => receipts[run.receipt].status = "FAILED_DATABASE"
    /\ run.pc = "purging" =>
          receipts[run.receipt].status \in {"DATABASE_DELETED", "FAILED_STORAGE_CLEANUP"}
    /\ run.pc \in {"cleaning", "returning", "purging"} => StagedIn(run.receipt) \subseteq run.todo

DeletionInv ==
    /\ TypeOK
    /\ GoneIsTombstoned
    /\ UploadsJustified
    /\ ReceiptsJustified
    /\ RunJustified
    /\ EvidenceKept

LEMMA DeletionInvInit == Init => DeletionInv
  <1> SUFFICES ASSUME Init PROVE DeletionInv
    OBVIOUS
  <1> USE DeletionConstants DEF Init
  <1>1. TypeOK
    BY DEF TypeOK, Receipt, Status, Run, Phase
  <1>2. \A r \in Receipts : StagedIn(r) = {}
    BY DEF StagedIn
  <1>3. GoneIsTombstoned
    BY DEF GoneIsTombstoned, Tombstoned, Tombstones
  <1>4. UploadsJustified /\ EvidenceKept /\ RunJustified
    BY DEF UploadsJustified, EvidenceKept, RunJustified
  <1>5. ReceiptsJustified
    BY <1>2 DEF ReceiptsJustified
  <1> QED BY <1>1, <1>3, <1>4, <1>5 DEF DeletionInv

-----------------------------------------------------------------------------
(* Steps that touch files only *)

\* Moving or removing one file empties no staging directory but its own, and
\* fills at most the one it goes to.
LEMMA FileMoved ==
    ASSUME TypeOK, NEW e \in Evidence, NEW to \in {"absent", "stored"} \cup Receipts,
           files' = [files EXCEPT ![e] = to]
    PROVE  /\ files' \in [Evidence -> {"absent", "stored"} \cup Receipts]
           /\ files'[e] = to
           /\ \A f \in Evidence : f # e => files'[f] = files[f]
           /\ \A r \in Receipts : StagedIn(r)' = IF r = to THEN StagedIn(r) \cup {e}
                                                           ELSE StagedIn(r) \ {e}
  BY DEF TypeOK, StagedIn

LEMMA StageFileStep ==
    ASSUME DeletionInv, NEW e \in Evidence, StageFile(e)
    PROVE  DeletionInv'
  <1> USE DEF DeletionInv, StageFile
  <1>1. run.receipt \in Receipts /\ run \in Run
    BY DEF TypeOK, Run
  <1>2. /\ files'[e] = run.receipt
        /\ files' \in [Evidence -> {"absent", "stored"} \cup Receipts]
        /\ \A f \in Evidence : f # e => files'[f] = files[f]
        /\ \A r \in Receipts : StagedIn(r)' = IF r = run.receipt THEN StagedIn(r) \cup {e}
                                                               ELSE StagedIn(r) \ {e}
    BY <1>1, FileMoved
  <1>3. run' \in Run /\ run'.pc = "staging" /\ run'.receipt = run.receipt
        /\ run'.staged = run.staged \cup {e}
    BY <1>1 DEF Run, Phase
  <1>4. TypeOK'
    BY <1>2, <1>3 DEF TypeOK
  <1>5. GoneIsTombstoned'
    BY DEF GoneIsTombstoned, Tombstoned
  <1>6. UploadsJustified'
    BY DEF UploadsJustified, RunJustified
  <1>7. receipts[run.receipt].status = "STARTED"
    BY DEF RunJustified
  <1>8. ReceiptsJustified'
    BY <1>2, <1>7 DEF ReceiptsJustified
  <1>9. RunJustified'
    BY <1>1, <1>2, <1>3 DEF RunJustified
  <1>10. EvidenceKept'
    <2>1. rows \subseteq Evidence /\ "absent" \notin Receipts
      BY DeletionConstants DEF TypeOK
    <2> QED BY <1>1, <1>2, <1>7, <2>1 DEF EvidenceKept
  <1> QED BY <1>4, <1>5, <1>6, <1>8, <1>9, <1>10

\* A loop handles one of its files: it goes where the loop takes it, or stays
\* although the restore loop gives it up.
LEMMA LoopStep ==
    ASSUME DeletionInv, NEW e \in Evidence, RestoreFile(e) \/ CleanFile(e) \/ ResumeFile(e)
    PROVE  DeletionInv'
  <1> USE DEF DeletionInv
  <1>1. /\ run.receipt \in Receipts /\ run \in Run
        /\ run.pc \in {"restoring", "cleaning", "returning", "purging"}
        /\ UNCHANGED <<family, rotated, rows, receipts, api, uploads>>
        /\ run' = [run EXCEPT !.todo = @ \ {e}]
    BY DEF TypeOK, Run, RestoreFile, CleanFile, ResumeFile
  <1>2. run' \in Run /\ run'.pc = run.pc /\ run'.receipt = run.receipt
        /\ run'.todo = run.todo \ {e}
    BY <1>1 DEF Run, Phase
  <1>3. /\ files' \in [Evidence -> {"absent", "stored"} \cup Receipts]
        /\ \A r \in Receipts : StagedIn(r)' \subseteq StagedIn(r)
        /\ run.pc # "restoring" => StagedIn(run.receipt)' = StagedIn(run.receipt) \ {e}
        /\ \A f \in Evidence : \/ files'[f] = files[f]
                               \/ files'[f] = "stored"
                               \/ files'[f] = "absent" /\ run.pc \in {"cleaning", "purging"}
    <2>1. TypeOK /\ "absent" \notin Receipts /\ "stored" \notin Receipts
      BY DeletionConstants
    <2>2. CASE UNCHANGED files /\ run.pc = "restoring"
      <3>1. \A r \in Receipts : StagedIn(r)' = StagedIn(r)
        BY <2>2 DEF StagedIn
      <3> QED BY <3>1, <2>1, <2>2 DEF TypeOK
    <2>3. ASSUME NEW to \in {"stored", "absent"}, files' = [files EXCEPT ![e] = to],
                 to = "absent" => run.pc \in {"cleaning", "purging"}
          PROVE  /\ files' \in [Evidence -> {"absent", "stored"} \cup Receipts]
                 /\ \A r \in Receipts : StagedIn(r)' \subseteq StagedIn(r)
                 /\ run.pc # "restoring" =>
                        StagedIn(run.receipt)' = StagedIn(run.receipt) \ {e}
                 /\ \A f \in Evidence :
                        \/ files'[f] = files[f]
                        \/ files'[f] = "stored"
                        \/ files'[f] = "absent" /\ run.pc \in {"cleaning", "purging"}
      <3>1. /\ files' \in [Evidence -> {"absent", "stored"} \cup Receipts]
            /\ files'[e] = to
            /\ \A f \in Evidence : f # e => files'[f] = files[f]
            /\ \A r \in Receipts : StagedIn(r)' = IF r = to THEN StagedIn(r) \cup {e}
                                                           ELSE StagedIn(r) \ {e}
        BY <2>1, <2>3, FileMoved
      <3>2. \A r \in Receipts : StagedIn(r)' = StagedIn(r) \ {e}
        BY <2>1, <2>3, <3>1
      <3> QED BY <1>1, <2>3, <3>1, <3>2
    <2>4. \/ UNCHANGED files /\ run.pc = "restoring"
          \/ \E to \in {"stored", "absent"} :
                /\ files' = [files EXCEPT ![e] = to]
                /\ to = "absent" => run.pc \in {"cleaning", "purging"}
      BY DEF RestoreFile, CleanFile, ResumeFile
    <2> QED BY <2>2, <2>3, <2>4
  <1>4. TypeOK'
    BY <1>1, <1>2, <1>3 DEF TypeOK
  <1>5. GoneIsTombstoned'
    BY <1>1 DEF GoneIsTombstoned, Tombstoned
  <1>6. UploadsJustified'
    BY <1>1 DEF UploadsJustified, RunJustified
  <1>7. ReceiptsJustified'
    BY <1>1, <1>3 DEF ReceiptsJustified
  <1>8. RunJustified'
    BY <1>1, <1>2, <1>3 DEF RunJustified
  <1>9. run.pc \in {"cleaning", "purging"} => rows = {}
    BY <1>1 DEF RunJustified, GoneIsTombstoned, Tombstoned, Tombstones
  <1>10. EvidenceKept'
    <2>1. rows \subseteq Evidence /\ "stored" \notin Receipts
      BY DeletionConstants DEF TypeOK
    <2> QED BY <1>1, <1>3, <1>9, <2>1 DEF EvidenceKept
  <1> QED BY <1>4, <1>5, <1>6, <1>7, <1>8, <1>10

-----------------------------------------------------------------------------
(* Steps that touch receipts and the program's own state only *)

\* Without a change of files or rows, the conjuncts about them follow from what
\* happens to the receipts.
LEMMA NothingMoved ==
    ASSUME DeletionInv, UNCHANGED <<rotated, rows, files, uploads, family>>,
           UNCHANGED api, run' \in Run, receipts' \in [Receipts -> Receipt],
           RunJustified', ReceiptsJustified',
           Tombstoned' <=> Tombstoned,
           \A r \in Receipts :
               \/ receipts'[r] = receipts[r]
               \/ receipts'[r].status = "STARTED"
               \/ receipts'[r].status = "FAILED_DATABASE" /\ receipts'[r].staging
               \/ StagedIn(r) = {}
               \/ rows = {}
    PROVE  DeletionInv'
  <1> USE DEF DeletionInv
  <1>1. TypeOK' /\ GoneIsTombstoned' /\ UploadsJustified'
    BY DEF TypeOK, GoneIsTombstoned, UploadsJustified
  <1>2. EvidenceKept'
    <2>1. rows \subseteq Evidence
      BY DEF TypeOK
    <2> QED BY <2>1 DEF EvidenceKept, StagedIn
  <1> QED BY <1>1, <1>2

\* The program goes to another phase, or ends, without a write.
LEMMA PhaseStep ==
    ASSUME DeletionInv,
           StageFails \/ DeleteRowsFails \/ ResumeFails \/ Crash
               \/ \E r \in Receipts : ResumeStaged(r)
    PROVE  DeletionInv'
  <1> USE DEF DeletionInv
  <1>1. UNCHANGED <<family, rotated, rows, files, receipts, api, uploads>>
    BY DEF StageFails, DeleteRowsFails, ResumeFails, Crash, ResumeStaged
  <1>2. \A r \in Receipts : StagedIn(r)' = StagedIn(r)
    BY <1>1 DEF StagedIn
  <1>3. Tombstoned' <=> Tombstoned
    BY <1>1 DEF Tombstoned
  <1>4. ReceiptsJustified'
    BY <1>1, <1>2 DEF ReceiptsJustified
  <1>5. run \in Run /\ run.receipt \in Receipts /\ receipts \in [Receipts -> Receipt]
    BY DEF TypeOK, Run
  <1>6. run' \in Run /\ RunJustified'
    <2>1. CASE StageFails \/ DeleteRowsFails
      <3>1. /\ run' \in Run /\ run'.pc = "restoring" /\ run'.receipt = run.receipt
            /\ run.pc \in {"staging", "deleting"}
        BY <2>1, <1>5 DEF StageFails, DeleteRowsFails, Run, Phase
      <3> QED BY <3>1, <1>1 DEF RunJustified
    <2>2. CASE ResumeFails \/ Crash
      <3>1. run' \in Run /\ run'.pc = "idle"
        BY <2>2, <1>5 DEF ResumeFails, Crash, Run, Phase
      <3> QED BY <3>1 DEF RunJustified
    <2>3. ASSUME NEW r \in Receipts, ResumeStaged(r) PROVE run' \in Run /\ RunJustified'
      <3>1. /\ run'.pc \in {"returning", "purging"} /\ run'.receipt = r
            /\ run'.pc = "returning" => receipts[r].status = "FAILED_DATABASE"
            /\ run'.pc = "purging" =>
                  receipts[r].status \in {"DATABASE_DELETED", "FAILED_STORAGE_CLEANUP"}
            /\ run'.todo = StagedIn(r) /\ ~api
        BY <2>3 DEF ResumeStaged
      <3>2. run' \in Run
        BY <2>3 DEF ResumeStaged, Run, Phase, StagedIn
      <3> QED BY <3>1, <3>2, <1>1, <1>2 DEF RunJustified
    <2> QED BY <2>1, <2>2, <2>3
  <1> QED BY <1>1, <1>3, <1>4, <1>5, <1>6, NothingMoved

LEMMA BeginStep ==
    ASSUME DeletionInv, NEW r \in Receipts, Begin(r)
    PROVE  DeletionInv'
  <1> USE DEF DeletionInv
  <1>1. /\ UNCHANGED <<family, rotated, rows, files, api, uploads>>
        /\ receipts[r].status = "NONE" /\ ~api
        /\ run' = [pc |-> "staging", receipt |-> r, staged |-> {},
                   todo |-> {e \in rows : files[e] = "stored"}]
    BY DEF Begin
  <1>2. /\ receipts' \in [Receipts -> Receipt]
        /\ receipts'[r].status = "STARTED"
        /\ \A q \in Receipts : q # r => receipts'[q] = receipts[q]
    BY DEF Begin, TypeOK, Receipt, Status
  <1>3. StagedIn(r) = {} /\ \A q \in Receipts : StagedIn(q)' = StagedIn(q)
    BY <1>1 DEF StagedIn, ReceiptsJustified
  <1>4. run' \in Run /\ run'.pc = "staging" /\ run'.receipt = r /\ run'.staged = {}
    BY <1>1 DEF Run, Phase, TypeOK
  <1>5. Tombstoned' <=> Tombstoned
    BY <1>1, <1>2 DEF Tombstoned, Tombstones
  <1>6. RunJustified'
    BY <1>1, <1>2, <1>3, <1>4 DEF RunJustified
  <1>7. ReceiptsJustified'
    BY <1>2, <1>3 DEF ReceiptsJustified
  <1>8. \A q \in Receipts : receipts'[q] = receipts[q] \/ receipts'[q].status = "STARTED"
    BY <1>2
  <1> QED BY <1>1, <1>2, <1>4, <1>5, <1>6, <1>7, <1>8, NothingMoved

LEMMA RecordStagingStep ==
    ASSUME DeletionInv, RecordStaging
    PROVE  DeletionInv'
  <1> USE DEF DeletionInv
  <1> DEFINE r == run.receipt
  <1>1. /\ UNCHANGED <<family, rotated, rows, files, api, uploads>>
        /\ run.pc = "staging"
        /\ r \in Receipts /\ run \in Run
    BY DEF RecordStaging, TypeOK, Run
  <1>2. receipts[r].status = "STARTED" /\ StagedIn(r) = run.staged /\ ~api
    BY <1>1 DEF RunJustified
  <1>3. /\ receipts' \in [Receipts -> Receipt]
        /\ receipts'[r].status = "STARTED"
        /\ run.staged # {} => receipts'[r].staging
        /\ \A q \in Receipts : q # r => receipts'[q] = receipts[q]
    BY <1>1, <1>2 DEF RecordStaging, TypeOK, Receipt, Status
  <1>4. run' \in Run /\ run'.pc = "deleting" /\ run'.receipt = r /\ run'.staged = run.staged
    BY <1>1 DEF RecordStaging, Run, Phase
  <1>5. \A q \in Receipts : StagedIn(q)' = StagedIn(q)
    BY <1>1 DEF StagedIn
  <1> HIDE DEF r
  <1>6. Tombstoned' <=> Tombstoned
    BY <1>1, <1>2, <1>3 DEF Tombstoned, Tombstones
  <1>7. RunJustified'
    BY <1>1, <1>2, <1>3, <1>4, <1>5 DEF RunJustified
  <1>8. ReceiptsJustified'
    BY <1>1, <1>3, <1>5 DEF ReceiptsJustified
  <1>9. \A q \in Receipts : receipts'[q] = receipts[q] \/ receipts'[q].status = "STARTED"
    BY <1>3
  <1> QED BY <1>1, <1>3, <1>4, <1>6, <1>7, <1>8, <1>9, NothingMoved

\* A run that ends writes one receipt: a tombstone over a tombstone, or a
\* failure over what was no tombstone.
LEMMA EndStep ==
    ASSUME DeletionInv, NEW r \in Receipts, NEW new \in Receipt,
           receipts' = [receipts EXCEPT ![r] = new],
           UNCHANGED <<family, rotated, rows, files, api, uploads>>,
           run' \in Run, run'.pc = "idle",
           \/ /\ receipts[r].status \in Tombstones
              /\ \/ new.status = "COMPLETED" /\ StagedIn(r) = {}
                 \/ new.status = "FAILED_STORAGE_CLEANUP" /\ new.staging
           \/ /\ receipts[r].status \notin Tombstones
              /\ new.status = "FAILED_DATABASE"
              /\ new.staging \/ StagedIn(r) = {}
    PROVE  DeletionInv'
  <1> USE DEF DeletionInv
  <1>1. /\ receipts' \in [Receipts -> Receipt]
        /\ receipts'[r] = new
        /\ \A q \in Receipts : q # r => receipts'[q] = receipts[q]
    BY DEF TypeOK
  <1>2. \A q \in Receipts : StagedIn(q)' = StagedIn(q)
    BY DEF StagedIn
  <1>3. Tombstoned' <=> Tombstoned
    BY <1>1 DEF Tombstoned, Tombstones
  <1>4. RunJustified'
    BY DEF RunJustified
  <1>5. ReceiptsJustified'
    BY <1>1, <1>2 DEF ReceiptsJustified
  <1>6. receipts[r].status \in Tombstones => rows = {}
    BY DEF GoneIsTombstoned, Tombstoned
  <1> QED BY <1>1, <1>3, <1>4, <1>5, <1>6, NothingMoved

LEMMA RunEndsStep ==
    ASSUME DeletionInv, EndRestore \/ CleanFails \/ EndClean \/ EndResume
    PROVE  DeletionInv'
  <1> USE DEF DeletionInv
  <1>1. /\ run \in Run /\ run.receipt \in Receipts
        /\ receipts \in [Receipts -> Receipt]
        /\ UNCHANGED <<family, rotated, rows, files, api, uploads>>
    BY DEF TypeOK, Run, EndRestore, CleanFails, EndClean, EndResume
  <1>2. run' \in Run /\ run'.pc = "idle"
    BY <1>1 DEF Run, Phase, EndRestore, CleanFails, EndClean, EndResume
  <1>3. CASE EndRestore
    <2>1. PICK left \in LeftInStaging(run.receipt) :
             receipts' = [receipts EXCEPT ![run.receipt] =
                             [status |-> "FAILED_DATABASE", staging |-> left]]
      BY <1>3 DEF EndRestore
    <2>2. left \in BOOLEAN /\ (left \/ StagedIn(run.receipt) = {})
      BY <2>1 DEF LeftInStaging
    <2>3. receipts[run.receipt].status \notin Tombstones
      BY <1>3 DEF EndRestore, RunJustified, Tombstones
    <2>4. [status |-> "FAILED_DATABASE", staging |-> left] \in Receipt
      BY <2>2 DEF Receipt, Status
    <2> QED BY <1>1, <1>2, <2>1, <2>2, <2>3, <2>4, EndStep
  <1>4. CASE CleanFails
    <2>1. receipts[run.receipt].status \in Tombstones
      BY <1>4 DEF CleanFails, RunJustified, Tombstones
    <2>2. [status |-> "FAILED_STORAGE_CLEANUP", staging |-> TRUE] \in Receipt
      BY DEF Receipt, Status
    <2> QED BY <1>1, <1>2, <1>4, <2>1, <2>2, EndStep DEF CleanFails
  <1>5. CASE EndClean \/ (EndResume /\ run.pc = "purging")
    <2>1. receipts[run.receipt].status \in Tombstones /\ StagedIn(run.receipt) = {}
      BY <1>5 DEF EndClean, EndResume, RunJustified, Tombstones
    <2>2. [status |-> "COMPLETED", staging |-> FALSE] \in Receipt
      BY DEF Receipt, Status
    <2>3. receipts' = [receipts EXCEPT ![run.receipt] = [status |-> "COMPLETED", staging |-> FALSE]]
      BY <1>5 DEF EndClean, EndResume, Completed
    <2> QED BY <1>1, <1>2, <2>1, <2>2, <2>3, EndStep
  <1>6. CASE EndResume /\ run.pc = "returning"
    <2>1. /\ receipts[run.receipt].status = "FAILED_DATABASE"
          /\ StagedIn(run.receipt) = {}
      BY <1>6 DEF EndResume, RunJustified
    <2>2. [status |-> "FAILED_DATABASE", staging |-> FALSE] \in Receipt
      BY DEF Receipt, Status
    <2>3. receipts' = [receipts EXCEPT ![run.receipt] =
                          [status |-> "FAILED_DATABASE", staging |-> FALSE]]
      BY <1>6 DEF EndResume
    <2>4. receipts[run.receipt].status \notin Tombstones
      BY <2>1 DEF Tombstones
    <2> QED BY <1>1, <1>2, <2>1, <2>2, <2>3, <2>4, EndStep
  <1> QED BY <1>3, <1>4, <1>5, <1>6 DEF EndResume

LEMMA ResumeUnstagedStep ==
    ASSUME DeletionInv, NEW r \in Receipts, ResumeUnstaged(r)
    PROVE  DeletionInv'
  <1> USE DEF DeletionInv
  <1>1. /\ receipts[r].status \in Tombstones /\ StagedIn(r) = {}
        /\ UNCHANGED <<family, rotated, rows, files, api, uploads, run>>
    BY DEF ResumeUnstaged, ReceiptsJustified, Tombstones
  <1>2. [status |-> "COMPLETED", staging |-> FALSE] \in Receipt
    BY DEF Receipt, Status
  <1>3. receipts' = [receipts EXCEPT ![r] = [status |-> "COMPLETED", staging |-> FALSE]]
    BY DEF ResumeUnstaged, Completed
  <1>4. run' \in Run /\ run'.pc = "idle"
    BY <1>1 DEF ResumeUnstaged, TypeOK
  <1> QED BY <1>1, <1>2, <1>3, <1>4, EndStep

-----------------------------------------------------------------------------
(* The commit, and the API *)

LEMMA DeleteRowsStep ==
    ASSUME DeletionInv, DeleteRows
    PROVE  DeletionInv'
  <1> USE DEF DeletionInv
  <1>1. /\ UNCHANGED <<rotated, files, api, uploads>>
        /\ family' = FALSE /\ rows' = {}
        /\ run \in Run /\ run.receipt \in Receipts /\ run.pc = "deleting"
        /\ receipts \in [Receipts -> Receipt]
    BY DEF DeleteRows, TypeOK, Run
  <1>2. /\ StagedIn(run.receipt) = run.staged /\ ~api
        /\ run.staged # {} => receipts[run.receipt].staging
    BY <1>1 DEF RunJustified
  <1>3. /\ receipts' \in [Receipts -> Receipt]
        /\ receipts'[run.receipt].status = "DATABASE_DELETED"
        /\ receipts'[run.receipt].staging = receipts[run.receipt].staging
        /\ \A q \in Receipts : q # run.receipt => receipts'[q] = receipts[q]
    BY <1>1 DEF DeleteRows, Receipt, Status
  <1>4. /\ run' \in Run /\ run'.pc = "cleaning" /\ run'.receipt = run.receipt
        /\ run'.todo = run.staged
    BY <1>1 DEF DeleteRows, Run, Phase
  <1>5. \A q \in Receipts : StagedIn(q)' = StagedIn(q)
    BY <1>1 DEF StagedIn
  <1>6. TypeOK'
    BY <1>1, <1>3, <1>4 DEF TypeOK
  <1>7. GoneIsTombstoned'
    BY <1>1, <1>3 DEF GoneIsTombstoned, Tombstoned, Tombstones
  <1>8. UploadsJustified'
    BY <1>1, <1>2 DEF UploadsJustified
  <1>9. ReceiptsJustified'
    BY <1>1, <1>2, <1>3, <1>5 DEF ReceiptsJustified
  <1>10. RunJustified'
    BY <1>1, <1>2, <1>3, <1>4, <1>5 DEF RunJustified
  <1>11. EvidenceKept'
    BY <1>1 DEF EvidenceKept
  <1> QED BY <1>6, <1>7, <1>8, <1>9, <1>10, <1>11

LEMMA UploadStep ==
    ASSUME DeletionInv, NEW e \in Evidence, WriteEvidence(e) \/ InsertEvidence(e)
    PROVE  DeletionInv'
  <1> USE DEF DeletionInv
  <1>1. /\ UNCHANGED <<family, rotated, receipts, api, run>>
        /\ api /\ family /\ run.pc = "idle"
        /\ run \in Run
    BY DEF WriteEvidence, InsertEvidence, UploadsJustified, RunJustified, TypeOK
  <1>2. "absent" \notin Receipts /\ "stored" \notin Receipts
    BY DeletionConstants
  <1>3. files[e] \in {"absent", "stored"}
    BY DEF WriteEvidence, InsertEvidence, UploadsJustified
  <1>4. PICK to \in {"absent", "stored"} : files' = [files EXCEPT ![e] = to]
    BY <1>3 DEF WriteEvidence, InsertEvidence, TypeOK
  <1>5. /\ files' \in [Evidence -> {"absent", "stored"} \cup Receipts]
        /\ files'[e] = to
        /\ \A f \in Evidence : f # e => files'[f] = files[f]
    BY <1>4, FileMoved
  <1>6. \A r \in Receipts : StagedIn(r)' = StagedIn(r)
    BY <1>2, <1>3, <1>5 DEF StagedIn
  <1>7. /\ rows' \subseteq Evidence /\ uploads' \subseteq Evidence
        /\ e \in rows' => to = "stored"
        /\ e \in uploads' => to = "stored" /\ e \notin rows'
        /\ \A f \in Evidence : f # e => (f \in rows' <=> f \in rows) /\ (f \in uploads' <=> f \in uploads)
    BY <1>4, <1>5 DEF WriteEvidence, InsertEvidence, TypeOK, UploadsJustified, EvidenceKept
  <1>8. TypeOK'
    BY <1>1, <1>5, <1>7 DEF TypeOK
  <1>9. GoneIsTombstoned'
    BY <1>1 DEF GoneIsTombstoned, Tombstoned
  <1>10. UploadsJustified'
    BY <1>1, <1>5, <1>7 DEF UploadsJustified
  <1>11. ReceiptsJustified' /\ RunJustified'
    BY <1>1, <1>6 DEF ReceiptsJustified, RunJustified
  <1>12. EvidenceKept'
    BY <1>1, <1>2, <1>5, <1>7 DEF EvidenceKept
  <1> QED BY <1>8, <1>9, <1>10, <1>11, <1>12

LEMMA ApiStateStep ==
    ASSUME DeletionInv, RotateCredential \/ StartApi \/ StopApi \/ UNCHANGED vars
    PROVE  DeletionInv'
  <1> USE DEF DeletionInv
  <1>1. /\ UNCHANGED <<rows, files, receipts, run>>
        /\ family' = family
        /\ api' \in BOOLEAN /\ rotated' \in BOOLEAN
        /\ uploads' \subseteq uploads
        /\ uploads' # {} => api'
        /\ run.pc # "idle" => ~api'
    <2> DEFINE Same == UNCHANGED <<rows, files, receipts, run, family>>
    <2>0. /\ run.pc # "idle" => ~api
          /\ uploads # {} => api
          /\ api \in BOOLEAN /\ rotated \in BOOLEAN
      BY DEF RunJustified, UploadsJustified, TypeOK
    <2>1. CASE RotateCredential
      <3>1. Same /\ api' = api /\ uploads' = uploads /\ rotated' = TRUE
        BY <2>1 DEF RotateCredential
      <3> QED BY <2>0, <3>1
    <2>3. CASE StopApi
      <3>1. Same /\ api' = FALSE /\ uploads' = {} /\ rotated' = rotated
        BY <2>3 DEF StopApi
      <3> QED BY <2>0, <3>1
    <2>4. CASE UNCHANGED vars
      BY <2>0, <2>4 DEF vars
    <2>2. CASE StartApi
      <3>1. family' = family
        BY <2>2 DEF StartApi, TypeOK, GoneIsTombstoned
      <3> QED BY <2>2, <3>1 DEF StartApi, TypeOK, UploadsJustified
    <2> QED BY <2>1, <2>2, <2>3, <2>4
  <1>2. \A r \in Receipts : StagedIn(r)' = StagedIn(r)
    BY <1>1 DEF StagedIn
  <1>3. TypeOK' /\ GoneIsTombstoned' /\ EvidenceKept'
    BY <1>1 DEF TypeOK, GoneIsTombstoned, Tombstoned, EvidenceKept
  <1>4. UploadsJustified'
    BY <1>1 DEF UploadsJustified
  <1>5. ReceiptsJustified'
    BY <1>1, <1>2 DEF ReceiptsJustified
  <1>6. RunJustified'
    <2>1. run.receipt \in Receipts
      BY DEF TypeOK, Run
    <2> QED BY <1>1, <1>2, <2>1 DEF RunJustified
  <1> QED BY <1>3, <1>4, <1>5, <1>6

-----------------------------------------------------------------------------
(* Theorems *)

LEMMA DeletionInvStep == DeletionInv /\ [Next]_vars => DeletionInv'
  <1> SUFFICES ASSUME DeletionInv, [Next]_vars PROVE DeletionInv'
    OBVIOUS
  <1>1. CASE DeleteFamily
    BY <1>1, BeginStep, StageFileStep, LoopStep, PhaseStep, RecordStagingStep, DeleteRowsStep,
       RunEndsStep DEF DeleteFamily
  <1>2. CASE ResumeDeletion
    BY <1>2, ResumeUnstagedStep, PhaseStep, LoopStep, RunEndsStep DEF ResumeDeletion
  <1>3. CASE ApiStep
    BY <1>3, UploadStep, ApiStateStep DEF ApiStep
  <1>4. CASE Crash
    BY <1>4, PhaseStep
  <1>5. CASE UNCHANGED vars
    BY <1>5, ApiStateStep
  <1> QED BY <1>1, <1>2, <1>3, <1>4, <1>5 DEF Next

LEMMA DeletionInvariant == Spec => []DeletionInv
  BY DeletionInvInit, DeletionInvStep, PTL DEF Spec

\* Rows, files, receipts and the program's state are always well typed.
THEOREM DeletionTypeCorrect == Spec => []TypeOK
  BY DeletionInvariant, PTL DEF DeletionInv

\* However deletions are interrupted, failed and resumed, the file of every
\* evidence row is in its place or where a resumed deletion finds it.
THEOREM EvidenceNeverLost == Spec => []EvidenceKept
  BY DeletionInvariant, PTL DEF DeletionInv

\* A receipt says COMPLETED only when its staging directory is empty, whatever
\* failed on the way there.
THEOREM CompletedMeansEmpty == Spec => []CompletedIsEmpty
  <1>1. DeletionInv => CompletedIsEmpty
    BY DEF DeletionInv, ReceiptsJustified, CompletedIsEmpty
  <1> QED BY <1>1, DeletionInvariant, PTL

\* Restarting the API never brings a deleted family back.
THEOREM DeletedForGood == Spec => NeverReseeded
  <1>1. DeletionInv /\ [Next]_vars => [~family => ~family']_vars
    <2> SUFFICES ASSUME DeletionInv, Next, ~family PROVE ~family'
      OBVIOUS
    <2>1. Tombstoned
      BY DEF DeletionInv, GoneIsTombstoned
    <2> QED BY <2>1 DEF Next, DeleteFamily, ResumeDeletion, ApiStep, Begin, StageFile, RestoreFile,
          CleanFile, StageFails, RecordStaging, DeleteRows, DeleteRowsFails, EndRestore,
          CleanFails, EndClean, ResumeUnstaged, ResumeStaged, ResumeFile, ResumeFails, EndResume,
          WriteEvidence, InsertEvidence, RotateCredential, StartApi, StopApi, Crash
  <1> QED BY <1>1, DeletionInvariant, PTL DEF Spec, NeverReseeded
=============================================================================
