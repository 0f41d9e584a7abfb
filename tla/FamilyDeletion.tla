--------------------------- MODULE FamilyDeletion ---------------------------
(***************************************************************************)
(* Deletion of one family by scripts/delete_pilot_family.py: the rows of   *)
(* the database, the evidence files, a staging directory per deletion and  *)
(* the receipts that GuardianStore.resume_family_deletion goes by          *)
(* (api/storage.py).  A transaction of the database is one step and so is  *)
(* one file operation; nothing spans the two, and the program may stop     *)
(* between any two steps.                                                  *)
(*                                                                         *)
(* As docs/pilot/family-deletion.md asks, the program runs while the API   *)
(* is stopped, one run at a time.  The API stores evidence, rotates        *)
(* credentials and, in demo mode, seeds its family when it starts.  A call *)
(* refused without a write (unknown family, a receipt that cannot be       *)
(* resumed or has nothing left to do) is left out.                         *)
(***************************************************************************)
CONSTANTS
    Evidence,  \* evidence ids (uuid4): a row, a file, or both
    Receipts,  \* receipt ids (uuid4)
    DemoMode,  \* the API seeds the family when it starts
    Faults     \* which of crash, oserror and dberror may happen

ASSUME DeletionConstants ==
    /\ Receipts \cap {"absent", "stored"} = {}
    /\ DemoMode \in BOOLEAN
    /\ Faults \subseteq {"crash", "oserror", "dberror"}

VARIABLES
    family,    \* the family and all its rows but the evidence exist
    rotated,   \* credential_rotations names a credential of the family
    rows,      \* table incident_evidence
    files,     \* where each evidence file is: nowhere, in the evidence
               \* directory, or in the staging directory of a receipt
    receipts,  \* table family_deletion_receipts
    api,       \* the API runs
    uploads,   \* evidence written to disk whose row is not inserted yet
    run        \* the deletion program

vars == <<family, rotated, rows, files, receipts, api, uploads, run>>

\* "NONE" marks an id with no row; DATABASE_DELETED and what follows it are
\* reached by the commit that deletes the family.
Status == {"NONE", "STARTED", "DATABASE_DELETED", "COMPLETED", "FAILED_DATABASE",
           "FAILED_STORAGE_CLEANUP"}

\* staging: staging_directory is not NULL.
Receipt == [status: Status, staging: BOOLEAN]

\* staging, deleting, restoring, cleaning: phases of delete_family; returning
\* and purging: the two loops of resume_family_deletion.
Phase == {"idle", "staging", "deleting", "restoring", "cleaning", "returning", "purging"}

\* todo: the files the current loop still has to handle; staged: staged_files.
Run == [pc: Phase, receipt: Receipts, todo: SUBSET Evidence, staged: SUBSET Evidence]

TypeOK ==
    /\ family \in BOOLEAN
    /\ rotated \in BOOLEAN
    /\ rows \subseteq Evidence
    /\ files \in [Evidence -> {"absent", "stored"} \cup Receipts]
    /\ receipts \in [Receipts -> Receipt]
    /\ api \in BOOLEAN
    /\ uploads \subseteq Evidence
    /\ run \in Run

StagedIn(r) == {e \in Evidence : files[e] = r}

\* Mutation: only a completed deletion keeps the demo family away.
CompletedOnly == {"COMPLETED"}

Tombstones == {"COMPLETED", "DATABASE_DELETED", "FAILED_STORAGE_CLEANUP"}

Tombstoned == \E r \in Receipts : receipts[r].status \in Tombstones

Init ==
    /\ family = TRUE
    /\ rotated = FALSE
    /\ rows = {}
    /\ files = [e \in Evidence |-> "absent"]
    /\ receipts = [r \in Receipts |-> [status |-> "NONE", staging |-> FALSE]]
    /\ api = TRUE
    /\ uploads = {}
    /\ run \in [pc: {"idle"}, receipt: Receipts, todo: {{}}, staged: {{}}]

-----------------------------------------------------------------------------
(* delete_family *)

\* The receipt is written in the transaction that lists the files to stage.
Begin(r) ==
    /\ run.pc = "idle" /\ ~api
    /\ family
    /\ receipts[r].status = "NONE"
    /\ receipts' = [receipts EXCEPT ![r].status = "STARTED"]
    /\ run' = [pc |-> "staging", receipt |-> r, staged |-> {},
               todo |-> {e \in rows : files[e] = "stored"}]
    /\ UNCHANGED <<family, rotated, rows, files, api, uploads>>

StageFile(e) ==
    /\ run.pc = "staging"
    /\ e \in run.todo
    /\ files' = [files EXCEPT ![e] = run.receipt]
    /\ run' = [run EXCEPT !.todo = @ \ {e}, !.staged = @ \cup {e}]
    /\ UNCHANGED <<family, rotated, rows, receipts, api, uploads>>

StageFails ==
    /\ run.pc = "staging"
    /\ run.todo # {}
    /\ "oserror" \in Faults
    /\ run' = [run EXCEPT !.pc = "restoring", !.todo = run.staged]
    /\ UNCHANGED <<family, rotated, rows, files, receipts, api, uploads>>

\* The directory is recorded only if something was staged.
RecordStaging ==
    /\ run.pc = "staging"
    /\ run.todo = {}
    /\ receipts' = [receipts EXCEPT ![run.receipt].staging = @ \/ run.staged # {}]
    /\ run' = [run EXCEPT !.pc = "deleting"]
    /\ UNCHANGED <<family, rotated, rows, files, api, uploads>>

\* Mutation: the commit already claims completion.
DeleteRowsCompleted ==
    /\ run.pc = "deleting"
    /\ ~rotated
    /\ family' = FALSE /\ rows' = {}
    /\ receipts' = [receipts EXCEPT ![run.receipt].status = "COMPLETED"]
    /\ run' = [run EXCEPT !.pc = "cleaning", !.todo = run.staged]
    /\ UNCHANGED <<rotated, files, api, uploads>>

\* The cascade from devices reaches device_credentials, which
\* credential_rotations references without one.
DeleteRows ==
    /\ run.pc = "deleting"
    /\ ~rotated
    /\ family' = FALSE /\ rows' = {}
    /\ receipts' = [receipts EXCEPT ![run.receipt].status = "DATABASE_DELETED"]
    /\ run' = [run EXCEPT !.pc = "cleaning", !.todo = run.staged]
    /\ UNCHANGED <<rotated, files, api, uploads>>

DeleteRowsFails ==
    /\ run.pc = "deleting"
    /\ rotated \/ "dberror" \in Faults
    /\ run' = [run EXCEPT !.pc = "restoring", !.todo = run.staged]
    /\ UNCHANGED <<family, rotated, rows, files, receipts, api, uploads>>

\* Best effort: a file that cannot be moved back is left in staging.
RestoreFile(e) ==
    /\ run.pc = "restoring"
    /\ e \in run.todo
    /\ \/ files' = [files EXCEPT ![e] = "stored"]
       \/ "oserror" \in Faults /\ UNCHANGED files
    /\ run' = [run EXCEPT !.todo = @ \ {e}]
    /\ UNCHANGED <<family, rotated, rows, receipts, api, uploads>>

\* Mutation: what the restore left behind is forgotten.
NothingLeft(r) == {FALSE}

\* staging_directory.exists() after the attempt to remove it, which may fail
\* on an empty directory too.
LeftInStaging(r) ==
    {StagedIn(r) # {}} \cup (IF "oserror" \in Faults /\ run.staged # {} THEN {TRUE} ELSE {})

EndRestore ==
    /\ run.pc = "restoring"
    /\ run.todo = {}
    /\ \E left \in LeftInStaging(run.receipt) :
        receipts' = [receipts EXCEPT ![run.receipt] =
                        [status |-> "FAILED_DATABASE", staging |-> left]]
    /\ run' = [run EXCEPT !.pc = "idle", !.staged = {}]
    /\ UNCHANGED <<family, rotated, rows, files, api, uploads>>

CleanFile(e) ==
    /\ run.pc = "cleaning"
    /\ e \in run.todo
    /\ files' = [files EXCEPT ![e] = "absent"]
    /\ run' = [run EXCEPT !.todo = @ \ {e}]
    /\ UNCHANGED <<family, rotated, rows, receipts, api, uploads>>

\* A file or, in the end, the directory cannot be removed.
CleanFails ==
    /\ run.pc = "cleaning"
    /\ run.staged # {}
    /\ "oserror" \in Faults
    /\ receipts' = [receipts EXCEPT ![run.receipt] =
                        [status |-> "FAILED_STORAGE_CLEANUP", staging |-> TRUE]]
    /\ run' = [run EXCEPT !.pc = "idle", !.todo = {}, !.staged = {}]
    /\ UNCHANGED <<family, rotated, rows, files, api, uploads>>

\* Mutation: a status FamilyDeletionStatus does not have.
CompletedUnknown(r) == [receipts EXCEPT ![r] = [status |-> "DONE", staging |-> FALSE]]

Completed(r) == [receipts EXCEPT ![r] = [status |-> "COMPLETED", staging |-> FALSE]]

EndClean ==
    /\ run.pc = "cleaning"
    /\ run.todo = {}
    /\ receipts' = Completed(run.receipt)
    /\ run' = [run EXCEPT !.pc = "idle", !.staged = {}]
    /\ UNCHANGED <<family, rotated, rows, files, api, uploads>>

-----------------------------------------------------------------------------
(* resume_family_deletion *)

\* Nothing was staged: the deletion is complete.
ResumeUnstaged(r) ==
    /\ run.pc = "idle" /\ ~api
    /\ receipts[r].status \in {"DATABASE_DELETED", "FAILED_STORAGE_CLEANUP"}
    /\ ~receipts[r].staging
    /\ receipts' = Completed(r)
    /\ UNCHANGED <<family, rotated, rows, files, api, uploads, run>>

ResumeStaged(r) ==
    /\ run.pc = "idle" /\ ~api
    /\ receipts[r].status \in {"DATABASE_DELETED", "FAILED_STORAGE_CLEANUP", "FAILED_DATABASE"}
    /\ receipts[r].staging
    /\ run' = [pc |-> IF receipts[r].status = "FAILED_DATABASE" THEN "returning" ELSE "purging",
               receipt |-> r, todo |-> StagedIn(r), staged |-> {}]
    /\ UNCHANGED <<family, rotated, rows, files, receipts, api, uploads>>

ResumeFile(e) ==
    /\ run.pc \in {"returning", "purging"}
    /\ e \in run.todo
    /\ files' = [files EXCEPT ![e] = IF run.pc = "returning" THEN "stored" ELSE "absent"]
    /\ run' = [run EXCEPT !.todo = @ \ {e}]
    /\ UNCHANGED <<family, rotated, rows, receipts, api, uploads>>

\* An error ends the run with the receipt as it was.
ResumeFails ==
    /\ run.pc \in {"returning", "purging"}
    /\ "oserror" \in Faults
    /\ run' = [run EXCEPT !.pc = "idle", !.todo = {}]
    /\ UNCHANGED <<family, rotated, rows, files, receipts, api, uploads>>

EndResume ==
    /\ run.pc \in {"returning", "purging"}
    /\ run.todo = {}
    /\ receipts' = IF run.pc = "purging" THEN Completed(run.receipt)
                   ELSE [receipts EXCEPT ![run.receipt] =
                            [status |-> "FAILED_DATABASE", staging |-> FALSE]]
    /\ run' = [run EXCEPT !.pc = "idle"]
    /\ UNCHANGED <<family, rotated, rows, files, api, uploads>>

-----------------------------------------------------------------------------
(* The API, and the end of either program *)

\* save_evidence finds the incident and writes the file, then inserts the row.
WriteEvidence(e) ==
    /\ api /\ family
    /\ files[e] = "absent"
    /\ e \notin rows
    /\ files' = [files EXCEPT ![e] = "stored"]
    /\ uploads' = uploads \cup {e}
    /\ UNCHANGED <<family, rotated, rows, receipts, api, run>>

InsertEvidence(e) ==
    /\ e \in uploads
    /\ \/ rows' = rows \cup {e} /\ UNCHANGED files
       \/ "dberror" \in Faults /\ files' = [files EXCEPT ![e] = "absent"] /\ UNCHANGED rows
    /\ uploads' = uploads \ {e}
    /\ UNCHANGED <<family, rotated, receipts, api, run>>

RotateCredential ==
    /\ api /\ family
    /\ rotated' = TRUE
    /\ UNCHANGED <<family, rows, files, receipts, api, uploads, run>>

\* _seed_demo ignores the rows that exist and respects the tombstones.
StartApi ==
    /\ ~api /\ run.pc = "idle"
    /\ api' = TRUE
    /\ family' = (family \/ (DemoMode /\ ~Tombstoned))
    /\ UNCHANGED <<rotated, rows, files, receipts, uploads, run>>

\* Uploads in progress are finished first, or cut off by a crash.
StopApi ==
    /\ api
    /\ uploads = {} \/ "crash" \in Faults
    /\ api' = FALSE
    /\ uploads' = {}
    /\ UNCHANGED <<family, rotated, rows, files, receipts, run>>

\* Killed, or ended by a database error in a status update.
Crash ==
    /\ "crash" \in Faults
    /\ run.pc # "idle"
    /\ run' = [run EXCEPT !.pc = "idle", !.todo = {}, !.staged = {}]
    /\ UNCHANGED <<family, rotated, rows, files, receipts, api, uploads>>

-----------------------------------------------------------------------------
DeleteFamily ==
    \/ \E r \in Receipts : Begin(r)
    \/ \E e \in Evidence : StageFile(e) \/ RestoreFile(e) \/ CleanFile(e)
    \/ StageFails \/ RecordStaging
    \/ DeleteRows \/ DeleteRowsFails
    \/ EndRestore
    \/ CleanFails \/ EndClean

ResumeDeletion ==
    \/ \E r \in Receipts : ResumeUnstaged(r) \/ ResumeStaged(r)
    \/ \E e \in Evidence : ResumeFile(e)
    \/ ResumeFails \/ EndResume

ApiStep ==
    \/ \E e \in Evidence : WriteEvidence(e) \/ InsertEvidence(e)
    \/ RotateCredential
    \/ StartApi \/ StopApi

Next == DeleteFamily \/ ResumeDeletion \/ ApiStep \/ Crash

Spec == Init /\ [][Next]_vars

-----------------------------------------------------------------------------
(* Properties *)

\* A deleted family never comes back, whatever the deletion had left to do
\* when the API was started again: seeding sees a tombstone from the very
\* commit that deletes the rows.
NeverReseeded == [][~family => ~family']_vars

\* A deletion that does not go through loses no evidence: the file of every
\* row is in its place, or in the staging directory of a deletion that has not
\* deleted anything, and a receipt that reports its failure names that
\* directory, so that resuming it brings the file back.
EvidenceKept ==
    \A e \in rows :
        /\ files[e] # "absent"
        /\ \A r \in Receipts : files[e] = r =>
            \/ receipts[r].status = "STARTED"
            \/ receipts[r].status = "FAILED_DATABASE" /\ receipts[r].staging

\* family-deletion.md: a deletion whose cleanup is not finished cannot be
\* declared complete.  COMPLETED means that no file the deletion took is left,
\* wherever it was interrupted and however it was resumed.
CompletedIsEmpty ==
    \A r \in Receipts : receipts[r].status = "COMPLETED" => StagedIn(r) = {}

\* family-deletion.md: delete_family removes the family in one operation, and
\* fails when the database or the disk does.  Without faults no deletion fails.
FailsOnlyByFault ==
    Faults = {} => \A r \in Receipts : receipts[r].status # "FAILED_DATABASE"
=============================================================================
