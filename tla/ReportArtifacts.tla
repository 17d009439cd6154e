-------------------------- MODULE ReportArtifacts --------------------------
(***************************************************************************)
(* Report rows, the artifact files they name, and the backup of both. A    *)
(* create request commits a queued row, renders and stores the bytes, and  *)
(* completes the row; a failure discards what it made. A deletion commits  *)
(* and then removes the bytes. A backup takes a snapshot of the database   *)
(* and then copies the files one at a time; a restore runs while the       *)
(* application is stopped. One backup runs at a time, and a restore is     *)
(* carried to its end.                                                     *)
(*                                                                         *)
(* A row is succeeded when it holds a signed manifest, its result and its  *)
(* seal, which one transaction writes.                                     *)
(***************************************************************************)

CONSTANTS Reports, None

Rows == [Reports -> {"none", "queued", "succeeded"}]
Files == Reports \X {"artifact", "temp"}

ASSUME NoneAssumption == None \notin [rows: Rows, files: SUBSET Files]

VARIABLES
    up,         \* the application runs
    row,        \* the report's row: none, queued or succeeded
    disk,       \* artifact files and temporary siblings of files being written
    create,     \* where the create request of each report is
    unlinks,    \* deleted reports whose bytes a delete request has yet to remove
    backup,     \* create_backup_bundle: its step, snapshot, files to read and read
    bundle,     \* the newest finished bundle
    wal,        \* a crash left a write-ahead log beside the database
    deleted,    \* history: reports a committed deletion has named
    excused     \* history: reports a best-effort step, a crash or a restore left behind

vars == <<up, row, disk, create, unlinks, backup, bundle, wal, deleted, excused>>

Artifact(r) == <<r, "artifact">>
Temp(r) == <<r, "temp">>

NoBackup == [step |-> "idle", rows |-> [r \in Reports |-> "none"], left |-> {}, read |-> {}]

Init ==
    /\ up = TRUE
    /\ row = [r \in Reports |-> "none"]
    /\ disk = {}
    /\ create = [r \in Reports |-> "new"]
    /\ unlinks = {}
    /\ backup = NoBackup
    /\ bundle = None
    /\ wal = FALSE
    /\ deleted = {} /\ excused = {}

Step(r, from, to) == up /\ create[r] = from /\ create' = [create EXCEPT ![r] = to]

-----------------------------------------------------------------------------
(* create_report.                                                          *)

\* create_report_run commits the queued row with its frozen snapshot.
CommitRow(r) ==
    /\ Step(r, "new", "committed")
    /\ row' = [row EXCEPT ![r] = "queued"]
    /\ UNCHANGED <<up, disk, unlinks, backup, bundle, wal, deleted, excused>>

\* The renderer or the signer raises; nothing is stored yet.
RenderFails(r) ==
    /\ Step(r, "committed", "failed")
    /\ UNCHANGED <<up, row, disk, unlinks, backup, bundle, wal, deleted, excused>>

\* _atomic_write: a temporary sibling ...
WriteBytes(r) ==
    /\ Step(r, "committed", "writing")
    /\ disk' = disk \cup {Temp(r)}
    /\ UNCHANGED <<up, row, unlinks, backup, bundle, wal, deleted, excused>>

\* ... renamed, or removed when the write raised.
StoreBytes(r) ==
    /\ \/ /\ Step(r, "writing", "stored")
          /\ disk' = (disk \ {Temp(r)}) \cup {Artifact(r)}
       \/ /\ Step(r, "writing", "failed")
          /\ disk' = disk \ {Temp(r)}
    /\ UNCHANGED <<up, row, unlinks, backup, bundle, wal, deleted, excused>>

\* complete_report_run; it raises before its COMMIT or after.
Complete(r) ==
    /\ \/ /\ row[r] = "queued"
          /\ row' = [row EXCEPT ![r] = "succeeded"]
          /\ Step(r, "stored", "done") \/ Step(r, "stored", "failed")
       \/ Step(r, "stored", "failed") /\ UNCHANGED row
    /\ UNCHANGED <<up, disk, unlinks, backup, bundle, wal, deleted, excused>>

DiscardAny(r) == TRUE
DiscardPresent(r) == row[r] = "queued"

\* The row is still the pristine one, or a deletion has removed it.
Discardable(r) == row[r] \in {"queued", "none"}

\* discard_unmaterialized_report_run; whatever it raises is swallowed.
Discard(r) ==
    /\ \/ /\ Discardable(r)
          /\ row' = [row EXCEPT ![r] = IF @ = "queued" THEN "none" ELSE @]
          /\ Step(r, "failed", "discarded")
          /\ UNCHANGED excused
       \/ /\ ~Discardable(r)
          /\ Step(r, "failed", "done")
          /\ UNCHANGED <<row, excused>>
       \/ /\ Step(r, "failed", "done")
          /\ excused' = excused \cup {r}
          /\ UNCHANGED row
    /\ UNCHANGED <<up, disk, unlinks, backup, bundle, wal, deleted>>

\* delete_report_artifact: the file is removed, or cannot be.
Unlinked(r) ==
    \/ disk' = disk \ {Artifact(r)} /\ UNCHANGED excused
    \/ Artifact(r) \in disk /\ excused' = excused \cup {r} /\ UNCHANGED disk

CleanUp(r) ==
    /\ Step(r, "discarded", "done")
    /\ Unlinked(r)
    /\ UNCHANGED <<up, row, unlinks, backup, bundle, wal, deleted>>

-----------------------------------------------------------------------------
(* delete_reports.                                                         *)

\* delete_report_runs: one transaction for the batch, and the manifests it found.
Delete(batch) ==
    /\ up
    /\ \A r \in batch : row[r] # "none"
    /\ row' = [r \in Reports |-> IF r \in batch THEN "none" ELSE row[r]]
    /\ unlinks' = unlinks \cup {r \in batch : row[r] = "succeeded"}
    /\ deleted' = deleted \cup batch
    /\ UNCHANGED <<up, disk, create, backup, bundle, wal, excused>>

Unlink(r) ==
    /\ r \in unlinks
    /\ Unlinked(r)
    /\ unlinks' = unlinks \ {r}
    /\ UNCHANGED <<up, row, create, backup, bundle, wal, deleted>>

-----------------------------------------------------------------------------
(* create_backup_bundle and restore_backup_bundle.                         *)

\* _consistent_sqlite_bytes: a transaction of its own.
TakeSnapshot ==
    /\ up /\ backup.step = "idle"
    /\ backup' = [NoBackup EXCEPT !.step = "snapshot", !.rows = row]
    /\ UNCHANGED <<up, row, disk, create, unlinks, bundle, wal, deleted, excused>>

\* _iter_dir_members lists every file, the temporary ones too ...
ListFiles ==
    /\ backup.step = "snapshot"
    /\ backup' = [backup EXCEPT !.step = "reading", !.left = disk]
    /\ UNCHANGED <<up, row, disk, create, unlinks, bundle, wal, deleted, excused>>

\* ... and reads them; one that is gone by then fails the backup.
ReadFile(f) ==
    /\ f \in backup.left
    /\ backup' = IF f \in disk
                   THEN [backup EXCEPT !.left = @ \ {f}, !.read = @ \cup {f}]
                   ELSE NoBackup
    /\ UNCHANGED <<up, row, disk, create, unlinks, bundle, wal, deleted, excused>>

FinishBackup ==
    /\ backup.step = "reading" /\ backup.left = {}
    /\ bundle' = [rows |-> backup.rows, files |-> backup.read]
    /\ backup' = NoBackup
    /\ UNCHANGED <<up, row, disk, create, unlinks, wal, deleted, excused>>

Agree(r) ==
    \/ row[r] = "succeeded" /\ Artifact(r) \in disk
    \/ row[r] = "none" /\ Artifact(r) \notin disk

InFlight(r) == create[r] \notin {"new", "done"} \/ r \in unlinks

\* The process dies with everything it was doing.
Crash ==
    /\ up
    /\ up' = FALSE
    /\ wal' = TRUE
    /\ excused' = excused \cup {r \in Reports : InFlight(r)}
    /\ create' = [r \in Reports |-> IF create[r] = "new" THEN "new" ELSE "done"]
    /\ unlinks' = {}
    /\ backup' = NoBackup
    /\ UNCHANGED <<row, disk, bundle, deleted>>

\* The last connection that closes folds the log into the database.
Shutdown ==
    /\ up
    /\ \A r \in Reports : ~InFlight(r)
    /\ backup = NoBackup
    /\ up' = FALSE
    /\ wal' = FALSE
    /\ UNCHANGED <<row, disk, create, unlinks, backup, bundle, deleted, excused>>

Start ==
    /\ ~up
    /\ up' = TRUE
    /\ UNCHANGED <<row, disk, create, unlinks, backup, bundle, wal, deleted, excused>>

\* The members are written over the runtime root and nothing is removed from it,
\* neither later artifacts nor a log, whose rows then replace the restored ones.
Restore ==
    /\ ~up /\ bundle # None
    /\ disk' = disk \cup bundle.files
    /\ row' \in {rows \in Rows :
                    \A r \in Reports : rows[r] = bundle.rows[r] \/ (wal /\ rows[r] = row[r])}
    /\ excused' = excused \cup {r \in Reports : ~Agree(r)'}
    /\ UNCHANGED <<up, create, unlinks, backup, bundle, wal, deleted>>

-----------------------------------------------------------------------------
CreateStep(r) ==
    \/ CommitRow(r) \/ RenderFails(r) \/ WriteBytes(r) \/ StoreBytes(r)
    \/ Complete(r) \/ Discard(r) \/ CleanUp(r)

Next ==
    \/ \E r \in Reports : CreateStep(r) \/ Unlink(r)
    \/ \E batch \in SUBSET Reports \ {{}} : Delete(batch)
    \/ \E f \in Files : ReadFile(f)
    \/ TakeSnapshot \/ ListFiles \/ FinishBackup
    \/ Crash \/ Shutdown \/ Start \/ Restore

Spec == Init /\ [][Next]_vars

-----------------------------------------------------------------------------
(* Properties.                                                             *)

TypeOK ==
    /\ up \in BOOLEAN /\ wal \in BOOLEAN
    /\ row \in Rows
    /\ disk \subseteq Files
    /\ create \in [Reports -> {"new", "committed", "writing", "stored", "failed",
                               "discarded", "done"}]
    /\ unlinks \subseteq Reports
    /\ backup \in [step: {"idle", "snapshot", "reading"}, rows: Rows,
                   left: SUBSET Files, read: SUBSET Files]
    /\ bundle \in [rows: Rows, files: SUBSET Files] \cup {None}
    /\ deleted \subseteq Reports /\ excused \subseteq Reports

\* A report that is published has its bytes, whatever failed, crashed, was
\* discarded, backed up or restored, unless somebody deleted it at some time: a
\* bundle may hold the row of a report whose bytes went while it was made.
PublishedHasBytes ==
    \A r \in Reports : row[r] = "succeeded" /\ Artifact(r) \notin disk => r \in deleted

\* Once nobody works on a report any more, its row and its bytes are both there or
\* both gone, also when its creation and its deletion crossed: what is left behind
\* was left by a crash, a restore, or a cleanup that itself failed.
RowAndBytesAgree ==
    \A r \in Reports : Agree(r) \/ InFlight(r) \/ r \in excused

\* A finished bundle restores no published report without its bytes, although
\* reports are created, discarded and deleted while the rows are copied and the
\* files read one after the other, and earlier bundles are restored in between;
\* only a deletion takes bytes from under a copied row (create_backup_bundle).
BundleHasBytes ==
    bundle # None =>
        \A r \in Reports :
            bundle.rows[r] = "succeeded" => Artifact(r) \in bundle.files \/ r \in deleted
=============================================================================
