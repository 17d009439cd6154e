----------------------- MODULE ReportArtifactsProofs -----------------------
(***************************************************************************)
(* Proofs about ReportArtifacts, for any set of reports. The invariant     *)
(* says, for every place a create request can be in, which rows and bytes  *)
(* may exist, and that a backup in progress and a finished bundle hold the *)
(* bytes of the reports they publish.                                      *)
(***************************************************************************)
EXTENDS ReportArtifacts, TLAPS

\* Nothing is going on while the application is stopped.
Quiet ==
    ~up => backup = NoBackup /\ unlinks = {} /\ \A r \in Reports : create[r] \in {"new", "done"}

\* A report nobody has asked for is nowhere.
Untouched(r) ==
    create[r] = "new" =>
        /\ r \notin excused /\ r \notin unlinks
        /\ row[r] = "none" /\ Artifact(r) \notin disk
        /\ backup.rows[r] = "none" /\ Artifact(r) \notin backup.left \cup backup.read
        /\ bundle # None => bundle.rows[r] = "none" /\ Artifact(r) \notin bundle.files

\* What is there of a report while its creation or its removal runs.
Staged(r) ==
    /\ create[r] \in {"new", "committed", "writing", "stored"} /\ r \notin excused =>
            row[r] # "succeeded" /\ r \notin unlinks
    /\ create[r] = "stored" => Artifact(r) \in disk \/ (r \in deleted /\ r \in excused)
    /\ create[r] = "failed" /\ row[r] = "succeeded" => Artifact(r) \in disk \/ r \in excused
    /\ create[r] = "discarded" => row[r] = "none"
    /\ r \in unlinks => r \in deleted /\ (row[r] = "none" \/ r \in excused)

\* A snapshot publishes what is published still, unless it was deleted; the files
\* read or to be read, and those of a bundle, include the bytes of its rows.
Backed(r) ==
    /\ backup.rows[r] = "succeeded" => row[r] = "succeeded" \/ r \in deleted
    /\ backup.step = "reading" /\ backup.rows[r] = "succeeded" =>
            Artifact(r) \in backup.left \cup backup.read \/ r \in deleted
    /\ bundle # None /\ bundle.rows[r] = "succeeded" =>
            Artifact(r) \in bundle.files \/ r \in deleted

Settled(r) == Agree(r) \/ InFlight(r) \/ r \in excused
Published(r) == row[r] = "succeeded" /\ Artifact(r) \notin disk => r \in deleted

PerReport(r) == Untouched(r) /\ Staged(r) /\ Backed(r) /\ Settled(r) /\ Published(r)

IInv == Quiet /\ \A r \in Reports : PerReport(r)

-----------------------------------------------------------------------------
\* The resting backup has the shape of one.
LEMMA NoBackupType ==
    NoBackup \in [step: {"idle", "snapshot", "reading"}, rows: Rows,
                  left: SUBSET Files, read: SUBSET Files]
<1>1. [r \in Reports |-> "none"] \in Rows
  BY DEF Rows
<1> QED BY <1>1 DEF NoBackup

\* Every report request, file set and backup keeps its shape.
THEOREM TypeCorrect == Spec => []TypeOK
<1>1. Init => TypeOK
  <2> SUFFICES ASSUME Init PROVE TypeOK
    OBVIOUS
  <2>1. row \in Rows
    BY DEF Init, Rows
  <2>2. create \in [Reports -> {"new", "committed", "writing", "stored", "failed",
                               "discarded", "done"}]
    BY DEF Init
  <2> QED BY <2>1, <2>2, NoBackupType DEF Init, TypeOK
<1>2. TypeOK /\ [Next]_vars => TypeOK'
  <2> SUFFICES ASSUME TypeOK, [Next]_vars PROVE TypeOK'
    OBVIOUS
  <2> USE DEF TypeOK, Rows, Files, NoBackup, Artifact, Temp
  <2>1. ASSUME NEW r \in Reports, CreateStep(r) PROVE TypeOK'
    <3>1. CASE CommitRow(r) BY <3>1 DEF CommitRow, Step
    <3>2. CASE RenderFails(r) BY <3>2 DEF RenderFails, Step
    <3>3. CASE WriteBytes(r) BY <3>3 DEF WriteBytes, Step
    <3>4. CASE StoreBytes(r) BY <3>4 DEF StoreBytes, Step
    <3>5. CASE Complete(r) BY <3>5 DEF Complete, Step
    <3>6. CASE Discard(r) BY <3>6 DEF Discard, Step
    <3>7. CASE CleanUp(r) BY <3>7 DEF CleanUp, Step, Unlinked
    <3> QED BY <2>1, <3>1, <3>2, <3>3, <3>4, <3>5, <3>6, <3>7 DEF CreateStep
  <2>2. ASSUME NEW r \in Reports, Unlink(r) PROVE TypeOK'
    BY <2>2 DEF Unlink, Unlinked
  <2>3. ASSUME NEW batch \in SUBSET Reports, Delete(batch) PROVE TypeOK'
    BY <2>3 DEF Delete
  <2>4. ASSUME NEW f \in Files, ReadFile(f) PROVE TypeOK'
    BY <2>4 DEF ReadFile
  <2>5. CASE TakeSnapshot BY <2>5 DEF TakeSnapshot
  <2>6. CASE ListFiles BY <2>6 DEF ListFiles
  <2>7. CASE FinishBackup BY <2>7 DEF FinishBackup
  <2>8. CASE Crash BY <2>8 DEF Crash
  <2>9. CASE Shutdown BY <2>9 DEF Shutdown
  <2>10. CASE Start BY <2>10 DEF Start
  <2>11. CASE Restore
    <3>1. bundle \in [rows: Rows, files: SUBSET Files]
      BY <2>11 DEF Restore
    <3> QED BY <2>11, <3>1 DEF Restore
  <2>12. CASE UNCHANGED vars BY <2>12 DEF vars
  <2> QED
    BY <2>1, <2>2, <2>3, <2>4, <2>5, <2>6, <2>7, <2>8, <2>9, <2>10, <2>11, <2>12 DEF Next
<1> QED BY <1>1, <1>2, PTL DEF Spec

\* Names of files are told apart by their report and kind.
LEMMA FileNames ==
    \A r, s \in Reports : /\ Artifact(r) \in Files /\ Temp(r) \in Files
                          /\ Artifact(r) # Temp(s)
                          /\ Artifact(r) = Artifact(s) => r = s
  BY DEF Artifact, Temp, Files

LEMMA InvariantInit == Init => IInv
<1> SUFFICES ASSUME Init PROVE IInv
  OBVIOUS
<1>1. Quiet
  BY DEF Init, Quiet
<1>2. ASSUME NEW r \in Reports PROVE PerReport(r)
  <2>1. /\ row[r] = "none" /\ create[r] = "new" /\ backup.rows[r] = "none"
        /\ backup.left = {} /\ backup.read = {} /\ disk = {} /\ bundle = None
        /\ unlinks = {} /\ excused = {}
    BY DEF Init, NoBackup
  <2> QED
    BY <2>1 DEF PerReport, Untouched, Staged, Backed, Settled, Published, Agree
<1> QED BY <1>1, <1>2 DEF IInv

-----------------------------------------------------------------------------
\* The request's row is committed.
LEMMA CommitRowKeeps ==
  ASSUME TypeOK, IInv, NEW p \in Reports, CommitRow(p)
  PROVE  IInv'
<1> USE FileNames DEF TypeOK, Rows, IInv, CommitRow, Step
<1>1. Quiet'
  BY DEF Quiet
<1> SUFFICES ASSUME NEW r \in Reports PROVE PerReport(r)'
  BY <1>1
<1> HIDE DEF IInv
<1>0. Quiet /\ PerReport(r)
  BY DEF IInv
<1>2. Untouched(r)'
  BY <1>0 DEF Quiet, PerReport, Untouched
<1>3. Staged(r)'
  BY <1>0 DEF Quiet, PerReport, Untouched, Staged
<1>4. Backed(r)'
  BY <1>0 DEF Quiet, PerReport, Untouched, Backed, Published, Staged
<1>5. Settled(r)'
  BY <1>0 DEF Quiet, PerReport, Staged, Settled, Agree, InFlight, Untouched
<1>6. Published(r)'
  BY <1>0 DEF Quiet, PerReport, Staged, Published, Backed, Untouched
<1> QED BY <1>2, <1>3, <1>4, <1>5, <1>6 DEF PerReport

\* Rendering fails.
LEMMA RenderFailsKeeps ==
  ASSUME TypeOK, IInv, NEW p \in Reports, RenderFails(p)
  PROVE  IInv'
<1> USE FileNames DEF TypeOK, Rows, IInv, RenderFails, Step
<1>1. Quiet'
  BY DEF Quiet
<1> SUFFICES ASSUME NEW r \in Reports PROVE PerReport(r)'
  BY <1>1
<1> HIDE DEF IInv
<1>0. Quiet /\ PerReport(r)
  BY DEF IInv
<1>2. Untouched(r)'
  BY <1>0 DEF Quiet, PerReport, Untouched
<1>3. Staged(r)'
  BY <1>0 DEF Quiet, PerReport, Untouched, Staged
<1>4. Backed(r)'
  BY <1>0 DEF Quiet, PerReport, Backed, Published, Staged
<1>5. Settled(r)'
  BY <1>0 DEF Quiet, PerReport, Staged, Settled, Agree, InFlight, Untouched
<1>6. Published(r)'
  BY <1>0 DEF Quiet, PerReport, Staged, Published, Backed, Untouched
<1> QED BY <1>2, <1>3, <1>4, <1>5, <1>6 DEF PerReport

\* A temporary sibling is no artifact.
LEMMA WriteBytesKeeps ==
  ASSUME TypeOK, IInv, NEW p \in Reports, WriteBytes(p)
  PROVE  IInv'
<1> USE FileNames DEF TypeOK, Rows, IInv, WriteBytes, Step
<1>1. Quiet'
  BY DEF Quiet
<1> SUFFICES ASSUME NEW r \in Reports PROVE PerReport(r)'
  BY <1>1
<1> HIDE DEF IInv
<1>0. Quiet /\ PerReport(r)
  BY DEF IInv
<1>2. Untouched(r)'
  BY <1>0 DEF Quiet, PerReport, Untouched
<1>3. Staged(r)'
  BY <1>0 DEF Quiet, PerReport, Untouched, Staged
<1>4. Backed(r)'
  BY <1>0 DEF Quiet, PerReport, Backed, Published, Staged
<1>5. Settled(r)'
  BY <1>0 DEF Quiet, PerReport, Staged, Settled, Agree, InFlight, Untouched
<1>6. Published(r)'
  BY <1>0 DEF Quiet, PerReport, Staged, Published, Backed, Untouched
<1> QED BY <1>2, <1>3, <1>4, <1>5, <1>6 DEF PerReport

\* The rename makes the bytes appear.
LEMMA StoreBytesKeeps ==
  ASSUME TypeOK, IInv, NEW p \in Reports, StoreBytes(p)
  PROVE  IInv'
<1> USE FileNames DEF TypeOK, Rows, IInv, StoreBytes, Step
<1>1. Quiet'
  BY DEF Quiet
<1> SUFFICES ASSUME NEW r \in Reports PROVE PerReport(r)'
  BY <1>1
<1> HIDE DEF IInv
<1>0. Quiet /\ PerReport(r)
  BY DEF IInv
<1>2. Untouched(r)'
  BY <1>0 DEF Quiet, PerReport, Untouched
<1>3. Staged(r)'
  BY <1>0 DEF Quiet, PerReport, Untouched, Staged
<1>4. Backed(r)'
  BY <1>0 DEF Quiet, PerReport, Backed, Published, Staged
<1>5. Settled(r)'
  BY <1>0 DEF Quiet, PerReport, Staged, Settled, Agree, InFlight, Untouched
<1>6. Published(r)'
  BY <1>0 DEF Quiet, PerReport, Staged, Published, Backed, Untouched
<1> QED BY <1>2, <1>3, <1>4, <1>5, <1>6 DEF PerReport

\* A row is published only where its bytes are stored.
LEMMA CompleteKeeps ==
  ASSUME TypeOK, IInv, NEW p \in Reports, Complete(p)
  PROVE  IInv'
<1> USE FileNames DEF TypeOK, Rows, IInv, Complete, Step
<1>1. Quiet'
  BY DEF Quiet
<1> SUFFICES ASSUME NEW r \in Reports PROVE PerReport(r)'
  BY <1>1
<1> HIDE DEF IInv
<1>0. Quiet /\ PerReport(r)
  BY DEF IInv
<1>2. Untouched(r)'
  BY <1>0 DEF Quiet, PerReport, Untouched
<1>3. Staged(r)'
  BY <1>0 DEF Quiet, PerReport, Untouched, Staged
<1>4. Backed(r)'
  BY <1>0 DEF Quiet, PerReport, Backed, Published, Staged
<1>5. Settled(r)'
  BY <1>0 DEF Quiet, PerReport, Staged, Settled, Agree, InFlight, Untouched
<1>6. Published(r)'
  BY <1>0 DEF Quiet, PerReport, Staged, Published, Backed, Untouched
<1> QED BY <1>2, <1>3, <1>4, <1>5, <1>6 DEF PerReport

\* A published row is not discarded.
LEMMA DiscardKeeps ==
  ASSUME TypeOK, IInv, NEW p \in Reports, Discard(p)
  PROVE  IInv'
<1> USE FileNames DEF TypeOK, Rows, IInv, Discard, Discardable, Step
<1>1. Quiet'
  BY DEF Quiet
<1> SUFFICES ASSUME NEW r \in Reports PROVE PerReport(r)'
  BY <1>1
<1> HIDE DEF IInv
<1>0. Quiet /\ PerReport(r)
  BY DEF IInv
<1>2. Untouched(r)'
  BY <1>0 DEF Quiet, PerReport, Untouched
<1>3. Staged(r)'
  BY <1>0 DEF Quiet, PerReport, Untouched, Staged
<1>4. Backed(r)'
  BY <1>0 DEF Quiet, PerReport, Backed, Published, Staged
<1>5. Settled(r)'
  BY <1>0 DEF Quiet, PerReport, Staged, Settled, Agree, InFlight, Untouched
<1>6. Published(r)'
  BY <1>0 DEF Quiet, PerReport, Staged, Published, Backed, Untouched
<1> QED BY <1>2, <1>3, <1>4, <1>5, <1>6 DEF PerReport

\* Bytes are removed when the row is gone.
LEMMA CleanUpKeeps ==
  ASSUME TypeOK, IInv, NEW p \in Reports, CleanUp(p)
  PROVE  IInv'
<1> USE FileNames DEF TypeOK, Rows, IInv, CleanUp, Unlinked, Step
<1>1. Quiet'
  BY DEF Quiet
<1> SUFFICES ASSUME NEW r \in Reports PROVE PerReport(r)'
  BY <1>1
<1> HIDE DEF IInv
<1>0. Quiet /\ PerReport(r)
  BY DEF IInv
<1>2. Untouched(r)'
  BY <1>0 DEF Quiet, PerReport, Untouched
<1>3. Staged(r)'
  BY <1>0 DEF Quiet, PerReport, Untouched, Staged
<1>4. Backed(r)'
  BY <1>0 DEF Quiet, PerReport, Backed, Published, Staged
<1>5. Settled(r)'
  BY <1>0 DEF Quiet, PerReport, Staged, Settled, Agree, InFlight, Untouched
<1>6. Published(r)'
  BY <1>0 DEF Quiet, PerReport, Staged, Published, Backed, Untouched
<1> QED BY <1>2, <1>3, <1>4, <1>5, <1>6 DEF PerReport

\* A deletion removes the bytes of a row that is gone.
LEMMA UnlinkKeeps ==
  ASSUME TypeOK, IInv, NEW p \in Reports, Unlink(p)
  PROVE  IInv'
<1> USE FileNames DEF TypeOK, Rows, IInv, Unlink, Unlinked
<1>1. Quiet'
  BY DEF Quiet
<1> SUFFICES ASSUME NEW r \in Reports PROVE PerReport(r)'
  BY <1>1
<1> HIDE DEF IInv
<1>0. Quiet /\ PerReport(r)
  BY DEF IInv
<1>2. Untouched(r)'
  BY <1>0 DEF Quiet, PerReport, Untouched
<1>3. Staged(r)'
  BY <1>0 DEF Quiet, PerReport, Untouched, Staged
<1>4. Backed(r)'
  BY <1>0 DEF Quiet, PerReport, Backed, Published, Staged
<1>5. Settled(r)'
  BY <1>0 DEF Quiet, PerReport, Staged, Settled, Agree, InFlight, Untouched
<1>6. Published(r)'
  BY <1>0 DEF Quiet, PerReport, Staged, Published, Backed, Untouched
<1> QED BY <1>2, <1>3, <1>4, <1>5, <1>6 DEF PerReport

\* A published row that is deleted has its bytes listed.
LEMMA DeleteKeeps ==
  ASSUME TypeOK, IInv, NEW batch \in SUBSET Reports, Delete(batch)
  PROVE  IInv'
<1> USE FileNames DEF TypeOK, Rows, IInv, Delete
<1>1. Quiet'
  BY DEF Quiet
<1> SUFFICES ASSUME NEW r \in Reports PROVE PerReport(r)'
  BY <1>1
<1> HIDE DEF IInv
<1>0. Quiet /\ PerReport(r)
  BY DEF IInv
<1>2. Untouched(r)'
  BY <1>0 DEF Quiet, PerReport, Untouched
<1>3. Staged(r)'
  BY <1>0 DEF Quiet, PerReport, Untouched, Staged
<1>4. Backed(r)'
  BY <1>0 DEF Quiet, PerReport, Backed, Published, Staged
<1>5. Settled(r)'
  BY <1>0 DEF Quiet, PerReport, Staged, Settled, Agree, InFlight, Untouched
<1>6. Published(r)'
  BY <1>0 DEF Quiet, PerReport, Staged, Published, Backed, Untouched
<1> QED BY <1>2, <1>3, <1>4, <1>5, <1>6 DEF PerReport

\* The snapshot is the database of its moment.
LEMMA TakeSnapshotKeeps ==
  ASSUME TypeOK, IInv, TakeSnapshot
  PROVE  IInv'
<1> USE FileNames DEF TypeOK, Rows, IInv, TakeSnapshot, NoBackup
<1>1. Quiet'
  BY DEF Quiet
<1> SUFFICES ASSUME NEW r \in Reports PROVE PerReport(r)'
  BY <1>1
<1> HIDE DEF IInv
<1>0. Quiet /\ PerReport(r)
  BY DEF IInv
<1>2. Untouched(r)'
  BY <1>0 DEF Quiet, PerReport, Untouched
<1>3. Staged(r)'
  BY <1>0 DEF Quiet, PerReport, Untouched, Staged
<1>4. Backed(r)'
  BY <1>0 DEF Quiet, PerReport, Backed, Published, Staged
<1>5. Settled(r)'
  BY <1>0 DEF Quiet, PerReport, Staged, Settled, Agree, InFlight, Untouched
<1>6. Published(r)'
  BY <1>0 DEF Quiet, PerReport, Staged, Published, Backed, Untouched
<1> QED BY <1>2, <1>3, <1>4, <1>5, <1>6 DEF PerReport

\* The files are listed after the snapshot.
LEMMA ListFilesKeeps ==
  ASSUME TypeOK, IInv, ListFiles
  PROVE  IInv'
<1> USE FileNames DEF TypeOK, Rows, IInv, ListFiles
<1>1. Quiet'
  BY DEF Quiet, NoBackup
<1> SUFFICES ASSUME NEW r \in Reports PROVE PerReport(r)'
  BY <1>1
<1> HIDE DEF IInv
<1>0. Quiet /\ PerReport(r)
  BY DEF IInv
<1>2. Untouched(r)'
  BY <1>0 DEF Quiet, PerReport, Untouched
<1>3. Staged(r)'
  BY <1>0 DEF Quiet, PerReport, Untouched, Staged
<1>4. Backed(r)'
  BY <1>0 DEF Quiet, PerReport, Backed, Published, Staged
<1>5. Settled(r)'
  BY <1>0 DEF Quiet, PerReport, Staged, Settled, Agree, InFlight, Untouched
<1>6. Published(r)'
  BY <1>0 DEF Quiet, PerReport, Staged, Published, Backed, Untouched
<1> QED BY <1>2, <1>3, <1>4, <1>5, <1>6 DEF PerReport

\* A file that is gone ends the backup.
LEMMA ReadFileKeeps ==
  ASSUME TypeOK, IInv, NEW f \in Files, ReadFile(f)
  PROVE  IInv'
<1> USE FileNames DEF TypeOK, Rows, IInv, ReadFile, NoBackup
<1>1. Quiet'
  BY DEF Quiet
<1> SUFFICES ASSUME NEW r \in Reports PROVE PerReport(r)'
  BY <1>1
<1> HIDE DEF IInv
<1>0. Quiet /\ PerReport(r)
  BY DEF IInv
<1>2. Untouched(r)'
  BY <1>0 DEF Quiet, PerReport, Untouched
<1>3. Staged(r)'
  BY <1>0 DEF Quiet, PerReport, Untouched, Staged
<1>4. Backed(r)'
  BY <1>0 DEF Quiet, PerReport, Backed, Published, Staged
<1>5. Settled(r)'
  BY <1>0 DEF Quiet, PerReport, Staged, Settled, Agree, InFlight, Untouched
<1>6. Published(r)'
  BY <1>0 DEF Quiet, PerReport, Staged, Published, Backed, Untouched
<1> QED BY <1>2, <1>3, <1>4, <1>5, <1>6 DEF PerReport

\* The bundle holds what was read.
LEMMA FinishBackupKeeps ==
  ASSUME TypeOK, IInv, FinishBackup
  PROVE  IInv'
<1> USE FileNames DEF TypeOK, Rows, IInv, FinishBackup, NoBackup
<1>1. Quiet'
  BY DEF Quiet
<1> SUFFICES ASSUME NEW r \in Reports PROVE PerReport(r)'
  BY <1>1
<1> HIDE DEF IInv
<1>0. Quiet /\ PerReport(r)
  BY DEF IInv
<1>2. Untouched(r)'
  BY <1>0 DEF Quiet, PerReport, Untouched
<1>3. Staged(r)'
  BY <1>0 DEF Quiet, PerReport, Untouched, Staged
<1>4. Backed(r)'
  BY <1>0 DEF Quiet, PerReport, Backed, Published, Staged
<1>5. Settled(r)'
  BY <1>0 DEF Quiet, PerReport, Staged, Settled, Agree, InFlight, Untouched
<1>6. Published(r)'
  BY <1>0 DEF Quiet, PerReport, Staged, Published, Backed, Untouched
<1> QED BY <1>2, <1>3, <1>4, <1>5, <1>6 DEF PerReport

\* What a crash interrupts is excused.
LEMMA CrashKeeps ==
  ASSUME TypeOK, IInv, Crash
  PROVE  IInv'
<1> USE FileNames DEF TypeOK, Rows, IInv, Crash, NoBackup, InFlight
<1>1. Quiet'
  BY DEF Quiet
<1> SUFFICES ASSUME NEW r \in Reports PROVE PerReport(r)'
  BY <1>1
<1> HIDE DEF IInv
<1>0. Quiet /\ PerReport(r)
  BY DEF IInv
<1>2. Untouched(r)'
  BY <1>0 DEF Quiet, PerReport, Untouched
<1>3. Staged(r)'
  BY <1>0 DEF Quiet, PerReport, Untouched, Staged
<1>4. Backed(r)'
  BY <1>0 DEF Quiet, PerReport, Backed, Published, Staged
<1>5. Settled(r)'
  BY <1>0 DEF Quiet, PerReport, Staged, Settled, Agree, InFlight, Untouched
<1>6. Published(r)'
  BY <1>0 DEF Quiet, PerReport, Staged, Published, Backed, Untouched
<1> QED BY <1>2, <1>3, <1>4, <1>5, <1>6 DEF PerReport

\* Nothing runs at an orderly end.
LEMMA ShutdownKeeps ==
  ASSUME TypeOK, IInv, Shutdown
  PROVE  IInv'
<1> USE FileNames DEF TypeOK, Rows, IInv, Shutdown, InFlight
<1>1. Quiet'
  BY DEF Quiet
<1> SUFFICES ASSUME NEW r \in Reports PROVE PerReport(r)'
  BY <1>1
<1> HIDE DEF IInv
<1>0. Quiet /\ PerReport(r)
  BY DEF IInv
<1>2. Untouched(r)'
  BY <1>0 DEF Quiet, PerReport, Untouched
<1>3. Staged(r)'
  BY <1>0 DEF Quiet, PerReport, Untouched, Staged
<1>4. Backed(r)'
  BY <1>0 DEF Quiet, PerReport, Backed, Published, Staged
<1>5. Settled(r)'
  BY <1>0 DEF Quiet, PerReport, Staged, Settled, Agree, InFlight, Untouched
<1>6. Published(r)'
  BY <1>0 DEF Quiet, PerReport, Staged, Published, Backed, Untouched
<1> QED BY <1>2, <1>3, <1>4, <1>5, <1>6 DEF PerReport

\* A start changes nothing.
LEMMA StartKeeps ==
  ASSUME TypeOK, IInv, Start
  PROVE  IInv'
<1> USE FileNames DEF TypeOK, Rows, IInv, Start
<1>1. Quiet'
  BY DEF Quiet
<1> SUFFICES ASSUME NEW r \in Reports PROVE PerReport(r)'
  BY <1>1
<1> HIDE DEF IInv
<1>0. Quiet /\ PerReport(r)
  BY DEF IInv
<1>2. Untouched(r)'
  BY <1>0 DEF Quiet, PerReport, Untouched
<1>3. Staged(r)'
  BY <1>0 DEF Quiet, PerReport, Untouched, Staged
<1>4. Backed(r)'
  BY <1>0 DEF Quiet, PerReport, Backed, Published, Staged
<1>5. Settled(r)'
  BY <1>0 DEF Quiet, PerReport, Staged, Settled, Agree, InFlight, Untouched
<1>6. Published(r)'
  BY <1>0 DEF Quiet, PerReport, Staged, Published, Backed, Untouched
<1> QED BY <1>2, <1>3, <1>4, <1>5, <1>6 DEF PerReport

\* What a restore leaves apart is excused, and a restored row brings its bytes.
LEMMA RestoreKeeps ==
  ASSUME TypeOK, IInv, Restore
  PROVE  IInv'
<1>1. /\ ~up /\ UNCHANGED <<up, create, unlinks, backup, bundle, deleted>>
      /\ bundle # None /\ bundle \in [rows: Rows, files: SUBSET Files]
      /\ disk' = disk \cup bundle.files
      /\ excused' = excused \cup {r \in Reports : ~Agree(r)'}
  BY DEF Restore, TypeOK
<1>2. \A r \in Reports : row'[r] = bundle.rows[r] \/ row'[r] = row[r]
  BY DEF Restore
<1>3. Quiet'
  BY <1>1 DEF Quiet, IInv
<1> SUFFICES ASSUME NEW r \in Reports PROVE PerReport(r)'
  BY <1>3 DEF IInv
<1>0. /\ PerReport(r) /\ backup = NoBackup /\ unlinks = {}
      /\ create[r] \in {"new", "done"}
      /\ row'[r] = bundle.rows[r] \/ row'[r] = row[r]
      /\ r \in excused' <=> r \in excused \/ ~Agree(r)'
  BY <1>1, <1>2 DEF Quiet, IInv
<1>4. backup.step = "idle" /\ backup.rows[r] = "none" /\ backup.left = {} /\ backup.read = {}
  BY <1>0 DEF NoBackup
<1>5. Untouched(r)'
  BY <1>0, <1>1, <1>4 DEF PerReport, Untouched, Agree
<1>6. Staged(r)'
  BY <1>0, <1>1 DEF PerReport, Untouched, Staged
<1>7. Backed(r)'
  BY <1>0, <1>1, <1>4 DEF PerReport, Backed
<1>8. Settled(r)'
  BY <1>0 DEF Settled
<1>9. Published(r)'
  BY <1>0, <1>1 DEF PerReport, Published, Backed
<1> QED BY <1>5, <1>6, <1>7, <1>8, <1>9 DEF PerReport

\* A step that changes no variable.
LEMMA StutterKeeps ==
  ASSUME IInv, UNCHANGED vars
  PROVE  IInv'
  BY DEF vars, IInv, Quiet, PerReport, Untouched, Staged, Backed, Settled, Published,
         Agree, InFlight

-----------------------------------------------------------------------------
\* The rows, the bytes, the backup and the bundle agree as IInv says, in every
\* reachable state.
THEOREM Invariant == Spec => []IInv
<1>1. TypeOK /\ IInv /\ [Next]_vars => IInv'
  <2> SUFFICES ASSUME TypeOK, IInv, [Next]_vars PROVE IInv'
    OBVIOUS
  <2>1. ASSUME NEW r \in Reports, CreateStep(r) PROVE IInv'
    BY <2>1, CommitRowKeeps, RenderFailsKeeps, WriteBytesKeeps, StoreBytesKeeps,
       CompleteKeeps, DiscardKeeps, CleanUpKeeps DEF CreateStep
  <2>2. ASSUME NEW r \in Reports, Unlink(r) PROVE IInv'
    BY <2>2, UnlinkKeeps
  <2>3. ASSUME NEW batch \in SUBSET Reports, Delete(batch) PROVE IInv'
    BY <2>3, DeleteKeeps
  <2>4. ASSUME NEW f \in Files, ReadFile(f) PROVE IInv'
    BY <2>4, ReadFileKeeps
  <2> QED
    BY <2>1, <2>2, <2>3, <2>4, TakeSnapshotKeeps, ListFilesKeeps, FinishBackupKeeps,
       CrashKeeps, ShutdownKeeps, StartKeeps, RestoreKeeps, StutterKeeps DEF Next
<1> QED BY InvariantInit, <1>1, TypeCorrect, PTL DEF Spec

\* A published report has its bytes unless somebody deleted it: report_artifacts
\* writes them before complete_report_run publishes the row.
THEOREM PublishedReportsHaveBytes == Spec => []PublishedHasBytes
<1>1. IInv => PublishedHasBytes
  BY DEF IInv, PerReport, Published, PublishedHasBytes
<1> QED BY <1>1, Invariant, PTL

\* When nobody works on a report, its row and its bytes are both there or both
\* gone, or a crash, a restore or a failed cleanup left them so.
THEOREM RowsAndBytesAgree == Spec => []RowAndBytesAgree
<1>1. IInv => RowAndBytesAgree
  BY DEF IInv, PerReport, Settled, RowAndBytesAgree
<1> QED BY <1>1, Invariant, PTL

\* Whatever ran beside a backup, its bundle has the bytes of every report it
\* publishes, except of one that a deletion has named (create_backup_bundle).
THEOREM BundlesAreWhole == Spec => []BundleHasBytes
<1>1. IInv => BundleHasBytes
  BY DEF IInv, PerReport, Backed, BundleHasBytes
<1> QED BY <1>1, Invariant, PTL
=============================================================================
