-------------------------- MODULE FileCommitProofs --------------------------
(***************************************************************************)
(* Proofs of the safety properties of FileCommit, for any number of files, *)
(* any options and any number of faults of any kind.                       *)
(*                                                                         *)
(* The inductive invariant adds to the properties: where the receiver is   *)
(* in its list (Active, Behind), that the bytes about to be finished are   *)
(* the new file unless the writer failed in its destructor (Written), that *)
(* --inplace never fills the partial directory (SlotFree), and that the    *)
(* source's modification time marks a complete file (Stamped).             *)
(*                                                                         *)
(* VersionKept is shown for backups beside the files (Beside) and in       *)
(* --backup-dir (Single) apart.  In the directory every backup replaces    *)
(* the one before, so no file may be backed up while the backup is the     *)
(* only version of another: the files before the one being handled are     *)
(* up to date (Ahead), hence are not handled again after a crash, and the  *)
(* one being handled is not up to date (Pending).                          *)
(***************************************************************************)
EXTENDS FileCommit, TLAPS

USE SMTT(20), ZenonT(20)

\* While a file is being handled it is a file of the list; only --sparse applies a buffer.
Active ==
    /\ pc \in {"open", "receive", "drop", "apply", "write", "finish", "times"} => cur \in All
    /\ pc \in {"apply", "write"} => opt.write = "sparse"

\* What was reported in this session lies behind the file being handled.
Behind == \A f \in successful \cup skipped : f < cur

\* --inplace does not write to the partial directory.
SlotFree == opt.write = "inplace" => slot = "none"

\* What finish_file is about to rename, or to stamp, is the new file.
Written ==
    /\ pc = "finish" /\ cur \notin lost =>
         IF opt.partial /\ opt.write # "inplace" THEN slot = "new" ELSE dest[cur].data = "new"
    /\ pc = "times" /\ cur \notin lost => dest[cur].data = "new"

\* A file with the source's modification time is the new file.
Stamped == \A f \in All \ lost : dest[f].stamp = "src" => dest[f].data = "new"

\* The backup at p is a complete version of f.
HasBackup(p, f) == backup[p].of = f /\ backup[p].data \in Complete

\* Backups beside the files: a sheltered file has a complete version.
Beside ==
    opt.backup # "dir" =>
        \A f \in had : Sheltered(f) => dest[f].data \in Complete \/ HasBackup(f, f)

\* A file is being handled, and it is not up to date.
Handling == pc \in {"open", "receive", "drop", "apply", "write", "finish", "times"}
Pending == Handling => ~UpToDate(cur)

\* --backup-dir, and no error was swallowed.
Clean == opt.backup = "dir" /\ lost = {} /\ untimed = {}

\* The files before the one being handled are up to date.
Ahead == Clean => \A g \in All : g < cur => UpToDate(g)

\* A file without a complete destination has its version in the backup directory, and is
\* the next one a session will handle.
Single ==
    Clean => \A f \in had : Sheltered(f) /\ dest[f].data \notin Complete =>
        HasBackup(0, f) /\ \A g \in All : g < f => UpToDate(g)

Inv ==
    /\ TypeOK /\ Active /\ Behind /\ SlotFree /\ Written /\ Stamped
    /\ ReportedIsStored /\ NoTornFile /\ Beside
    /\ Pending /\ Ahead /\ Single

-----------------------------------------------------------------------------
\* create_backup puts a file of the list into the backups and leaves the destinations typed.
LEMMA BackupTyped ==
    ASSUME TypeOK, cur \in All
    PROVE  BackupKept \in BackupStore /\ DestLeft \in [All -> [data : Contents, stamp : {"own", "src"}]]
<1> USE CommitAssumption DEF TypeOK, All, Contents
<1>1. BackupPath(cur) \in 0..Files /\ cur \in 0..Files BY DEF BackupPath
<1>2. [of |-> cur, data |-> dest[cur].data] \in [of : 0..Files, data : Contents] BY <1>1
<1>3. BackupKept \in BackupStore
  <2> DEFINE rec == [of |-> cur, data |-> dest[cur].data]
             T == [of : 0..Files, data : Contents]
  <2>1. rec \in T BY <1>2
  <2> HIDE DEF rec, T
  <2>2. backup \in [0..Files -> T] BY DEF BackupStore, T
  <2>3. [backup EXCEPT ![BackupPath(cur)] = rec] \in [0..Files -> T] BY <1>1, <2>1, <2>2
  <2>4. QED BY <2>2, <2>3 DEF BackupKept, BackupStore, rec, T
<1>4. DestLeft \in [All -> [data : Contents, stamp : {"own", "src"}]] BY DEF DestLeft, Fresh
<1>5. QED BY <1>3, <1>4

\* What create_backup does to the backup of a file, beside it and in the directory.
LEMMA BackupAt ==
    ASSUME TypeOK, cur \in All, backup' = BackupKept
    PROVE  /\ opt.backup # "dir" => \A f \in All :
                HasBackup(f, f)' <=> IF Backup /\ f = cur THEN dest[cur].data \in Complete
                                     ELSE HasBackup(f, f)
           /\ opt.backup = "dir" => \A f \in All :
                HasBackup(0, f)' <=> IF Backup THEN f = cur /\ dest[cur].data \in Complete
                                     ELSE HasBackup(0, f)
<1> DEFINE rec == [of |-> cur, data |-> dest[cur].data]
<1>1. BackupPath(cur) \in 0..Files /\ All \subseteq 0..Files /\ 0 \in 0..Files
      BY CommitAssumption DEF BackupPath, All
<1>2. DOMAIN backup = 0..Files BY DEF TypeOK, BackupStore
<1>3. \A p \in 0..Files : backup'[p] = IF Backup /\ p = BackupPath(cur) THEN rec ELSE backup[p]
      BY <1>1, <1>2 DEF BackupKept
<1>4. rec.of = cur /\ rec.data = dest[cur].data OBVIOUS
<1> HIDE DEF rec
<1>5. QED BY <1>1, <1>3, <1>4 DEF BackupPath, HasBackup, Complete

\* The backups stay what they are where no backup is made.
LEMMA BackupSame == backup' = backup => \A p, f : HasBackup(p, f)' <=> HasBackup(p, f)
BY DEF HasBackup, Complete

\* The types are kept by every step.
LEMMA TypeStep == TypeOK /\ Active /\ [Next]_vars => TypeOK'
<1> SUFFICES ASSUME TypeOK, Active, [Next]_vars PROVE TypeOK'
    OBVIOUS
<1> USE CommitAssumption DEF TypeOK, All, Contents, Places, Fresh, Active
<1>1. CASE Dispatch
  <2>1. CASE UpToDate(cur)
    <3>1. cur' \in 1..(Files + 1) BY <1>1, <2>1 DEF Dispatch
    <3>2. skipped' \subseteq All BY <1>1, <2>1 DEF Dispatch
    <3>3. QED BY <1>1, <2>1, <3>1, <3>2 DEF Dispatch
  <2>2. CASE ~UpToDate(cur) BY <1>1, <2>2 DEF Dispatch, UpToDate
  <2>3. QED BY <2>1, <2>2
<1>2. CASE CreateWriter BY <1>2, BackupTyped DEF CreateWriter
<1>3. CASE BufferedReceive BY <1>3 DEF BufferedReceive
<1>4. CASE ReceiveOk BY <1>4 DEF ReceiveOk
<1>5. CASE DropWriter BY <1>5 DEF DropWriter, Commit
<1>6. CASE SparseOpen BY <1>6, BackupTyped DEF SparseOpen
<1>7. CASE SparseWrite
  <2>1. CASE Commit("new") /\ pc' = "finish" /\ UNCHANGED <<cut, faults>>
        BY <1>7, <2>1 DEF SparseWrite, Commit
  <2>2. CASE Fault("io") /\ UNCHANGED <<dest, tmp, slot>> /\ cut' = cut \cup {cur} /\ pc' = "failed"
        BY <1>7, <2>2 DEF SparseWrite, Fault
  <2>3. QED BY <1>7, <2>1, <2>2 DEF SparseWrite
<1>8. CASE FinishFile BY <1>8 DEF FinishFile
<1>17. CASE SetTimes
  <2>1. dest' \in [All -> [data : Contents, stamp : {"own", "src"}]] BY <1>17 DEF SetTimes, Exists
  <2>2. cur' \in 1..(Files + 1) /\ successful' \subseteq All BY <1>17 DEF SetTimes
  <2>3. untimed' \subseteq All /\ faults' \in 0..MaxFaults BY <1>17 DEF SetTimes, Fault
  <2>4. QED BY <1>17, <2>1, <2>2, <2>3 DEF SetTimes
<1>9. CASE EndSession BY <1>9 DEF EndSession
<1>10. CASE Rerun BY <1>10 DEF Rerun
<1>11. CASE OpenErr
  <2>1. cur \in All BY <1>11 DEF OpenErr
  <2>2. CASE UNCHANGED <<dest, backup>> BY <1>11, <2>1, <2>2 DEF OpenErr, Fault
  <2>3. CASE backup' = BackupKept /\ dest' = DestLeft
        BY <1>11, <2>1, <2>3, BackupTyped DEF OpenErr, Fault
  <2>4. QED BY <1>11, <2>2, <2>3 DEF OpenErr
<1>12. CASE ReceiveErr BY <1>12 DEF ReceiveErr, Commit, Fault
<1>13. CASE DropWriterErr BY <1>13 DEF DropWriterErr, Fault
<1>14. CASE Crash BY <1>14 DEF Crash, Fault
<1>15. CASE UNCHANGED vars BY <1>15 DEF vars
<1>16. QED BY <1>1, <1>2, <1>3, <1>4, <1>5, <1>6, <1>7, <1>8, <1>9, <1>10, <1>11, <1>12,
             <1>13, <1>14, <1>15, <1>17 DEF Next, Progress

\* The first state satisfies the invariant.
LEMMA InvInit == Init => Inv
<1> SUFFICES ASSUME Init PROVE Inv
    OBVIOUS
<1> USE CommitAssumption DEF Init, All, Fresh
<1>1. TypeOK BY DEF TypeOK, Contents, Places, BackupStore, NoBackup
<1>2. Active /\ Behind /\ SlotFree /\ Written /\ Stamped /\ ReportedIsStored
      BY DEF Active, Behind, SlotFree, Written, Stamped, ReportedIsStored
<1>3. NoTornFile BY DEF NoTornFile
<1>4. Beside BY DEF Beside, Complete
<1>5. Pending /\ Ahead /\ Single BY DEF Pending, Handling, Ahead, Single, Complete
<1>6. QED BY <1>1, <1>2, <1>3, <1>4, <1>5 DEF Inv

\* The place in the list is kept.
LEMMA PlaceStep == TypeOK /\ Active /\ Behind /\ [Next]_vars => Active' /\ Behind'
<1> SUFFICES ASSUME TypeOK, Active, Behind, [Next]_vars PROVE Active' /\ Behind'
    OBVIOUS
<1> USE CommitAssumption DEF TypeOK, All, Active, Behind
<1>1. CASE Dispatch BY <1>1 DEF Dispatch
<1>2. CASE SetTimes BY <1>2 DEF SetTimes
<1>3. CASE Rerun BY <1>3 DEF Rerun
<1>4. ASSUME ~Dispatch, ~SetTimes, ~Rerun PROVE UNCHANGED <<cur, successful, skipped>>
      BY <1>4 DEF Next, Progress, CreateWriter, BufferedReceive, ReceiveOk, DropWriter, SparseOpen,
                  SparseWrite, FinishFile, EndSession, OpenErr, ReceiveErr, DropWriterErr, Crash, vars
<1>5. ASSUME ~Dispatch, ~SetTimes, ~Rerun PROVE Active'
      BY <1>4, <1>5 DEF Next, Progress, CreateWriter, BufferedReceive, ReceiveOk, DropWriter, SparseOpen,
                  SparseWrite, FinishFile, EndSession, OpenErr, ReceiveErr, DropWriterErr, Crash, vars
<1>6. QED BY <1>1, <1>2, <1>3, <1>4, <1>5

-----------------------------------------------------------------------------
\* What a step may not do to the files.  One step per action that changes files or what is
\* known of them, and under it one per conjunct; the others leave all of that alone.
DataInv == SlotFree /\ Written /\ Stamped /\ ReportedIsStored /\ NoTornFile /\ Beside

LEMMA DataStep == Inv /\ [Next]_vars => DataInv'
<1> SUFFICES ASSUME Inv, [Next]_vars PROVE DataInv'
    OBVIOUS
<1> USE CommitAssumption DEF Inv, TypeOK, All, AllOptions, Contents, Active, Behind, Fresh
<1>1. CASE CreateWriter
  <2> USE <1>1 DEF CreateWriter, DestLeft, Backup, Exists
  <2>1. SlotFree' BY DEF SlotFree
  <2>2. Written' BY DEF Written, SlotFree
  <2>3. Stamped' BY DEF Stamped, Written, SlotFree
  <2>4. ReportedIsStored' BY DEF ReportedIsStored, Written, Stamped, SlotFree
  <2>5. NoTornFile' BY DEF NoTornFile, Sheltered, Written, SlotFree
  <2>6. Beside' BY BackupAt, BackupSame DEF Beside, Complete, NoTornFile, Sheltered, Written, SlotFree
  <2>7. QED BY <2>1, <2>2, <2>3, <2>4, <2>5, <2>6 DEF DataInv
<1>2. CASE DropWriter
  <2> USE <1>2 DEF DropWriter, Commit
  <2>1. SlotFree' BY DEF SlotFree
  <2>2. Written' BY DEF Written, SlotFree
  <2>3. Stamped' BY DEF Stamped, Written, SlotFree
  <2>4. ReportedIsStored' BY DEF ReportedIsStored, Written, Stamped, SlotFree
  <2>5. NoTornFile' BY DEF NoTornFile, Sheltered, Written, SlotFree
  <2>6. Beside' BY BackupSame DEF Beside, Complete, NoTornFile, Sheltered, Written, SlotFree
  <2>7. QED BY <2>1, <2>2, <2>3, <2>4, <2>5, <2>6 DEF DataInv
<1>3. CASE SparseOpen
  <2> USE <1>3 DEF SparseOpen, DestLeft, Backup, Exists
  <2>1. SlotFree' BY DEF SlotFree
  <2>2. Written' BY DEF Written, SlotFree
  <2>3. Stamped' BY DEF Stamped, Written, SlotFree
  <2>4. ReportedIsStored' BY DEF ReportedIsStored, Written, Stamped, SlotFree
  <2>5. NoTornFile' BY DEF NoTornFile, Sheltered, Written, SlotFree
  <2>6. Beside' BY BackupAt, BackupSame DEF Beside, Complete, NoTornFile, Sheltered, Written, SlotFree
  <2>7. QED BY <2>1, <2>2, <2>3, <2>4, <2>5, <2>6 DEF DataInv
<1>4. CASE SparseWrite
  <2> USE <1>4 DEF SparseWrite, Commit, Fault
  <2>1. SlotFree' BY DEF SlotFree
  <2>2. Written' BY DEF Written, SlotFree
  <2>3. Stamped' BY DEF Stamped, Written, SlotFree
  <2>4. ReportedIsStored' BY DEF ReportedIsStored, Written, Stamped, SlotFree
  <2>5. NoTornFile' BY DEF NoTornFile, Sheltered, Written, SlotFree
  <2>6. Beside' BY BackupSame DEF Beside, Complete, NoTornFile, Sheltered, Written, SlotFree
  <2>7. QED BY <2>1, <2>2, <2>3, <2>4, <2>5, <2>6 DEF DataInv
<1>5. CASE FinishFile
  <2> USE <1>5 DEF FinishFile
  <2>1. SlotFree' BY DEF SlotFree
  <2>2. Written' BY DEF Written, SlotFree
  <2>3. Stamped' BY DEF Stamped, Written, SlotFree
  <2>4. ReportedIsStored' BY DEF ReportedIsStored, Written, Stamped, SlotFree
  <2>5. NoTornFile' BY DEF NoTornFile, Sheltered, Written, SlotFree
  <2>6. Beside' BY BackupSame DEF Beside, Complete, NoTornFile, Sheltered, Written, SlotFree
  <2>7. QED BY <2>1, <2>2, <2>3, <2>4, <2>5, <2>6 DEF DataInv
<1>12. CASE SetTimes
  <2> USE <1>12 DEF SetTimes, Fault, Exists
  <2>1. SlotFree' BY DEF SlotFree
  <2>2. Written' BY DEF Written, SlotFree
  <2>3. Stamped' BY DEF Stamped, Written, SlotFree
  <2>4. ReportedIsStored'
    <3>1. \A f \in All : dest'[f].data = dest[f].data OBVIOUS
    <3>2. successful' = successful \cup {cur} /\ UNCHANGED <<skipped, lost>> OBVIOUS
    <3>3. QED BY <3>1, <3>2 DEF ReportedIsStored, Written
  <2>5. NoTornFile' BY DEF NoTornFile, Sheltered, Written, SlotFree
  <2>6. Beside' BY BackupSame DEF Beside, Complete, NoTornFile, Sheltered, Written, SlotFree
  <2>7. QED BY <2>1, <2>2, <2>3, <2>4, <2>5, <2>6 DEF DataInv
<1>6. CASE OpenErr
  <2> USE <1>6 DEF OpenErr, DestLeft, Backup, Exists, Fault
  <2>1. SlotFree' BY DEF SlotFree
  <2>2. Written' BY DEF Written, SlotFree
  <2>3. Stamped' BY DEF Stamped, Written, SlotFree
  <2>4. ReportedIsStored' BY DEF ReportedIsStored, Written, Stamped, SlotFree
  <2>5. NoTornFile' BY DEF NoTornFile, Sheltered, Written, SlotFree
  <2>6. Beside' BY BackupAt, BackupSame DEF Beside, Complete, NoTornFile, Sheltered, Written, SlotFree
  <2>7. QED BY <2>1, <2>2, <2>3, <2>4, <2>5, <2>6 DEF DataInv
<1>7. CASE ReceiveErr
  <2> USE <1>7 DEF ReceiveErr, Commit, Fault
  <2>1. SlotFree' BY DEF SlotFree
  <2>2. Written' BY DEF Written, SlotFree
  <2>3. Stamped' BY DEF Stamped, Written, SlotFree
  <2>4. ReportedIsStored' BY DEF ReportedIsStored, Written, Stamped, SlotFree
  <2>5. NoTornFile' BY DEF NoTornFile, Sheltered, Written, SlotFree
  <2>6. Beside' BY BackupSame DEF Beside, Complete, NoTornFile, Sheltered, Written, SlotFree
  <2>7. QED BY <2>1, <2>2, <2>3, <2>4, <2>5, <2>6 DEF DataInv
<1>8. CASE DropWriterErr
  <2> USE <1>8 DEF DropWriterErr, Fault
  <2>1. SlotFree' BY DEF SlotFree
  <2>2. Written' BY DEF Written, SlotFree
  <2>3. Stamped' BY DEF Stamped, Written, SlotFree
  <2>4. ReportedIsStored' BY DEF ReportedIsStored, Written, Stamped, SlotFree
  <2>5. NoTornFile' BY DEF NoTornFile, Sheltered, Written, SlotFree
  <2>6. Beside' BY BackupSame DEF Beside, Complete, NoTornFile, Sheltered, Written, SlotFree
  <2>7. QED BY <2>1, <2>2, <2>3, <2>4, <2>5, <2>6 DEF DataInv
<1>9. CASE Dispatch
  <2> USE <1>9 DEF Dispatch, UpToDate, Complete
  <2>1. SlotFree' BY DEF SlotFree
  <2>2. Written' BY DEF Written, SlotFree
  <2>3. Stamped' BY DEF Stamped, Written, SlotFree
  <2>4. ReportedIsStored' BY DEF ReportedIsStored, Written, Stamped, SlotFree
  <2>5. NoTornFile' BY DEF NoTornFile, Sheltered, Written, SlotFree
  <2>6. Beside' BY BackupSame DEF Beside, Complete, NoTornFile, Sheltered, Written, SlotFree
  <2>7. QED BY <2>1, <2>2, <2>3, <2>4, <2>5, <2>6 DEF DataInv
<1>10. CASE BufferedReceive \/ ReceiveOk \/ EndSession \/ Crash \/ Rerun \/ UNCHANGED vars
  <2>1. UNCHANGED <<opt, had, dest, backup, slot, cut, lost>>
        BY <1>10 DEF BufferedReceive, ReceiveOk, EndSession, Crash, Rerun, vars
  <2>2. pc' \notin {"finish", "times"} \/ UNCHANGED vars
        BY <1>10 DEF BufferedReceive, ReceiveOk, EndSession, Crash, Rerun
  <2>3. successful' \subseteq successful /\ skipped' \subseteq skipped
        BY <1>10 DEF BufferedReceive, ReceiveOk, EndSession, Crash, Rerun, vars
  <2>4. SlotFree' /\ Stamped' /\ NoTornFile' /\ Beside'
        BY <2>1, BackupSame DEF SlotFree, Stamped, NoTornFile, Beside, Sheltered, Complete
  <2>5. Written' BY <2>2 DEF Written, vars
  <2>6. ReportedIsStored' BY <2>1, <2>3 DEF ReportedIsStored
  <2>7. QED BY <2>4, <2>5, <2>6 DEF DataInv
<1>11. QED BY <1>1, <1>2, <1>3, <1>4, <1>5, <1>6, <1>7, <1>8, <1>9, <1>10, <1>12 DEF Next, Progress

-----------------------------------------------------------------------------
\* In --backup-dir, only the file being handled can be without a complete destination.
LEMMA OnlyCurrent ==
    ASSUME TypeOK, Active, Pending, Ahead, Single, Clean, Handling,
           NEW f \in had, Sheltered(f), dest[f].data \notin Complete
    PROVE  f = cur /\ HasBackup(0, f)
<1>1. cur \in All /\ f \in All BY DEF Active, Handling, TypeOK
<1>2. HasBackup(0, f) /\ \A g \in All : g < f => UpToDate(g) BY DEF Single
<1>3. ~(cur < f) BY <1>1, <1>2 DEF Pending
<1>4. ~(f < cur) BY <1>1 DEF Ahead, UpToDate
<1>5. f = cur BY <1>1, <1>3, <1>4, CommitAssumption DEF All
<1>6. QED BY <1>2, <1>5

\* A step that handles a file touches no other, and is safe if the file then has a version.
LEMMA DirKept ==
    ASSUME Inv, Handling, Clean' => Clean,
           UNCHANGED <<had, cur>>,
           \A f \in had : Sheltered(f)' => Sheltered(f),
           \A g \in All : g # cur => dest'[g] = dest[g],
           Clean' /\ cur \in had /\ Sheltered(cur)' /\ dest'[cur].data \notin Complete => HasBackup(0, cur)'
    PROVE  Ahead' /\ Single'
<1>1. cur \in All /\ \A g \in All : g < cur => g # cur BY CommitAssumption DEF Inv, Active, Handling, All
<1>2. \A g \in All : g < cur => (UpToDate(g)' <=> UpToDate(g)) BY <1>1 DEF UpToDate, Complete
<1>3. Ahead' BY <1>2 DEF Ahead, Inv, All
<1>4. Single'
  <2> SUFFICES ASSUME Clean', NEW f \in had, Sheltered(f)', dest'[f].data \notin Complete
               PROVE  HasBackup(0, f)' /\ \A g \in All : g < f => UpToDate(g)'
      BY DEF Single, All, Complete
  <2>1. f \in All /\ Sheltered(f) BY DEF Inv, TypeOK
  <2>2. f = cur
    <3>1. CASE f = cur BY <3>1
    <3>2. CASE f # cur
      <4>1. dest[f].data \notin Complete BY <2>1, <3>2
      <4>2. QED BY <2>1, <4>1, OnlyCurrent DEF Inv
    <3>3. QED BY <3>1, <3>2
  <2>3. QED BY <2>2, <1>3 DEF Ahead, All
<1>5. QED BY <1>3, <1>4

\* --backup-dir keeps its promise: one step per action.
LEMMA DirStep == Inv /\ [Next]_vars => Pending' /\ Ahead' /\ Single'
<1> SUFFICES ASSUME Inv, [Next]_vars PROVE Pending' /\ Ahead' /\ Single'
    OBVIOUS
<1> USE DEF Handling
<1>1. CASE CreateWriter
  <2> USE <1>1 DEF CreateWriter
  <2>1. cur \in All /\ (Clean' => Clean) BY DEF Inv, Active, Clean
  <2>2. \A f \in had : Sheltered(f)' => Sheltered(f) BY DEF Sheltered
  <2>3. (\A g \in All : g # cur => dest'[g] = dest[g]) /\ (dest'[cur] = dest[cur] \/ dest'[cur].stamp = "own")
        BY <2>1 DEF DestLeft, Fresh, Inv, TypeOK
  <2>4. Clean' /\ cur \in had /\ Sheltered(cur)' /\ dest'[cur].data \notin Complete => HasBackup(0, cur)'
    <3> SUFFICES ASSUME Clean', cur \in had, Sheltered(cur)', dest'[cur].data \notin Complete
                 PROVE  HasBackup(0, cur)'
        OBVIOUS
    <3>1. Sheltered(cur) /\ opt.write # "inplace" /\ dest' = DestLeft /\ opt.backup = "dir"
          BY <2>1, <2>2 DEF Sheltered, Clean
    <3>2. QED BY <3>1, <2>1, BackupAt, OnlyCurrent DEF Inv, TypeOK, Backup, Exists, NoTornFile, Contents, Complete, DestLeft
  <2>5. Pending' BY <2>1, <2>3 DEF Pending, UpToDate, Inv, Complete
  <2>6. QED BY <2>1, <2>2, <2>3, <2>4, <2>5, DirKept
<1>2. CASE SparseOpen
  <2> USE <1>2 DEF SparseOpen
  <2>1. cur \in All /\ (Clean' => Clean) BY DEF Inv, Active, Clean
  <2>2. \A f \in had : Sheltered(f)' => Sheltered(f) BY DEF Sheltered
  <2>3. (\A g \in All : g # cur => dest'[g] = dest[g]) /\ (dest'[cur] = dest[cur] \/ dest'[cur].stamp = "own")
        BY <2>1 DEF DestLeft, Fresh, Inv, TypeOK
  <2>4. Clean' /\ cur \in had /\ Sheltered(cur)' /\ dest'[cur].data \notin Complete => HasBackup(0, cur)'
    <3> SUFFICES ASSUME Clean', cur \in had, Sheltered(cur)', dest'[cur].data \notin Complete
                 PROVE  HasBackup(0, cur)'
        OBVIOUS
    <3>1. Sheltered(cur) /\ dest' = DestLeft /\ opt.backup = "dir"
          BY <2>1, <2>2 DEF Sheltered, Clean, Inv, Active
    <3>2. QED BY <3>1, <2>1, BackupAt, OnlyCurrent DEF Inv, TypeOK, Backup, Exists, NoTornFile, Contents, Complete, DestLeft
  <2>5. Pending' BY <2>1, <2>3 DEF Pending, UpToDate, Inv, Complete
  <2>6. QED BY <2>1, <2>2, <2>3, <2>4, <2>5, DirKept
<1>3. CASE OpenErr
  <2> USE <1>3 DEF OpenErr
  <2>1. cur \in All /\ (Clean' => Clean) BY DEF Inv, Active, Clean, Fault
  <2>2. \A f \in had : Sheltered(f)' => Sheltered(f) BY DEF Sheltered
  <2>3. (\A g \in All : g # cur => dest'[g] = dest[g]) /\ (dest'[cur] = dest[cur] \/ dest'[cur].stamp = "own")
        BY <2>1 DEF DestLeft, Fresh, Inv, TypeOK
  <2>4. Clean' /\ cur \in had /\ Sheltered(cur)' /\ dest'[cur].data \notin Complete => HasBackup(0, cur)'
    <3> SUFFICES ASSUME Clean', cur \in had, Sheltered(cur)', dest'[cur].data \notin Complete
                 PROVE  HasBackup(0, cur)'
        OBVIOUS
    <3>1. Sheltered(cur) /\ opt.backup = "dir" BY <2>1, <2>2 DEF Sheltered, Clean
    <3>2. CASE UNCHANGED <<dest, backup>> BY <3>1, <3>2, <2>1, BackupSame, OnlyCurrent DEF Inv
    <3>3. CASE backup' = BackupKept /\ dest' = DestLeft
          BY <3>1, <3>3, <2>1, BackupAt, OnlyCurrent DEF Inv, TypeOK, Backup, Exists, NoTornFile, Contents, Complete, DestLeft
    <3>4. QED BY <3>2, <3>3
  <2>5. Pending' BY <2>1, <2>3 DEF Pending, UpToDate, Inv, Complete
  <2>6. QED BY <2>1, <2>2, <2>3, <2>4, <2>5, DirKept
<1>4. CASE DropWriter
  <2> USE <1>4 DEF DropWriter, Commit
  <2>1. cur \in All /\ (Clean' => Clean) BY DEF Inv, Active, Clean, TypeOK
  <2>2. \A f \in had : Sheltered(f)' => Sheltered(f) BY DEF Sheltered
  <2>3. (\A g \in All : g # cur => dest'[g] = dest[g]) /\ (dest'[cur] = dest[cur] \/ dest'[cur].stamp = "own")
        BY <2>1 DEF Fresh, Inv, TypeOK
  <2>4. Clean' /\ cur \in had /\ Sheltered(cur)' /\ dest'[cur].data \notin Complete => HasBackup(0, cur)'
    <3> SUFFICES ASSUME Clean', cur \in had, Sheltered(cur)', dest'[cur].data \notin Complete
                 PROVE  HasBackup(0, cur)'
        OBVIOUS
    <3>1. dest' = dest BY <2>1 DEF Inv, TypeOK, Fresh, Complete
    <3>2. QED BY <3>1, <2>1, <2>2, BackupSame, OnlyCurrent DEF Inv
  <2>5. Pending' BY <2>1, <2>3 DEF Pending, UpToDate, Inv, Complete
  <2>6. QED BY <2>1, <2>2, <2>3, <2>4, <2>5, DirKept
<1>5. CASE SparseWrite
  <2> USE <1>5 DEF SparseWrite, Commit, Fault
  <2>1. cur \in All /\ (Clean' => Clean) BY DEF Inv, Active, Clean, TypeOK
  <2>2. \A f \in had : Sheltered(f)' => Sheltered(f) BY DEF Sheltered
  <2>3. (\A g \in All : g # cur => dest'[g] = dest[g]) /\ (dest'[cur] = dest[cur] \/ dest'[cur].stamp = "own")
        BY <2>1 DEF Fresh, Inv, TypeOK
  <2>4. Clean' /\ cur \in had /\ Sheltered(cur)' /\ dest'[cur].data \notin Complete => HasBackup(0, cur)'
    <3> SUFFICES ASSUME Clean', cur \in had, Sheltered(cur)', dest'[cur].data \notin Complete
                 PROVE  HasBackup(0, cur)'
        OBVIOUS
    <3>1. dest' = dest BY <2>1 DEF Inv, TypeOK, Fresh, Complete
    <3>2. QED BY <3>1, <2>1, <2>2, BackupSame, OnlyCurrent DEF Inv
  <2>5. Pending' BY <2>1, <2>3 DEF Pending, UpToDate, Inv, Complete
  <2>6. QED BY <2>1, <2>2, <2>3, <2>4, <2>5, DirKept
<1>6. CASE FinishFile
  <2> USE <1>6 DEF FinishFile
  <2>1. cur \in All /\ (Clean' => Clean) BY DEF Inv, Active, Clean, TypeOK
  <2>2. \A f \in had : Sheltered(f)' => Sheltered(f) BY DEF Sheltered
  <2>3. (\A g \in All : g # cur => dest'[g] = dest[g]) /\ (dest'[cur] = dest[cur] \/ dest'[cur].stamp = "own")
        BY <2>1 DEF Fresh, Inv, TypeOK
  <2>4. Clean' /\ cur \in had /\ Sheltered(cur)' /\ dest'[cur].data \notin Complete => HasBackup(0, cur)'
    <3> SUFFICES ASSUME Clean', cur \in had, Sheltered(cur)', dest'[cur].data \notin Complete
                 PROVE  HasBackup(0, cur)'
        OBVIOUS
    <3>1. dest' = dest BY <2>1 DEF Inv, TypeOK, Fresh, Complete, Written, Sheltered, Clean
    <3>2. QED BY <3>1, <2>1, <2>2, BackupSame, OnlyCurrent DEF Inv
  <2>5. Pending' BY <2>1, <2>3 DEF Pending, UpToDate, Inv, Complete
  <2>6. QED BY <2>1, <2>2, <2>3, <2>4, <2>5, DirKept
<1>7. CASE ReceiveErr
  <2> USE <1>7 DEF ReceiveErr, Commit, Fault
  <2>1. cur \in All /\ (Clean' => Clean) BY DEF Inv, Active, Clean, TypeOK
  <2>2. \A f \in had : Sheltered(f)' => Sheltered(f) BY DEF Sheltered
  <2>3. (\A g \in All : g # cur => dest'[g] = dest[g]) /\ (dest'[cur] = dest[cur] \/ dest'[cur].stamp = "own")
        BY <2>1 DEF Fresh, Inv, TypeOK
  <2>4. Clean' /\ cur \in had /\ Sheltered(cur)' /\ dest'[cur].data \notin Complete => HasBackup(0, cur)'
    <3> SUFFICES ASSUME Clean', cur \in had, Sheltered(cur)', dest'[cur].data \notin Complete
                 PROVE  HasBackup(0, cur)'
        OBVIOUS
    <3>1. dest' = dest BY <2>1 DEF Inv, TypeOK, Fresh, Complete, Sheltered
    <3>2. QED BY <3>1, <2>1, <2>2, BackupSame, OnlyCurrent DEF Inv
  <2>5. Pending' BY <2>1, <2>3 DEF Pending, UpToDate, Inv, Complete
  <2>6. QED BY <2>1, <2>2, <2>3, <2>4, <2>5, DirKept
<1>8. CASE DropWriterErr
  <2> USE <1>8 DEF DropWriterErr, Fault
  <2>1. cur \in All /\ (Clean' => Clean) BY DEF Inv, Active, Clean, TypeOK
  <2>2. \A f \in had : Sheltered(f)' => Sheltered(f) BY DEF Sheltered
  <2>3. (\A g \in All : g # cur => dest'[g] = dest[g]) /\ (dest'[cur] = dest[cur] \/ dest'[cur].stamp = "own")
        BY <2>1 DEF Fresh, Inv, TypeOK
  <2>4. Clean' /\ cur \in had /\ Sheltered(cur)' /\ dest'[cur].data \notin Complete => HasBackup(0, cur)'
    <3> SUFFICES ASSUME Clean', cur \in had, Sheltered(cur)', dest'[cur].data \notin Complete
                 PROVE  HasBackup(0, cur)'
        OBVIOUS
    <3>1. dest' = dest OBVIOUS
    <3>2. QED BY <3>1, <2>1, <2>2, BackupSame, OnlyCurrent DEF Inv
  <2>5. Pending' BY <2>1, <2>3 DEF Pending, UpToDate, Inv, Complete
  <2>6. QED BY <2>1, <2>2, <2>3, <2>4, <2>5, DirKept
<1>9. CASE SetTimes
  <2> USE <1>9 DEF SetTimes, Fault
  <2>1. cur \in All /\ (Clean' => Clean) /\ UNCHANGED <<opt, had, backup, cut, lost>>
        BY DEF Inv, Active, Clean, TypeOK
  <2>2. Pending' BY DEF Pending
  <2>3. \A g \in All : g # cur => dest'[g] = dest[g] BY DEF Inv, TypeOK
  <2>4. Clean' => dest'[cur].data \in Complete /\ dest'[cur].stamp = "src"
    <3> SUFFICES ASSUME Clean' PROVE dest'[cur].data \in Complete /\ dest'[cur].stamp = "src"
        OBVIOUS
    <3>1. dest[cur].data = "new" BY <2>1 DEF Clean, Inv, Written
    <3>2. untimed' = {} BY DEF Clean
    <3>3. dest' = [dest EXCEPT ![cur].stamp = "src"] BY <3>1, <3>2 DEF Exists
    <3>4. dest'[cur].data = "new" /\ dest'[cur].stamp = "src" BY <3>1, <3>3, <2>1 DEF Inv, TypeOK
    <3>5. QED BY <3>4 DEF Complete
  <2>5. Ahead'
    <3> SUFFICES ASSUME Clean', NEW g \in All, g < cur' PROVE UpToDate(g)'
        BY DEF Ahead, All
    <3>1. CASE g = cur BY <3>1, <2>4 DEF UpToDate, Complete
    <3>2. CASE g # cur
      <4>1. g < cur BY <3>2, <2>1, CommitAssumption DEF All
      <4>2. QED BY <3>2, <4>1, <2>1, <2>3 DEF Inv, Ahead, UpToDate, Complete
    <3>3. QED BY <3>1, <3>2
  <2>6. Single'
    <3> SUFFICES ASSUME Clean', NEW f \in had, Sheltered(f)', dest'[f].data \notin Complete PROVE FALSE
        BY <2>1 DEF Single, Complete
    <3>1. f \in All /\ Sheltered(f) BY <2>1 DEF Inv, TypeOK, Sheltered
    <3>2. f # cur BY <2>4
    <3>3. QED BY <3>1, <3>2, <2>1, <2>3, OnlyCurrent DEF Inv
  <2>7. QED BY <2>2, <2>5, <2>6
<1>10. CASE Dispatch
  <2> USE <1>10 DEF Dispatch
  <2>1. cur \in All /\ UNCHANGED <<opt, had, dest, backup, cut, lost, untimed>> OBVIOUS
  <2>2. (Clean' <=> Clean) /\ \A g : UpToDate(g)' <=> UpToDate(g) BY <2>1 DEF Clean, UpToDate, Complete
  <2>3. \A f : Sheltered(f)' <=> Sheltered(f) BY <2>1 DEF Sheltered
  <2>4. Pending' BY <2>2 DEF Pending
  <2>5. Ahead'
    <3> SUFFICES ASSUME Clean', NEW g \in All, g < cur' PROVE UpToDate(g)'
        BY DEF Ahead, All
    <3>1. g < cur \/ (g = cur /\ UpToDate(cur)) BY <2>1, CommitAssumption DEF All
    <3>2. QED BY <3>1, <2>2 DEF Inv, Ahead
  <2>6. Single' BY <2>1, <2>2, <2>3, BackupSame DEF Inv, Single, All, Complete
  <2>7. QED BY <2>4, <2>5, <2>6
<1>11. CASE BufferedReceive \/ ReceiveOk \/ EndSession \/ Crash \/ Rerun \/ UNCHANGED vars
  <2>1. UNCHANGED <<opt, had, dest, backup, cut, lost, untimed>>
        BY <1>11 DEF BufferedReceive, ReceiveOk, EndSession, Crash, Rerun, vars
  <2>2. (Clean' <=> Clean) /\ \A g : UpToDate(g)' <=> UpToDate(g) BY <2>1 DEF Clean, UpToDate, Complete
  <2>3. \A f : Sheltered(f)' <=> Sheltered(f) BY <2>1 DEF Sheltered
  <2>4. Handling' => Handling /\ cur' = cur
        BY <1>11 DEF BufferedReceive, ReceiveOk, EndSession, Crash, Rerun, vars
  <2>5. cur' = cur \/ cur' = 1 BY <1>11 DEF BufferedReceive, ReceiveOk, EndSession, Crash, Rerun, vars
  <2>6. Pending' BY <2>2, <2>4 DEF Inv, Pending
  <2>7. Ahead' BY <2>2, <2>5, CommitAssumption DEF Inv, Ahead, All
  <2>8. Single' BY <2>1, <2>2, <2>3, BackupSame DEF Inv, Single, All, Complete
  <2>9. QED BY <2>6, <2>7, <2>8
<1>12. QED BY <1>1, <1>2, <1>3, <1>4, <1>5, <1>6, <1>7, <1>8, <1>9, <1>10, <1>11 DEF Next, Progress

-----------------------------------------------------------------------------
\* The invariant holds in every state.
THEOREM Invariant == Spec => []Inv
<1>1. Inv /\ [Next]_vars => Inv'
      BY TypeStep, PlaceStep, DataStep, DirStep DEF Inv, DataInv
<1>2. QED BY InvInit, <1>1, PTL DEF Spec

\* The types hold in every state of FileCommit.
THEOREM TypeCorrect == Spec => []TypeOK
BY Invariant, PTL DEF Inv

\* What is reported as received or skipped is stored, whatever failed before, except where a
\* destructor swallowed an error (successful_ndxs, quick_check_skip).
THEOREM ReportsHold == Spec => []ReportedIsStored
BY Invariant, PTL DEF Inv

\* A sheltered destination is never torn (AtomicFileWriter, --partial-dir).
THEOREM NeverTorn == Spec => []NoTornFile
BY Invariant, PTL DEF Inv

\* A complete version of a sheltered file that existed is always on disk (create_backup).
THEOREM VersionSurvives == Spec => []VersionKept
<1>1. Inv => VersionKept
  <2> SUFFICES ASSUME Inv, NEW f \in had, Sheltered(f),
                      opt.backup = "dir" => lost = {} /\ untimed = {},
                      dest[f].data \notin Complete
               PROVE  HasBackup(BackupPath(f), f)
      BY DEF VersionKept, HasBackup
  <2>1. CASE opt.backup = "dir" BY <2>1 DEF Inv, Single, Clean, BackupPath
  <2>2. CASE opt.backup # "dir" BY <2>2 DEF Inv, Beside, BackupPath
  <2>3. QED BY <2>1, <2>2
<1>2. QED BY Invariant, <1>1, PTL
=============================================================================
