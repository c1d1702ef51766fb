----------------------------- MODULE FileCommit -----------------------------
(***************************************************************************)
(* How the receiving side replaces files on disk, through failures, the    *)
(* death of the process and further sessions: the receiver's handling of a *)
(* file (wire_transfer.rs:761-815), ReceiverEngine::create_writer,         *)
(* finish_file and receive_file, create_backup, write_file_with_options    *)
(* and quick_check_skip (file_decision.rs), recv_file_delta_* (receiver.rs)*)
(* and AtomicFileWriter (ferrosync-fs/src/atomic_writer.rs).               *)
(*                                                                         *)
(* A content is "none" (no such file), "old", "new" or "part": an empty,   *)
(* unfinished or corrupt version of the new file.  stamp is a modification *)
(* time: "src" if it equals the source entry's.  The options preserve      *)
(* times, and the old and the new content have the same length, so that    *)
(* the quick check tells them apart by the stamp alone.                    *)
(*                                                                         *)
(* Every file of the list has the same base name (in a directory of its    *)
(* own), so all of them share one file of the partial directory, and one   *)
(* of the backup directory.  --append and --remove-source-files are not    *)
(* modelled here.                                                          *)
(***************************************************************************)
EXTENDS Integers, FiniteSets

CONSTANTS
    Files,      \* number of files of the list
    Options,    \* option records: a subset of AllOptions
    Faults,     \* a subset of AllFaults
    MaxFaults   \* how many faults happen in all sessions together

\* write: how data reaches its path; partial: --partial-dir; backup: none, --backup
\* beside the file, or --backup with --backup-dir.
AllOptions == [write : {"stream", "inplace", "sparse"}, partial : BOOLEAN,
               backup : {"none", "beside", "dir"}]

\* crash: the process dies; io: an operation returns an error; drop: an error in
\* the destructor of a writer; times: set_mtime fails.
AllFaults == {"crash", "io", "drop", "times"}

ASSUME CommitAssumption ==
    /\ Files \in Nat \ {0}
    /\ Options \subseteq AllOptions
    /\ Faults \subseteq AllFaults
    /\ MaxFaults \in Nat

VARIABLES
    opt,        \* the options of every session
    had,        \* files that existed before the first session
    dest,       \* the destination of each file, [data, stamp]
    backup,     \* the backups, [of, data]: of which file, and its content
    tmp,        \* the temporary file of the open AtomicFileWriter
    slot,       \* the file of the partial directory
    pc, cur,    \* the receiver's place, and the file it handles
    successful, \* successful_ndxs
    skipped,    \* files of this session the quick check skipped
    cut,        \* files whose receive has failed in some session
    lost,       \* files whose writer has failed in its destructor in some session
    untimed,    \* files whose time was not set in some session
    faults      \* faults so far

vars == <<opt, had, dest, backup, tmp, slot, pc, cur,
          successful, skipped, cut, lost, untimed, faults>>

All == 1..Files
Contents == {"none", "old", "part", "new"}
Places == {"dispatch", "open", "receive", "drop", "apply", "write", "finish", "times",
           "failed", "ended"}
Complete == {"old", "new"}
Fresh(data) == [data |-> data, stamp |-> "own"]
BackupStore == [0..Files -> [of : 0..Files, data : Contents]]
NoBackup == [of |-> 0, data |-> "none"]
Exists(f) == dest[f].data # "none"

Init ==
    /\ opt \in Options
    /\ had \in SUBSET All
    /\ dest = [f \in All |-> Fresh(IF f \in had THEN "old" ELSE "none")]
    /\ backup = [p \in 0..Files |-> NoBackup]
    /\ tmp = "none" /\ slot = "none"
    /\ pc = "dispatch" /\ cur = 1
    /\ successful = {} /\ skipped = {} /\ cut = {} /\ lost = {}
    /\ untimed = {} /\ faults = 0

Fault(kind) ==
    /\ kind \in Faults /\ faults < MaxFaults
    /\ faults' = faults + 1

-----------------------------------------------------------------------------
\* quick_check_skip: the same length and modification time as the source.
UpToDate(f) == dest[f].data \in Complete /\ dest[f].stamp = "src"

\* dispatch_entry: skip the file, or take the destination as the basis.
Dispatch ==
    /\ pc = "dispatch" /\ cur \in All
    /\ \/ /\ UpToDate(cur)
          /\ skipped' = skipped \cup {cur}
          /\ cur' = cur + 1
          /\ UNCHANGED pc
       \/ /\ ~UpToDate(cur)
          /\ pc' = "open"
          /\ UNCHANGED <<skipped, cur>>
    /\ UNCHANGED <<opt, had, dest, backup, tmp, slot, successful, cut, lost, untimed, faults>>

\* create_backup: a rename, which replaces an earlier backup and leaves no file at
\* the destination.  In --backup-dir a backup has only the base name of its file.
Backup == opt.backup # "none" /\ Exists(cur)
BackupPath(f) == IF opt.backup = "dir" THEN 0 ELSE f
BackupKept ==
    IF Backup THEN [backup EXCEPT ![BackupPath(cur)] = [of |-> cur, data |-> dest[cur].data]]
    ELSE backup
DestLeft == IF Backup THEN [dest EXCEPT ![cur] = Fresh("none")] ELSE dest

\* Mutation of CreateWriter: the stream opens the destination itself.
CreateWriterDirect ==
    /\ pc = "open" /\ opt.write # "sparse"
    /\ backup' = BackupKept
    /\ dest' = [dest EXCEPT ![cur] = Fresh("part")]
    /\ pc' = "receive"
    /\ UNCHANGED <<opt, had, tmp, slot, cur, successful, skipped, cut, lost, untimed, faults>>

\* create_writer: back up, then truncate the destination (--inplace) or create a
\* temporary file.  An --inplace write after a backup creates a new file.
CreateWriter ==
    /\ pc = "open" /\ opt.write # "sparse"
    /\ backup' = BackupKept
    /\ \/ /\ opt.write = "inplace"
          /\ dest' = [dest EXCEPT ![cur] = Fresh("part")]
          /\ UNCHANGED tmp
       \/ /\ opt.write = "stream"
          /\ dest' = DestLeft
          /\ tmp' = "part"
    /\ pc' = "receive"
    /\ UNCHANGED <<opt, had, slot, cur, successful, skipped, cut, lost, untimed, faults>>

\* create_writer, or receive_file of --sparse, fails before or after the backup.
OpenErr ==
    /\ pc = IF opt.write = "sparse" THEN "apply" ELSE "open"
    /\ Fault("io")
    /\ \/ UNCHANGED <<dest, backup>>
       \/ backup' = BackupKept /\ dest' = DestLeft
    /\ pc' = "failed"
    /\ UNCHANGED <<opt, had, tmp, slot, cur, successful, skipped, cut, lost, untimed>>

\* needs_buffered_receive: --sparse receives into memory.
BufferedReceive ==
    /\ pc = "open" /\ opt.write = "sparse"
    /\ pc' = "receive"
    /\ UNCHANGED <<opt, had, dest, backup, tmp, slot, cur,
                   successful, skipped, cut, lost, untimed, faults>>

\* recv_file_delta_*: every token was applied and the file checksum matched.
ReceiveOk ==
    /\ pc = "receive"
    /\ pc' = IF opt.write = "sparse" THEN "apply" ELSE "drop"
    /\ UNCHANGED <<opt, had, dest, backup, tmp, slot, cur,
                   successful, skipped, cut, lost, untimed, faults>>

\* Mutation of Commit: the partial directory is not used.
CommitToDest(data) ==
    /\ dest' = [dest EXCEPT ![cur] = Fresh(data)]
    /\ tmp' = "none"
    /\ UNCHANGED slot

\* data reaches the path being written: finish_inner renames the temporary file to
\* it, the buffer of --inplace is flushed, or --sparse writes it.
Commit(data) ==
    /\ tmp' = "none"
    /\ \/ /\ opt.partial /\ opt.write # "inplace"
          /\ slot' = data
          /\ UNCHANGED dest
       \/ /\ ~opt.partial \/ opt.write = "inplace"
          /\ dest' = [dest EXCEPT ![cur] = Fresh(data)]
          /\ UNCHANGED slot

\* Mutation of ReceiveErr: the checksum is not compared with the sender's.
ReceiveErrUnseen ==
    /\ pc = "receive" /\ Fault("io")
    /\ Commit("part")
    /\ pc' = "finish"
    /\ UNCHANGED <<opt, had, backup, cur, successful, skipped, cut, lost, untimed>>

\* A read, a token, a write or the checksum fails.  The error leaves the receiver,
\* and the writer is dropped on the way: its destructor commits what it holds.
\* (If the destructor fails as well, the outcome is that of Crash.)
ReceiveErr ==
    /\ pc = "receive" /\ Fault("io")
    /\ IF opt.write = "sparse" THEN UNCHANGED <<dest, tmp, slot>> ELSE Commit("part")
    /\ cut' = cut \cup {cur}
    /\ pc' = "failed"
    /\ UNCHANGED <<opt, had, backup, cur, successful, skipped, lost, untimed>>

\* drop(writer) after a good receive.
DropWriter ==
    /\ pc = "drop"
    /\ Commit("new")
    /\ pc' = "finish"
    /\ UNCHANGED <<opt, had, backup, cur, successful, skipped, cut, lost, untimed, faults>>

\* The flush, the permissions or the rename fails in the destructor: the temporary
\* file is removed, and the receiver goes on.
DropWriterErr ==
    /\ pc = "drop" /\ Fault("drop")
    /\ tmp' = "none"
    /\ lost' = lost \cup {cur}
    /\ pc' = "finish"
    /\ UNCHANGED <<opt, had, dest, backup, slot, cur, successful, skipped, cut, untimed>>

\* receive_file of --sparse: back up, truncate the path being written, ...
SparseOpen ==
    /\ pc = "apply"
    /\ backup' = BackupKept
    /\ \/ opt.partial /\ slot' = "part" /\ dest' = DestLeft
       \/ ~opt.partial /\ dest' = [dest EXCEPT ![cur] = Fresh("part")] /\ UNCHANGED slot
    /\ pc' = "write"
    /\ UNCHANGED <<opt, had, tmp, cur, successful, skipped, cut, lost, untimed, faults>>

\* ... and write it, with every error returned.
SparseWrite ==
    /\ pc = "write"
    /\ \/ Commit("new") /\ pc' = "finish" /\ UNCHANGED <<cut, faults>>
       \/ /\ Fault("io")
          /\ cut' = cut \cup {cur}
          /\ pc' = "failed"
          /\ UNCHANGED <<dest, tmp, slot>>
    /\ UNCHANGED <<opt, had, backup, cur, successful, skipped, lost, untimed>>

\* finish_file (and the end of receive_file): rename the file of the partial
\* directory, which fails if there is none.
FinishFile ==
    /\ pc = "finish"
    /\ \/ /\ opt.partial /\ slot = "none"
          /\ pc' = "failed"
          /\ UNCHANGED <<dest, slot>>
       \/ /\ opt.partial /\ slot # "none"
          /\ dest' = [dest EXCEPT ![cur] = Fresh(slot)] /\ slot' = "none"
          /\ pc' = "times"
       \/ /\ ~opt.partial
          /\ pc' = "times"
          /\ UNCHANGED <<dest, slot>>
    /\ UNCHANGED <<opt, had, backup, tmp, cur, successful, skipped, cut, lost, untimed, faults>>

\* Mutation of SetTimes: the wrong index is recorded.
SetTimesWrongNdx ==
    /\ pc = "times"
    /\ successful' = successful \cup {cur + 1}
    /\ cur' = cur + 1
    /\ pc' = "dispatch"
    /\ UNCHANGED <<opt, had, dest, backup, tmp, slot, skipped, cut, lost, untimed, faults>>

\* Mutation of SetTimes: the times are not set.
SetTimesNever ==
    /\ pc = "times"
    /\ successful' = successful \cup {cur}
    /\ cur' = cur + 1
    /\ pc' = "dispatch"
    /\ UNCHANGED <<opt, had, dest, backup, tmp, slot, skipped, cut, lost, untimed, faults>>

\* set_file_metadata: an error is only warned about; then the success is recorded.
SetTimes ==
    /\ pc = "times"
    /\ \/ /\ dest' = IF Exists(cur) THEN [dest EXCEPT ![cur].stamp = "src"] ELSE dest
          /\ UNCHANGED <<untimed, faults>>
       \/ /\ Fault("times")
          /\ untimed' = untimed \cup {cur}
          /\ UNCHANGED dest
    /\ successful' = successful \cup {cur}
    /\ cur' = cur + 1
    /\ pc' = "dispatch"
    /\ UNCHANGED <<opt, had, backup, tmp, slot, skipped, cut, lost>>

EndSession ==
    /\ pc = "dispatch" /\ cur \notin All
    /\ pc' = "ended"
    /\ UNCHANGED <<opt, had, dest, backup, tmp, slot, cur,
                   successful, skipped, cut, lost, untimed, faults>>

\* The process dies: no destructor runs.  A temporary file stays behind under a name
\* no later session uses.  An error that leaves the files alone has the same effect.
Crash ==
    /\ pc \notin {"failed", "ended"} /\ Fault("crash")
    /\ tmp' = "none"
    /\ pc' = "failed"
    /\ UNCHANGED <<opt, had, dest, backup, slot, cur, successful, skipped, cut, lost, untimed>>

\* The user runs a failed transfer again.
Rerun ==
    /\ pc = "failed"
    /\ pc' = "dispatch" /\ cur' = 1
    /\ successful' = {} /\ skipped' = {}
    /\ UNCHANGED <<opt, had, dest, backup, tmp, slot, cut, lost, untimed, faults>>

Progress ==
    \/ Dispatch \/ CreateWriter \/ BufferedReceive \/ ReceiveOk \/ DropWriter
    \/ SparseOpen \/ SparseWrite \/ FinishFile \/ SetTimes \/ EndSession \/ Rerun

Next == Progress \/ OpenErr \/ ReceiveErr \/ DropWriterErr \/ Crash

\* Fairness: the receiver keeps running, and a failed transfer is run again.
Spec == Init /\ [][Next]_vars /\ WF_vars(Progress)

-----------------------------------------------------------------------------
\* The variables have their types.
TypeOK ==
    /\ opt \in Options
    /\ had \subseteq All
    /\ dest \in [All -> [data : Contents, stamp : {"own", "src"}]]
    /\ backup \in BackupStore
    /\ tmp \in {"none", "part"} /\ slot \in Contents
    /\ pc \in Places /\ cur \in 1..Files + 1
    /\ successful \subseteq All /\ skipped \subseteq All
    /\ cut \subseteq All /\ lost \subseteq All /\ untimed \subseteq All
    /\ faults \in 0..MaxFaults

\* A file recorded in successful_ndxs, for which MSG_SUCCESS is sent, has the new
\* content at its destination; and the quick check never skips a file that is not up to
\* date, whatever failed or crashed sessions left behind, as times are set only on what a
\* receive completed.  The exception is a file whose writer failed in its destructor: the
\* error is swallowed, so wire_transfer.rs:828 ("successfully received") claims too much.
ReportedIsStored == \A f \in (successful \cup skipped) \ lost : dest[f].data = "new"

\* The temporary file or the partial directory shelters the destination of f.  A
\* failed receive without --partial-dir commits the temporary file (ReceiveErr); with
\* it, a failed commit lets finish_file take what an earlier session left (DropWriterErr).
Sheltered(f) == \/ opt.partial /\ opt.write # "inplace" /\ f \notin lost
                \/ ~opt.partial /\ opt.write = "stream" /\ f \notin cut

\* A sheltered destination holds no unfinished file, at any moment of any session:
\* readers and later sessions see the old file, the new file or none.
NoTornFile == \A f \in All : Sheltered(f) => dest[f].data # "part"

\* A complete version of a sheltered file is on disk, at its destination or as its
\* backup, through crashes and reruns: create_backup never replaces the only one.  In
\* --backup-dir files of one base name replace each other's backups
\* (file_decision.rs:179-181).  There the version survives as long as no error was
\* swallowed, by a destructor or by set_file_metadata: after one, a file that is handled
\* again is moved over the backup that was the last version of another.
VersionKept ==
    \A f \in had :
        Sheltered(f) /\ (opt.backup = "dir" => lost = {} /\ untimed = {}) =>
            \/ dest[f].data \in Complete
            \/ backup[BackupPath(f)].of = f /\ backup[BackupPath(f)].data \in Complete

\* Once faults stop, reruns bring every file to its new content and, unless set_mtime
\* failed, its times; except one whose writer failed silently.  (--inplace with
\* --partial-dir fails in every session: finish_file renames a file create_writer never
\* wrote.)
Recovers ==
    \/ opt.write = "inplace" /\ opt.partial
    \/ <>(/\ pc = "ended"
          /\ \A f \in All \ lost :
                dest[f].data = "new" /\ (dest[f].stamp = "src" \/ f \in untimed))

\* What atomic_writer.rs says: the temporary file is renamed "on successful completion"
\* and removed otherwise, so a streamed destination never holds an unfinished file.
OnlyCompleteRenamed == opt.write = "stream" => \A f \in All : dest[f].data # "part"
=============================================================================
