-------------------------------- MODULE Local --------------------------------
(* A local transfer: execute_transfer of ferrosync-engine/src/transfer.rs with *)
(* the decisions of receiver_engine.rs and file_decision.rs and the deletions  *)
(* of delete.rs.  The command is given once or twice over the same tree.       *)
(*                                                                             *)
(* Everything between two awaits is one step.  The awaits are the delta        *)
(* pipeline and the sleep of --bwlimit: there a timeout drops the transfer,    *)
(* and anywhere another process may remove or rewrite a source file.           *)
EXTENDS LocalFs

CONSTANTS
  Scenarios,            \* trees, scan orders, filters and the options of each command
  STREAMING_THRESHOLD   \* the length from which a file is written as a stream

VARIABLES
  sc,         \* the scenario
  fs,         \* the file system
  was,        \* the file system when the command began
  round,      \* the command: an index of sc.runs
  pc,         \* "start", "entries", "delta", "slept", "links", "done", "failed"
  list,       \* the entries of the scan
  next,       \* the entry the loop is at
  held,       \* the source data the delta pipeline or the sleep holds
  deferred,   \* hard links to make after the loop
  budget,     \* DeleteBudget: <<remaining>>, or <<>> without a limit
  stats,      \* TransferStats
  touched,    \* source files another process has taken away or rewritten in this
              \* command, and those rewritten while the transfer held their data
  past        \* how the earlier commands ended: [pc, stats, touched]

vars == <<sc, fs, was, round, pc, list, next, held, deferred, budget, stats, touched, past>>

Opts == sc.runs[round]

On(flag) == flag \in Opts.flags

Src(name) == <<"src">> \o name

Dst(name) == <<"dst">> \o name

Alt(dir, name) == <<dir>> \o name

\* The rules: a name anywhere, or one path from the root of the transfer.
is_included(path) == Last(path) \notin sc.excludes.base /\ path \notin sc.excludes.path

Untouched == [taken |-> {}, rewritten |-> {}, raced |-> {}]

NoStats == [dirs |-> 0, links |-> 0, skipped |-> 0, transferred |-> 0, deleted |-> 0, literal |-> 0]

------------------------------------------------------------------------------
(* The file list.                                                              *)

\* collect_directory: an excluded directory is not entered.
Listed(name) ==
  Lexists(fs, Src(name)) /\ \A n \in 1..Len(name) : is_included(SubSeq(name, 1, n))

\* The first name of a node with several is the one the others are linked to.
hlink_source(names, i) ==
  LET same == {j \in DOMAIN names : fs.name[Src(names[j])] = fs.name[Src(names[i])]}
  IN IF On("hard_links") /\ Min(same) < i THEN <<names[Min(same)]>> ELSE <<>>

scan ==
  LET names == SelectSeq(sc.order, Listed)
  IN [i \in DOMAIN names |->
        [name |-> names[i], node |-> Node(fs, Src(names[i])), hlink |-> hlink_source(names, i)]]

Wanted == {list[i].name : i \in DOMAIN list}

------------------------------------------------------------------------------
(* delete.rs                                                                   *)

DeleteBudget == Opts.max_delete

\* Which entries a full directory listing offers for deletion, in an order
\* only the kernel knows: with a budget, any of them may be the ones to go.
Extraneous(f, dir, kept) ==
  {p \in Children(f, dir) :
     Last(p) \notin kept /\ (Opts.delete = "Excluded" \/ is_included(<<Last(p)>>))}

\* The budget is looked at only once, before the first.
Allowed_oneCheck(candidates) == IF budget = <<0>> THEN {{}} ELSE {candidates}

\* try_consume for every candidate until the budget is used up.
Allowed(candidates) ==
  LET n == IF budget = <<>> THEN Cardinality(candidates) ELSE Min({budget[1], Cardinality(candidates)})
  IN kSubset(n, candidates)

\* Every directory has the whole budget.
Remaining_perDirectory(used) == budget

Remaining(used) == IF budget = <<>> THEN <<>> ELSE <<budget[1] - Cardinality(used)>>

Removed(f, paths) == IF On("dry_run") THEN f ELSE RemoveEach(f, paths)

\* The names at the top of the list; the names in one directory of it.
delete_extraneous(f, names) == Extraneous(f, <<"dst">>, {n[1] : n \in {n \in names : Len(n) = 1}})

delete_extraneous_in_dir(f, dir, names) ==
  Extraneous(f, Dst(dir), {Last(n) : n \in {n \in names : Len(n) = Len(dir) + 1 /\ Front(n) = dir}})

\* Bottom-up, every directory with nothing but directories below it.  A dry
\* run removes nothing, so it only sees the ones that are empty already.
Prunable(f) ==
  {d \in Below(f, <<"dst">>) :
     /\ IsKind(f, d, "dir")
     /\ IF On("dry_run") THEN Children(f, d) = {} ELSE \A p \in Below(f, d) : IsKind(f, p, "dir")}

prune_empty_dirs(f) == IF On("dry_run") THEN f ELSE Unlink(f, Prunable(f))

------------------------------------------------------------------------------
(* file_decision.rs                                                            *)

check_existence_skip(f, e) ==
  \/ On("existing") /\ ~Lexists(f, Dst(e.name))
  \/ On("ignore_existing") /\ Lexists(f, Dst(e.name))

check_size_limits(e) ==
  \/ Opts.max_size # <<>> /\ Size(e.node) > Opts.max_size[1]
  \/ Opts.min_size # <<>> /\ Size(e.node) < Opts.min_size[1]

SameTime(node, e) == node.mtime - e.node.mtime \in -Opts.modify_window..Opts.modify_window

quick_check_skip(f, e) ==
  /\ ~On("ignore_times") /\ Lexists(f, Dst(e.name))
  /\ LET dest == Node(f, Dst(e.name))
     IN \/ On("update") /\ dest.mtime > e.node.mtime
        \/ Size(dest) = Size(e.node) /\ (On("size_only") \/ SameTime(dest, e))

\* The first of the directories with a file of the same size and time, or <<>>.
check_alt_dest(f, e, dirs) ==
  LET Same(dir) == Lexists(f, Alt(dir, e.name))
                   /\ Size(Node(f, Alt(dir, e.name))) = Size(e.node) /\ SameTime(Node(f, Alt(dir, e.name)), e)
      found == SelectSeq(dirs, Same)
  IN IF found = <<>> THEN <<>> ELSE <<Alt(found[1], e.name)>>

should_skip_impl(f, e) ==
  \/ check_existence_skip(f, e)
  \/ check_size_limits(e)
  \/ check_alt_dest(f, e, Opts.compare_dest) # <<>>
  \/ ~On("checksum") /\ quick_check_skip(f, e)

\* Absolute, or more ".." than names at some point, counted from the link.
is_unsafe_symlink(target) ==
  \/ target.absolute
  \/ \E n \in 1..Len(target.parts) :
       LET up == {i \in 1..n : target.parts[i] = ".."} IN 2 * Cardinality(up) > n

\* The old file is renamed, into --backup-dir if there is one.
create_backup(f, path) ==
  LET backup == Append(IF Opts.backup_dir = <<>> THEN Front(path) ELSE Opts.backup_dir[1],
                       Last(path) \o Opts.suffix)
  IN Then(IF Opts.backup_dir = <<>> THEN Done(f) ELSE mkdir(f, Opts.backup_dir[1]),
          LAMBDA g : rename(g, path, backup))

Streams(data) == ~On("sparse") /\ ~On("inplace") /\ Len(data) >= STREAMING_THRESHOLD

write_file_with_options(f, path, data) ==
  CASE On("sparse")                    -> write_file_sparse(f, path, data)
    [] On("inplace") /\ ~On("sparse") -> write_file_inplace(f, path, data)
    [] Streams(data)                   -> write_file_stream(f, path, data)
    [] OTHER                           -> write_file(f, path, data)

\* The time is set before the file is written.
set_file_metadata_early(f, path, e) == f

\* Where the file system refuses to set times, that is only warned about.
set_file_metadata(f, path, e) ==
  IF On("times") /\ sc.setsTimes THEN set_mtime(f, path, e.node.mtime) ELSE f

------------------------------------------------------------------------------
(* receiver_engine.rs                                                          *)

create_directory_impl(f, e) == IF On("dry_run") THEN Done(f) ELSE mkdir(f, Dst(e.name))

create_symlink_impl(f, e) ==
  IF On("dry_run") \/ e.node.target.parts = <<>> THEN Done(f) ELSE create_symlink(f, e.node.target, Dst(e.name))

\* The destination goes before the link is made, and stays gone if it fails.
try_link_dest_impl(f, e) ==
  LET alt  == check_alt_dest(f, e, Opts.link_dest)
      free == remove_file(f, Dst(e.name)).fs
  IN IF On("dry_run") \/ alt = <<>> THEN Error(f)
     ELSE hard_link(free, alt[1], Dst(e.name), sc.sameDevice)

\* Also in a dry run.
try_copy_dest_impl_always(f, e) ==
  LET alt == check_alt_dest(f, e, Opts.copy_dest)
  IN IF alt = <<>> THEN Error(f) ELSE copy_file(f, alt[1], Dst(e.name))

try_copy_dest_impl(f, e) ==
  LET alt == check_alt_dest(f, e, Opts.copy_dest)
  IN IF On("dry_run") \/ alt = <<>> THEN Error(f) ELSE copy_file(f, alt[1], Dst(e.name))

\* Link-dest, and copy-dest when that fails.
TryAltDests(f, e) ==
  LET linked == try_link_dest_impl(f, e)
  IN IF linked.ok THEN linked ELSE try_copy_dest_impl(linked.fs, e)

RemoveSource(f, e) == IF On("remove_source_files") THEN remove_file(f, Src(e.name)).fs ELSE f

\* The source goes although the write may fail.
receive_file_removeFirst(f, e, data) ==
  Then(write_file_with_options(RemoveSource(f, e), Dst(e.name), data),
       LAMBDA g : Done(set_file_metadata(g, Dst(e.name), e)))

\* Backup, write (by way of --partial-dir), metadata, removal of the source.
receive_file(f, e, data) ==
  LET path   == Dst(e.name)
      write  == IF Opts.partial_dir = <<>> THEN path ELSE Append(Opts.partial_dir[1], Last(path))
      backup == IF On("backup") /\ Lexists(f, path) THEN create_backup(f, path) ELSE Done(f)
      Room(g)   == IF Opts.partial_dir = <<>> THEN Done(g) ELSE mkdir(g, Opts.partial_dir[1])
      Write(g)  == write_file_with_options(g, write, data)
      Move(g)   == IF write = path THEN Done(g) ELSE rename(g, write, path)
      Finish(g) == Done(RemoveSource(set_file_metadata(g, path, e), e))
  IN Then(Then(Then(Then(backup, Room), Write), Move), Finish)

\* The link is tried over the file that is there.
DeferredLink_noRemove(e, acc) ==
  LET linked == hard_link(acc.fs, Dst(e.hlink[1]), Dst(e.name), TRUE)
  IN [fs |-> linked.fs, count |-> acc.count + IF linked.ok THEN 1 ELSE 0]

\* One deferred hard link; a failed one has removed what was there.
DeferredLink(e, acc) ==
  LET linked == hard_link(remove_file(acc.fs, Dst(e.name)).fs, Dst(e.hlink[1]), Dst(e.name), TRUE)
  IN IF On("dry_run") THEN [acc EXCEPT !.count = @ + 1]
     ELSE [fs |-> linked.fs, count |-> acc.count + IF linked.ok THEN 1 ELSE 0]

create_deferred_hardlinks_impl(f) == FoldLeft(LAMBDA acc, e : DeferredLink(e, acc), [fs |-> f, count |-> 0], deferred)

------------------------------------------------------------------------------
(* execute_transfer_impl                                                       *)

Init ==
  /\ sc \in Scenarios
  /\ fs = sc.fs /\ was = sc.fs
  /\ round = 1 /\ pc = "start"
  /\ list = <<>> /\ next = 1 /\ held = <<>> /\ deferred = <<>>
  /\ budget = sc.runs[1].max_delete
  /\ stats = NoStats
  /\ touched = Untouched /\ past = <<>>

E == list[next]

Count(field, n) == [stats EXCEPT ![field] = @ + n]

Fails(f) ==
  /\ fs' = f /\ pc' = "failed"
  /\ UNCHANGED <<sc, was, round, list, next, held, deferred, budget, stats, touched, past>>

\* The loop body ends: what it did to the file system and to the counts.
Continue(f, counts) ==
  /\ fs' = f /\ stats' = counts /\ next' = next + 1 /\ pc' = "entries"
  /\ UNCHANGED <<sc, was, round, list, held, deferred, budget, touched, past>>

\* The scan, --list-only, and the deletions of --delete-before.
Begin ==
  /\ pc = "start"
  /\ list' = scan
  /\ pc' = IF On("list_only") THEN "done" ELSE "entries"
  /\ \E gone \in IF Opts.delete \in {"Before", "Excluded"} /\ ~On("list_only")
                  THEN Allowed(delete_extraneous(fs, {scan[i].name : i \in DOMAIN scan})) ELSE {{}} :
       /\ fs' = Removed(fs, gone)
       /\ stats' = Count("deleted", Cardinality(gone))
       /\ budget' = Remaining(gone)
  /\ UNCHANGED <<sc, was, round, next, held, deferred, touched, past>>

AtEntry == pc = "entries" /\ next <= Len(list)

\* A directory is made; --delete-during then clears it.
DirectoryEntry ==
  /\ AtEntry /\ E.node.kind = "dir"
  /\ LET made == create_directory_impl(fs, E)
     IN IF ~made.ok THEN Fails(made.fs)
        ELSE \E gone \in IF Opts.delete = "During"
                         THEN Allowed(delete_extraneous_in_dir(made.fs, E.name, Wanted)) ELSE {{}} :
               /\ fs' = Removed(made.fs, gone)
               /\ stats' = [stats EXCEPT !.dirs = @ + 1, !.deleted = @ + Cardinality(gone)]
               /\ budget' = Remaining(gone)
               /\ next' = next + 1
               /\ UNCHANGED <<sc, was, round, pc, list, held, deferred, touched, past>>

IsLink == E.node.kind = "link" /\ On("preserve_links")

IsUnsafe == On("safe_links") /\ is_unsafe_symlink(E.node.target)

SymlinkEntry ==
  /\ AtEntry /\ IsLink /\ ~IsUnsafe
  /\ LET made == create_symlink_impl(fs, E)
     IN IF made.ok THEN Continue(made.fs, Count("links", 1)) ELSE Fails(made.fs)

\* An unsafe link, a node that is no regular file, or one of the skip checks.
SkippedEntry ==
  /\ AtEntry /\ E.node.kind # "dir"
  /\ \/ IsLink /\ IsUnsafe
     \/ ~IsLink /\ E.node.kind # "file"
     \/ E.node.kind = "file" /\ E.hlink = <<>> /\ should_skip_impl(fs, E)
  /\ Continue(fs, Count("skipped", 1))

DeferredEntry ==
  /\ AtEntry /\ E.node.kind = "file" /\ E.hlink # <<>>
  /\ deferred' = Append(deferred, E)
  /\ next' = next + 1
  /\ UNCHANGED <<sc, fs, was, round, pc, list, held, budget, stats, touched, past>>

\* A file that is not skipped, and whether --link-dest or --copy-dest has it.
AtFile(found) ==
  /\ AtEntry /\ E.node.kind = "file" /\ E.hlink = <<>> /\ ~should_skip_impl(fs, E)
  /\ TryAltDests(fs, E).ok = found

AltDestEntry == AtFile(TRUE) /\ Continue(TryAltDests(fs, E).fs, Count("transferred", 1))

DryRunEntry == AtFile(FALSE) /\ On("dry_run") /\ Continue(fs, Count("transferred", 1))

\* The entry needs its data: what the tries have left, the basis, the source.
Tried == TryAltDests(fs, E).fs

Basis == map_file(Tried, Dst(E.name))

SourceData == map_file(fs, Src(E.name))

Readable == IsKind(fs, Src(E.name), "file")

AtTransfer == AtFile(FALSE) /\ ~On("dry_run")

\* --checksum: equal sums, of an absent and an empty file too.
SameChecksum == On("checksum") /\ Readable /\ SourceData = Basis

ChecksumEntry == AtTransfer /\ SameChecksum /\ Continue(Tried, Count("skipped", 1))

Appends == (On("append") \/ On("append_verify")) /\ Basis # <<>>

\* The last byte of the basis once more.
Appended_overlapping == append_file(Tried, Dst(E.name), SubSeq(SourceData, Len(Basis), Len(SourceData)))

Appended == append_file(Tried, Dst(E.name), SubSeq(SourceData, Len(Basis) + 1, Len(SourceData)))

\* --append-verify compares the whole file, and starts over if it differs.
Verified == On("append_verify") => map_file(Appended.fs, Dst(E.name)) = SourceData

AppendEntry ==
  /\ AtTransfer /\ ~SameChecksum /\ Appends /\ Readable
  /\ \/ Len(SourceData) <= Len(Basis) /\ Continue(Tried, Count("skipped", 1))
     \/ Len(SourceData) > Len(Basis) /\ ~Appended.ok /\ Fails(Appended.fs)
     \/ /\ Len(SourceData) > Len(Basis) /\ Appended.ok /\ Verified
        /\ Continue(Appended.fs, [stats EXCEPT !.transferred = @ + 1,
                                              !.literal = @ + Len(SourceData) - Len(Basis)])

\* A full transfer starts from what a refuted append has left.
Unverified == Appends /\ Len(SourceData) > Len(Basis) /\ Appended.ok /\ ~Verified

FullTransfer == AtTransfer /\ ~SameChecksum /\ Readable /\ (Appends => Unverified)

Current == IF Appends THEN Appended.fs ELSE Tried

\* The data is written, counted, and slept on if there is a bandwidth limit.
Deliver(f, bytes) ==
  LET written == receive_file(f, E, bytes)
  IN IF ~written.ok THEN Fails(written.fs)
     ELSE /\ fs' = written.fs
          /\ stats' = [stats EXCEPT !.transferred = @ + 1, !.literal = @ + Len(bytes)]
          /\ pc' = "slept"
          /\ UNCHANGED <<sc, was, round, list, next, held, deferred, budget, touched, past>>

WholeEntry ==
  /\ FullTransfer /\ (On("whole_file") \/ Basis = <<>>)
  /\ Deliver(Current, SourceData)

\* The pipeline's tasks own copies of the source and the basis.
DeltaEntry ==
  /\ FullTransfer /\ ~On("whole_file") /\ Basis # <<>>
  /\ fs' = Current /\ held' = SourceData /\ pc' = "delta"
  /\ UNCHANGED <<sc, was, round, list, next, deferred, budget, stats, touched, past>>

\* They return the source (module Delta: Reconstruction).
DeltaDone == pc = "delta" /\ Deliver(fs, held)

\* The source is gone: the transfer ends with an error.
NoSource == AtTransfer /\ ~SameChecksum /\ ~Readable /\ Fails(Tried)

Wake ==
  /\ pc = "slept"
  /\ pc' = "entries" /\ next' = next + 1 /\ held' = <<>>
  /\ UNCHANGED <<sc, fs, was, round, list, deferred, budget, stats, touched, past>>

\* --timeout drops the transfer at an await; the sleep is one with --bwlimit.
TimedOut ==
  /\ On("timeout") /\ (pc = "delta" \/ (pc = "slept" /\ On("bwlimit")))
  /\ Fails(fs)

\* Hard links, --delete-after, --prune-empty-dirs.
Finish ==
  /\ pc = "entries" /\ next > Len(list)
  /\ LET linked == create_deferred_hardlinks_impl(fs)
     IN \E gone \in IF Opts.delete = "After" THEN Allowed(delete_extraneous(linked.fs, Wanted)) ELSE {{}} :
          LET left   == Removed(linked.fs, gone)
              pruned == IF On("prune_empty_dirs") THEN Prunable(left) ELSE {}
          IN /\ fs' = IF On("prune_empty_dirs") THEN prune_empty_dirs(left) ELSE left
             /\ stats' = [stats EXCEPT !.transferred = @ + linked.count,
                                       !.deleted = @ + Cardinality(gone) + Cardinality(pruned)]
             /\ budget' = Remaining(gone)
  /\ pc' = "done"
  /\ UNCHANGED <<sc, was, round, list, next, held, deferred, touched, past>>

------------------------------------------------------------------------------
(* Other processes, and the next command.                                      *)

\* A source file is removed, or rewritten later than the scan saw it: between two
\* entries, or while the transfer awaits.
SourceChanges ==
  /\ sc.live /\ touched = Untouched /\ pc \in {"entries", "delta", "slept"}
  /\ \E name \in {n \in Wanted : IsKind(fs, Src(n), "file")} :
       LET same == {n \in Wanted : Lexists(fs, Src(n)) /\ fs.name[Src(n)] = fs.name[Src(name)]}
       IN \/ /\ fs' = Unlink(fs, {Src(name)})
             /\ touched' = [Untouched EXCEPT !.taken = {name}]
          \/ /\ fs' = Overwrite(fs, Src(name), sc.rewrite)
             /\ touched' = [Untouched EXCEPT !.rewritten = same,
                                             !.raced = IF pc = "delta" THEN same \cap {E.name} ELSE {}]
  /\ UNCHANGED <<sc, was, round, pc, list, next, held, deferred, budget, stats, past>>

\* By then the disk has room again.
Again ==
  /\ pc \in {"done", "failed"} /\ round < Len(sc.runs)
  /\ fs' = [fs EXCEPT !.room = Ample] /\ was' = fs'
  /\ round' = round + 1 /\ pc' = "start"
  /\ past' = Append(past, [pc |-> pc, stats |-> stats, touched |-> touched])
  /\ list' = <<>> /\ next' = 1 /\ held' = <<>> /\ deferred' = <<>>
  /\ budget' = sc.runs[round + 1].max_delete
  /\ stats' = NoStats /\ touched' = Untouched
  /\ UNCHANGED sc

Ended == pc \in {"done", "failed"} /\ round = Len(sc.runs) /\ UNCHANGED vars

Next ==
  \/ Begin \/ DirectoryEntry \/ SymlinkEntry \/ SkippedEntry \/ DeferredEntry \/ AltDestEntry
  \/ DryRunEntry \/ ChecksumEntry \/ AppendEntry \/ WholeEntry \/ DeltaEntry \/ DeltaDone
  \/ NoSource \/ Wake \/ TimedOut \/ Finish \/ SourceChanges \/ Again \/ Ended

Spec == Init /\ [][Next]_vars

------------------------------------------------------------------------------
(* Properties.                                                                 *)

\* Types; and while the loop runs, every entry behind it is counted once.
TypeOK ==
  /\ round \in 1..Len(sc.runs)
  /\ pc \in {"start", "entries", "delta", "slept", "done", "failed"}
  /\ next \in 1..(Len(list) + 1)
  /\ budget = <<>> \/ budget[1] \in 0..DeleteBudget[1]
  /\ \A p \in DOMAIN fs.name : fs.name[p] \in DOMAIN fs.node /\ (Len(p) > 1 => InDirectory(fs, p))
  /\ pc = "entries" => stats.dirs + stats.links + stats.skipped + stats.transferred + Len(deferred) = next - 1

\* A destination with a second name, which a write in place changes as well.
InPlace == \E flag \in {"inplace", "sparse", "append", "append_verify"} : On(flag)

SharedInPlace ==
  InPlace /\ \E p, q \in DOMAIN was.name : p # q /\ p[1] = "dst" /\ was.name[p] = was.name[q]

SameAsBefore(path) ==
  /\ Lexists(fs, path) = Lexists(was, path)
  /\ Lexists(fs, path) => Node(fs, path) = Node(was, path)

\* Two losses no option asks for.  --checksum takes an empty file for equal to one
\* that is not there, so it is never created (transfer.rs:325-336).  A long file is
\* not delivered over a directory, as the destructor swallows the error of the rename
\* (file_decision.rs:215-229).
NeverCreated(e) ==
  /\ On("checksum") /\ e.node.data = <<>> /\ ~IsKind(was, Dst(e.name), "file")
  /\ SameAsBefore(Dst(e.name))

LostInDrop(e) ==
  /\ e.node.kind = "file" /\ Streams(e.node.data)
  /\ Opts.partial_dir = <<>> /\ ~On("backup") /\ IsKind(was, Dst(e.name), "dir")

\* What may be at the destination of a file instead of the source's data: the
\* old file if an option says to keep it, a file of an alternate destination
\* that was taken for equal, the old file with the tail of the source.
Kept(e) ==
  /\ SameAsBefore(Dst(e.name))
  /\ \/ should_skip_impl(was, e)
     \/ (On("append") \/ On("append_verify")) /\ Len(e.node.data) <= Len(map_file(was, Dst(e.name)))

FromAltDest(e) ==
  \E dir \in ToSet(Opts.link_dest \o Opts.copy_dest) :
    check_alt_dest(was, e, <<dir>>) # <<>> /\ map_file(fs, Dst(e.name)) = map_file(was, Alt(dir, e.name))

Extended(e) ==
  LET old == map_file(was, Dst(e.name))
  IN /\ On("append") /\ ~On("append_verify") /\ Len(old) \in 1..Len(e.node.data)
     /\ map_file(fs, Dst(e.name)) = old \o SubSeq(e.node.data, Len(old) + 1, Len(e.node.data))

FileDelivered(e) ==
  \/ IsKind(fs, Dst(e.name), "file") /\ map_file(fs, Dst(e.name)) = e.node.data
  \/ Kept(e) \/ FromAltDest(e) \/ Extended(e)

EntryDelivered(e) ==
  CASE e.node.kind = "dir" -> On("prune_empty_dirs") \/ IsKind(fs, Dst(e.name), "dir")
    [] e.node.kind = "link" ->
         (On("preserve_links") /\ ~(On("safe_links") /\ is_unsafe_symlink(e.node.target)))
           => IsKind(fs, Dst(e.name), "link") /\ Node(fs, Dst(e.name)).target = e.node.target
    [] e.node.kind = "file" /\ e.hlink = <<>> -> FileDelivered(e) \/ NeverCreated(e) \/ LostInDrop(e)
    [] OTHER -> TRUE

Undisturbed == touched = Untouched /\ ~On("list_only")

\* A command that succeeds has brought every entry of its list to the
\* destination, whatever an earlier command that failed, timed out or raced a
\* writer has left there.  The exceptions are the ones the options ask for, a
\* destination written in place that shares its node with another, and the two
\* losses above.  Later names of a node are left to HardLinksShare.
Mirrored ==
  (pc = "done" /\ Undisturbed /\ ~On("dry_run") /\ ~SharedInPlace)
    => \A i \in DOMAIN list : EntryDelivered(list[i])

\* With -H every later name of a source node is, at the destination, a name of the
\* node the first has there.  If the first has no file there, because it was skipped
\* or lost, the later ones are gone too, the files they named before included: the
\* failed link is only warned about (create_deferred_hardlinks).  A directory in the
\* way stays, and its link is missing.
HardLinksShare ==
  (pc = "done" /\ Undisturbed /\ ~On("dry_run"))
    => \A i, j \in DOMAIN list :
         LET e == list[i]  first == list[j]
         IN (e.node.kind = "file" /\ e.hlink = <<first.name>>) =>
              \/ IsKind(was, Dst(e.name), "dir") /\ SameAsBefore(Dst(e.name))
              \/ /\ IsKind(fs, Dst(first.name), "file")
                 /\ Lexists(fs, Dst(e.name)) /\ fs.name[Dst(e.name)] = fs.name[Dst(first.name)]
              \/ /\ ~IsKind(fs, Dst(first.name), "file") /\ ~Lexists(fs, Dst(e.name))
                 /\ should_skip_impl(was, first) \/ NeverCreated(first) \/ LostInDrop(first)

\* Deletion takes nothing the list names and, unless excluded files are to go too,
\* nothing the rules exclude; and over all directories together never more than
\* --max-delete (Deleter, DeleteBudget).  A listed name goes only where a backup, a
\* link or pruning took it.  Rules are asked for bare names: one on a path below the
\* top protects nothing, although scenarios.rs:355 says that "excluded files on
\* receiver are protected from deletion".
DeletesBounded ==
  LET gone  == {p \in Below(was, <<"dst">>) : ~Lexists(fs, p)}
      plain == IF On("prune_empty_dirs") THEN {p \in gone : ~IsKind(was, p, "dir")} ELSE gone
      extra == {p \in plain : Tail(p) \notin Wanted}
      moves == On("backup") \/ On("hard_links") \/ Opts.link_dest # <<>>
  IN pc # "start" =>
       /\ moves \/ plain = extra
       /\ extra # {} => Opts.delete # "None" /\ ~On("dry_run")
       /\ \A p \in extra : \/ Opts.delete = "Excluded" \/ is_included(Tail(p))
                           \/ Len(Tail(p)) > 1 /\ Tail(p) \in sc.excludes.path
       /\ Opts.max_delete = <<>> \/ Cardinality(extra) <= Opts.max_delete[1]

\* --remove-source-files removes a file only when its data, in the version it had
\* last, is at the destination, and it stays there for the rest of the command.  The
\* exceptions: a file rewritten while the delta pipeline held its data is removed
\* with the rewrite (transfer.rs:429), a long one over a directory is removed
\* undelivered (LostInDrop), and a destination written in place may share its node.
SourcesSafe ==
  SharedInPlace \/ \A p \in Below(was, <<"src">>) :
    LET name == Tail(p)
    IN \/ Lexists(fs, p)
       \/ name \in touched.taken \cup touched.raced
       \/ \E i \in DOMAIN list : list[i].name = name /\ LostInDrop(list[i])
       \/ /\ IsKind(fs, Dst(name), "file")
          /\ map_file(fs, Dst(name)) =
               IF name \in touched.rewritten THEN sc.rewrite ELSE map_file(was, p)

\* The same command again transfers nothing: it only makes its hard links anew,
\* copies again what --copy-dest copied without the time, and tries again what
\* was lost over a directory.  It needs the times the first one set: where that
\* fails (file_decision.rs:245-247) every file is transferred again.
SecondRunIdle ==
  LET repeats == round = 2 /\ sc.runs[1] = sc.runs[2] /\ past[1].pc = "done" /\ past[1].touched = Untouched
      timed   == On("times") /\ sc.setsTimes /\ ~On("ignore_times")
      kept    == \A i \in DOMAIN list : ~LostInDrop(list[i])
  IN (repeats /\ pc = "done" /\ Undisturbed /\ timed /\ kept /\ ~SharedInPlace)
       => stats.literal = 0 /\ (Opts.copy_dest = <<>> => stats.transferred <= Len(deferred))

\* A dry run changes nothing and counts what the command then does.  It does
\* not read files, so --checksum and --append are not foreseen; nor are the
\* directories that pruning empties, backups that are deleted again, and hard
\* links that fail.
DryRunPredicts ==
  LET forecast == round = 2 /\ sc.runs[1] = [sc.runs[2] EXCEPT !.flags = @ \cup {"dry_run"}] /\ past[1].pc = "done"
      foreseen == \A flag \in {"checksum", "append", "append_verify", "prune_empty_dirs", "backup", "hard_links"} : ~On(flag)
  IN /\ (On("dry_run") /\ touched = Untouched) => fs = was
     /\ (forecast /\ foreseen /\ pc = "done" /\ Undisturbed /\ past[1].touched = Untouched)
          => [past[1].stats EXCEPT !.literal = stats.literal] = stats
==============================================================================
