------------------------------- MODULE LocalFs -------------------------------
(* The file system of a local transfer, as ferrosync-fs/src/unix.rs uses it: a *)
(* name is a path, a node is an inode, and two names may share a node.  The    *)
(* disk has room for so many bytes; a write that does not fit stops in between.*)
(*                                                                             *)
(* An operation that can fail returns [ok, fs]; fs is what a failed one leaves *)
(* behind.  Links point outside the modelled tree and are never followed.      *)
EXTENDS Integers, Sequences, FiniteSets, FiniteSetsExt, SequencesExt, Functions, TLC

CONSTANTS
  Now,     \* the clock, later than every modification time of a scenario
  Ample    \* room for everything a command writes

Lexists(f, path) == path \in DOMAIN f.name

Node(f, path) == f.node[f.name[path]]

IsKind(f, path, kind) == Lexists(f, path) /\ Node(f, path).kind = kind

Children(f, dir) == {p \in DOMAIN f.name : Len(p) = Len(dir) + 1 /\ Front(p) = dir}

Below(f, dir) == {p \in DOMAIN f.name : Len(p) > Len(dir) /\ IsPrefix(dir, p)}

\* st_size; no file of a scenario is as long as a directory or a link.
Size(node) == IF node.kind = "file" THEN Len(node.data) ELSE 4096

File(data, mtime) == [kind |-> "file", data |-> data, mtime |-> mtime]

Done(f) == [ok |-> TRUE, fs |-> f]

Error(f) == [ok |-> FALSE, fs |-> f]

\* The ? operator: go on with what a step left unless it failed.
Then(result, Step(_)) == IF result.ok THEN Step(result.fs) ELSE result

Guarded(condition, f, g) == IF condition THEN Done(g) ELSE Error(f)

Unlink(f, paths) == [f EXCEPT !.name = Restrict(@, DOMAIN @ \ paths)]

\* A name for a fresh node.
Create(f, path, node) ==
  LET ino == 1 + Max(DOMAIN f.node)
  IN [f EXCEPT !.name = (path :> ino) @@ @, !.node = (ino :> node) @@ @]

InDirectory(f, path) == IsKind(f, Front(path), "dir")

remove_file(f, path) ==
  Guarded(Lexists(f, path) /\ ~IsKind(f, path, "dir"), f, Unlink(f, {path}))

\* remove_dir and remove_file on every path of a set, errors ignored.
RemoveEach(f, paths) ==
  Unlink(f, {p \in paths : ~IsKind(f, p, "dir") \/ Children(f, p) = {}})

\* create_dir_all, then set_permissions.
mkdir(f, path) ==
  LET missing == {n \in 1..Len(path) : ~Lexists(f, SubSeq(path, 1, n))}
      Add(n, g) == Create(g, SubSeq(path, 1, n), [kind |-> "dir", mtime |-> Now])
  IN Guarded(\A n \in 1..Len(path) : n \in missing \/ IsKind(f, SubSeq(path, 1, n), "dir"),
             f, FoldSet(Add, f, missing))

\* rename over anything that is not a directory.
rename(f, from, to) ==
  Guarded(Lexists(f, from) /\ InDirectory(f, to) /\ ~IsKind(f, to, "dir"), f,
          [f EXCEPT !.name = (to :> f.name[from]) @@ Restrict(@, DOMAIN @ \ {from})])

Fits(f, data) == Len(data) <= f.room

Part(f, data) == SubSeq(data, 1, Min({Len(data), f.room}))

Spend(f, data) == [f EXCEPT !.room = @ - Len(Part(f, data))]

\* A temporary file in the same directory, renamed.  A failed write or rename
\* leaves it.
write_file(f, path, data) ==
  LET temporary == Append(Front(path), ".tmp" \o ToString(Max(DOMAIN f.node)))
      written == Create(Spend(f, data), temporary, File(Part(f, data), Now))
  IN IF ~InDirectory(f, path) THEN Error(f)
     ELSE Then(Guarded(Fits(f, data), written, written), LAMBDA g : rename(g, temporary, path))

\* A temporary file in the same directory, renamed by the destructor of its writer
\* (AtomicFileWriter): also when the write has failed.  A rename that fails is not
\* reported, and the temporary file is removed.
write_file_stream(f, path, data) ==
  LET temporary == Append(Front(path), ".tmp" \o ToString(Max(DOMAIN f.node)))
      moved == rename(Create(Spend(f, data), temporary, File(Part(f, data), Now)), temporary, path)
      left  == IF moved.ok THEN moved.fs ELSE f
  IN IF InDirectory(f, path) THEN Guarded(Fits(f, data), left, left) ELSE Error(f)

\* Open with create: the node that is there keeps its other names.
Overwrite(f, path, data) ==
  IF IsKind(f, path, "file") THEN [f EXCEPT !.node[f.name[path]] = File(data, Now)]
  ELSE Create(f, path, File(data, Now))

Opens(f, path) == InDirectory(f, path) /\ ~IsKind(f, path, "dir")

\* Write data behind what a file keeps of its own.
WriteBehind(f, path, kept, data) ==
  LET written == Overwrite(Spend(f, data), path, kept \o Part(f, data))
  IN IF Opens(f, path) THEN Guarded(Fits(f, data), written, written) ELSE Error(f)

\* Open with truncate, write.
write_file_inplace(f, path, data) == WriteBehind(f, path, <<>>, data)

\* Blocks of zeros are sought over and the length is set: the same content.
write_file_sparse(f, path, data) == WriteBehind(f, path, <<>>, data)

map_file(f, path) == IF IsKind(f, path, "file") THEN Node(f, path).data ELSE <<>>

append_file(f, path, data) == WriteBehind(f, path, map_file(f, path), data)

create_symlink(f, target, path) ==
  LET Link(g) == Guarded(InDirectory(g, path) /\ ~Lexists(g, path), g,
                         Create(g, path, [kind |-> "link", target |-> target, mtime |-> Now]))
  IN Then(IF Lexists(f, path) THEN remove_file(f, path) ELSE Done(f), Link)

\* A second name for a node, on one device.
hard_link(f, from, to, sameDevice) ==
  Guarded(Lexists(f, from) /\ ~IsKind(f, from, "dir") /\ ~Lexists(f, to) /\ InDirectory(f, to) /\ sameDevice,
          f, [f EXCEPT !.name = (to :> f.name[from]) @@ @])

\* The copy opens, and so truncates, its target before it reads.
copy_file(f, from, to) ==
  IF IsKind(f, from, "file") /\ Opens(f, to)
  THEN LET opened == Overwrite(f, to, <<>>) IN WriteBehind(opened, to, <<>>, map_file(opened, from))
  ELSE Error(f)

set_mtime(f, path, mtime) == [f EXCEPT !.node[f.name[path]].mtime = mtime]
==============================================================================
