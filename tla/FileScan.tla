------------------------------ MODULE FileScan ------------------------------
(***************************************************************************)
(* Building the file list: the recursive scan of scanner.rs as a stack of   *)
(* directories, over a file system from which entries may vanish while the  *)
(* scan runs.  The four callers differ in their options: the local transfer *)
(* (scan), the client (scan_entries), the daemon (scan_directory) and       *)
(* --files-from (build_file_list_from_file).                                *)
(*                                                                          *)
(* A path is absolute, a sequence of bytes.  fs maps the paths that exist   *)
(* to inodes; an inode is a record of what lstat, readlink and the xattr    *)
(* calls return, plus the lines of a filter file.                           *)
(***************************************************************************)
EXTENDS FlistCodec

CONSTANTS
    Scenarios,  \* the file systems, sources and options to scan with
    CVS_EXCLUDE_PATTERNS,
    MaxLinks,   \* the symbolic links a path may go through (ELOOP)
    MaxVanish   \* paths that vanish during a scan

VARIABLES
    sc,         \* the scenario
    fs,         \* the paths that exist now
    phase,      \* "scan", "send" when the list is complete, "failed"
    src,        \* sources (or lines of --files-from) still to scan
    stack,      \* the directories being collected, innermost last
    rules,      \* FilterRuleList::rules
    scopes,     \* FilterRuleList::scope_stack
    list        \* the entries collected

scanVars == <<sc, fs, phase, src, stack, rules, scopes, list>>

Sorted(set, Less(_, _)) == SortSeq(FoldSet(LAMBDA x, seq : Append(seq, x), <<>>, set), Less)

Root == <<Slash>>
FilterFile == <<46, 114, 115, 121, 110, 99, 45, 102, 105, 108, 116, 101, 114>>
Join(dir, name) == IF dir = Root THEN Root \o name ELSE dir \o <<Slash>> \o name
ParentOf(path) == SubSeq(path, 1, Max({1, Len(path) - Len(Basename(path)) - 1}))
HasParent(name) == Has(name, Slash)
Dirname(name) == SubSeq(name, 1, Len(name) - Len(Basename(name)) - 1)

-----------------------------------------------------------------------------
\* The kernel's path resolution.

NoPath == [ok |-> FALSE, path |-> <<>>, links |-> 0]

RECURSIVE Resolve(_, _, _)
Resolve(path, links, follow) ==
    LET up == Resolve(ParentOf(path), links, TRUE)
        here == Join(up.path, Basename(path))
    IN IF path = Root THEN [ok |-> TRUE, path |-> Root, links |-> links]
       ELSE IF ~up.ok \/ here \notin DOMAIN fs THEN NoPath
       ELSE IF follow /\ Type(fs[here].mode) = S_IFLNK
       THEN IF up.links >= MaxLinks THEN NoPath ELSE Resolve(fs[here].target, up.links + 1, TRUE)
       ELSE [ok |-> TRUE, path |-> here, links |-> up.links]

lstat(path) == Resolve(path, 0, FALSE)
stat(path) == Resolve(path, 0, TRUE)
Inode(at) == fs[at.path]
IsDirectory(at) == at.ok /\ Type(Inode(at).mode) = S_IFDIR

\* The children of a directory, by name.
read_dir(at) ==
    LET names == {Basename(p) : p \in {p \in DOMAIN fs : p # Root /\ ParentOf(p) = at.path}}
        Before(a, b) == LET n == common_prefix_len(a, b)
                        IN n = Len(a) \/ (n < Len(b) /\ a[n + 1] < b[n + 1])
    IN Sorted(names, Before)

-----------------------------------------------------------------------------
\* Entries.

\* compute_entry_name: the last component, or the path behind "/./" or its first slash.
compute_entry_name(path, relative) ==
    LET marks == {i \in 1..(Len(path) - 2) : SubSeq(path, i, i + 2) = <<Slash, Dot, Slash>>}
    IN IF ~relative THEN Basename(path)
       ELSE IF marks # {} THEN From(path, Min(marks) + 3)
       ELSE IF path[1] = Slash THEN Tail(path) ELSE path

to_file_entry(n, name) ==
    [name |-> name, len |-> n.len, mtime |-> n.mtime, nsec |-> n.nsec, mode |-> n.mode, uid |-> n.uid,
     gid |-> n.gid, rdev |-> n.rdev, target |-> <<>>, checksum |-> <<>>, acl |-> <<>>, xattrs |-> <<>>,
     linkOf |-> <<>>, inode |-> <<n.dev, n.ino>>, nlink |-> IF Type(n.mode) = S_IFREG THEN n.nlink ELSE 1]

\* What the enrichers read at the moment they run; a path that is gone yields nothing.
SymlinkTarget(e, path) == IF lstat(path).ok THEN Inode(lstat(path)).target ELSE <<>>
AclOf(e, at) ==
    IF ~at.ok \/ Inode(at).acl = <<>> THEN <<>>
    ELSE <<parse_posix_acl_binary(Inode(at).acl),
           IF Type(e.mode) # S_IFDIR \/ Inode(at).default = <<>> THEN <<>>
           ELSE <<parse_posix_acl_binary(Inode(at).default)>>>>
should_skip(x) == x.space \in {"system", "user.rsync.%"}
XattrsOf(at) ==
    LET kept == IF at.ok THEN SelectSeq(Inode(at).xattrs, LAMBDA x : ~should_skip(x)) ELSE <<>>
        named == {[name |-> Append(kept[i].name, 0), value |-> kept[i].value] : i \in DOMAIN kept}
    IN Sorted(named, LAMBDA a, b : a.name[1] < b.name[1])

Enrich(e, path) ==
    LET isLink == Type(e.mode) = S_IFLNK
        at == stat(path)
        on == sc.caller \in {"local", "client"}
    IN [e EXCEPT !.target = IF on /\ isLink /\ ~sc.copyLinks THEN SymlinkTarget(e, path) ELSE <<>>,
                 !.acl = IF on /\ ~isLink /\ sc.opts.acls THEN AclOf(e, at) ELSE <<>>,
                 !.xattrs = IF on /\ ~isLink /\ sc.opts.xattrs THEN XattrsOf(at) ELSE <<>>]

\* With -L the metadata is that of the link's target.
Stat(path) == IF sc.copyLinks THEN stat(path) ELSE lstat(path)

-----------------------------------------------------------------------------
\* The rules of the command line, or of the daemon's module, which knows no files and no -C.
Built == from_options(sc.excludes, sc.includes, sc.filters, sc.includeFrom, sc.excludeFrom)
CommandRules == IF sc.cvs THEN add_cvs_excludes(Built.rules, CVS_EXCLUDE_PATTERNS) ELSE Built.rules

Init ==
    /\ sc \in Scenarios
    /\ fs = sc.fs
    /\ rules = CommandRules
    /\ phase = IF Built.ok THEN "scan" ELSE "failed"
    /\ src = sc.sources
    /\ stack = <<>> /\ scopes = <<>> /\ list = <<>>

Top == Last(stack)
Frame(path, name, dev) == [path |-> path, name |-> name, dev |-> dev, step |-> "enter", merged |-> FALSE, todo |-> <<>>]
Fail == phase' = "failed" /\ UNCHANGED <<sc, fs, src, stack, rules, scopes, list>>

\* What a source adds: a frame for a directory that is descended into, or entries.
ListSource(entries) == list' = list \o entries /\ UNCHANGED stack
DescendSource(path, name, dev) ==
    stack' = <<Frame(path, IF sc.relative THEN name ELSE <<>>, dev)>> /\ UNCHANGED list
SourceReady(caller) ==
    phase = "scan" /\ stack = <<>> /\ src # <<>> /\ sc.caller = caller /\ (Stat(Head(src)).ok \/ sc.copyLinks)

\* scan: a directory source is not filtered; a broken link is left out with -L.
ScanSource ==
    LET path == Head(src)
        at == Stat(path)
        n == Inode(at)
        name == compute_entry_name(path, sc.relative)
    IN /\ SourceReady("local")
       /\ src' = Tail(src)
       /\ CASE ~at.ok -> ListSource(<<>>)
            [] IsDirectory(at) /\ sc.dirMode = "Recurse" ->
                 DescendSource(path, name, IF sc.oneFs THEN <<n.dev>> ELSE <<>>)
            [] IsDirectory(at) /\ sc.dirMode = "List" -> ListSource(<<to_file_entry(n, name)>>)
            [] ~IsDirectory(at) /\ is_included(rules, name, FALSE) ->
                 ListSource(<<Enrich(to_file_entry(n, name), path)>>)
            [] OTHER -> ListSource(<<>>)
       /\ UNCHANGED <<sc, fs, phase, rules, scopes>>

\* scan_entries: the same for the client of a session, on all file systems.
ScanEntriesSource ==
    LET path == Head(src)
        at == Stat(path)
        name == compute_entry_name(path, sc.relative)
        kept == at.ok /\ (IsDirectory(at) \/ is_included(rules, name, FALSE))
    IN /\ SourceReady("client")
       /\ src' = Tail(src)
       /\ IF kept /\ IsDirectory(at) /\ sc.dirMode = "Recurse" THEN DescendSource(path, name, <<>>)
          ELSE ListSource(IF ~kept THEN <<>>
                              ELSE IF IsDirectory(at) THEN <<to_file_entry(Inode(at), name)>>
                              ELSE <<Enrich(to_file_entry(Inode(at), name), path)>>)
       /\ UNCHANGED <<sc, fs, phase, rules, scopes>>

\* scan_directory: the daemon's module; without recursion its files, and a module
\* that is a file is not filtered.
ScanDirectory ==
    LET path == Head(src)
        at == lstat(path)
        kids == SelectSeq(read_dir(at), LAMBDA c : Type(fs[Join(at.path, c)].mode) # S_IFDIR
                                                   /\ is_included(rules, c, FALSE))
    IN /\ SourceReady("server")
       /\ src' = Tail(src)
       /\ CASE IsDirectory(at) /\ sc.dirMode = "Recurse" -> DescendSource(path, <<>>, <<>>)
            [] IsDirectory(at) /\ sc.dirMode # "Recurse" ->
                 ListSource(<<to_file_entry(Inode(at), <<Dot>>)>>
                                \o [i \in DOMAIN kids |-> to_file_entry(fs[Join(at.path, kids[i])], kids[i])])
            [] OTHER -> ListSource(<<to_file_entry(Inode(at), Basename(path))>>)
       /\ UNCHANGED <<sc, fs, phase, rules, scopes>>

SourceMissing ==
    /\ phase = "scan" /\ stack = <<>> /\ src # <<>> /\ sc.caller # "filesFrom"
    /\ ~sc.copyLinks /\ ~lstat(Head(src)).ok
    /\ Fail

\* A line of --files-from, under the first source; a missing file is left out.
NextLine ==
    LET at == lstat(Join(sc.base, Head(src)))
    IN /\ phase = "scan" /\ sc.caller = "filesFrom" /\ src # <<>>
       /\ src' = Tail(src)
       /\ list' = list \o IF at.ok /\ is_included(rules, Head(src), FALSE)
                          THEN <<to_file_entry(Inode(at), Head(src))>> ELSE <<>>
       /\ UNCHANGED <<sc, fs, phase, stack, rules, scopes>>

\* push_filter_scope: the rules of the directory's filter file are in force below it.
FilterLines(dir) == fs[stat(Join(dir, FilterFile)).path].lines
Merges(dir) == sc.caller \in {"local", "client"} /\ sc.merge > 0 /\ stat(Join(dir, FilterFile)).ok

\* collect_directory up to read_dir: another file system is left out with all below it.
EnterDir ==
    LET at == Stat(Top.path)
        self == to_file_entry(Inode(at), IF Top.name = <<>> THEN <<Dot>> ELSE Top.name)
        dev == stat(Top.path)
        merged == merge_filter_file(rules, FilterLines(Top.path))
        hide == [action |-> "Exclude", text |-> FilterFile]
        below == Merges(Top.path)
    IN /\ phase = "scan" /\ stack # <<>> /\ Top.step = "enter"
       /\ ~(Top.dev # <<>> /\ dev.ok /\ Inode(dev).dev # Top.dev[1])
       /\ at.ok
       /\ list' = Append(list, Enrich(self, Top.path))
       /\ rules' = IF below THEN IF sc.merge >= 2 THEN Append(merged, Rule(hide)) ELSE merged ELSE rules
       /\ scopes' = IF below THEN Append(scopes, Len(rules)) ELSE scopes
       /\ stack' = [stack EXCEPT ![Len(stack)] = [@ EXCEPT !.step = "read", !.merged = below]]
       /\ UNCHANGED <<sc, fs, phase, src>>

OtherFileSystem ==
    /\ phase = "scan" /\ stack # <<>> /\ Top.step = "enter"
    /\ Top.dev # <<>> /\ stat(Top.path).ok /\ Inode(stat(Top.path)).dev # Top.dev[1]
    /\ stack' = Front(stack)
    /\ UNCHANGED <<sc, fs, phase, src, rules, scopes, list>>

\* The directory itself has vanished since its parent was read.
DirMissing ==
    /\ phase = "scan" /\ stack # <<>>
    /\ \/ Top.step = "enter" /\ ~Stat(Top.path).ok
       \/ Top.step = "read" /\ ~IsDirectory(stat(Top.path))
    /\ Fail

\* read_dir returns each child with its lstat metadata.
ReadDir ==
    LET at == stat(Top.path)
        kids == read_dir(at)
    IN /\ phase = "scan" /\ stack # <<>> /\ Top.step = "read" /\ IsDirectory(at)
       /\ stack' = [stack EXCEPT ![Len(stack)] =
                      [@ EXCEPT !.step = "children",
                                !.todo = [i \in DOMAIN kids |-> [name |-> kids[i], inode |-> fs[Join(at.path, kids[i])]]]]]
       /\ UNCHANGED <<sc, fs, phase, src, rules, scopes, list>>

NextChild ==
    LET child == Head(Top.todo)
        name == IF Top.name = <<>> THEN child.name ELSE Top.name \o <<Slash>> \o child.name
        path == Join(Top.path, child.name)
        at == stat(path)
        gone == sc.copyLinks /\ ~at.ok
        n == IF sc.copyLinks /\ at.ok THEN Inode(at) ELSE child.inode
        isDir == Type(n.mode) = S_IFDIR
        skip == gone \/ ~is_included(rules, name, isDir)
        popped == [stack EXCEPT ![Len(stack)].todo = Tail(@)]
    IN /\ phase = "scan" /\ stack # <<>> /\ Top.step = "children" /\ Top.todo # <<>>
       /\ stack' = IF ~skip /\ isDir THEN Append(popped, Frame(path, name, Top.dev)) ELSE popped
       /\ list' = IF skip \/ isDir THEN list ELSE Append(list, Enrich(to_file_entry(n, name), path))
       /\ UNCHANGED <<sc, fs, phase, src, rules, scopes>>

\* Mutant: the scope of a directory's rules is not ended.
LeaveDir_keepsScope ==
    /\ phase = "scan" /\ stack # <<>> /\ Top.step = "children" /\ Top.todo = <<>>
    /\ stack' = Front(stack)
    /\ UNCHANGED <<sc, fs, phase, src, rules, scopes, list>>

\* Mutant: an empty directory is read again.
LeaveDir_rereadsEmpty ==
    /\ phase = "scan" /\ stack # <<>> /\ Top.step = "children" /\ Top.todo = <<>>
    /\ stack' = IF Len(list) > 0 /\ Last(list).name = Top.name
                THEN [stack EXCEPT ![Len(stack)].step = "read"] ELSE Front(stack)
    /\ rules' = IF Top.merged THEN SubSeq(rules, 1, Last(scopes)) ELSE rules
    /\ scopes' = IF Top.merged THEN Front(scopes) ELSE scopes
    /\ UNCHANGED <<sc, fs, phase, src, list>>

LeaveDir ==
    /\ phase = "scan" /\ stack # <<>> /\ Top.step = "children" /\ Top.todo = <<>>
    /\ stack' = Front(stack)
    /\ rules' = IF Top.merged THEN SubSeq(rules, 1, Last(scopes)) ELSE rules
    /\ scopes' = IF Top.merged THEN Front(scopes) ELSE scopes
    /\ UNCHANGED <<sc, fs, phase, src, list>>

\* HardLinkGrouper (local transfers with -H): the later names of an inode point to the first.
finalize(entries) ==
    LET Firsts(i) == {j \in 1..(i - 1) : entries[j].inode = entries[i].inode /\ entries[j].nlink > 1}
    IN IF sc.caller # "local" \/ ~sc.opts.hardLinks THEN entries
       ELSE [i \in DOMAIN entries |->
               IF entries[i].nlink > 1 /\ Firsts(i) # {}
               THEN [entries[i] EXCEPT !.linkOf = entries[Min(Firsts(i))].name] ELSE entries[i]]

ScanDone ==
    /\ phase = "scan" /\ stack = <<>> /\ src = <<>>
    /\ phase' = "send"
    /\ list' = finalize(list)
    /\ UNCHANGED <<sc, fs, src, stack, rules, scopes>>

\* Another process removes a file or a tree while the scan runs.
Below(dir, p) == p = dir \/ IsPrefix(dir \o <<Slash>>, p)
Vanish(p) ==
    /\ phase = "scan" /\ p \in DOMAIN fs \ {Root}
    /\ Cardinality(DOMAIN sc.fs \ DOMAIN fs) < sc.vanish
    /\ fs' = [q \in {q \in DOMAIN fs : ~Below(p, q)} |-> fs[q]]
    /\ UNCHANGED <<sc, phase, src, stack, rules, scopes, list>>

\* A child removed between readdir and its lstat makes the whole read_dir fail.
ReadDirRaces ==
    /\ phase = "scan" /\ stack # <<>> /\ Top.step = "read"
    /\ Cardinality(DOMAIN sc.fs \ DOMAIN fs) < sc.vanish
    /\ IsDirectory(stat(Top.path)) /\ read_dir(stat(Top.path)) # <<>>
    /\ Fail

Scan ==
    \/ ScanSource \/ ScanEntriesSource \/ ScanDirectory \/ SourceMissing \/ NextLine \/ EnterDir \/ OtherFileSystem \/ DirMissing
    \/ ReadDir \/ NextChild \/ LeaveDir \/ ScanDone \/ ReadDirRaces

-----------------------------------------------------------------------------
\* The scan against what the rules mean.

\* The name of a path below a source.
Label(top, p) ==
    LET base == IF sc.relative \/ Type(sc.fs[top].mode) # S_IFDIR THEN compute_entry_name(top, sc.relative) ELSE <<>>
        rest == From(p, Len(top) + 2)
    IN IF p = top THEN IF base = <<>> THEN <<Dot>> ELSE base
       ELSE IF base = <<>> THEN rest ELSE base \o <<Slash>> \o rest

\* The rules in force in a directory: the command line's, then each filter file's from the source down.
RulesIn(top, dir) ==
    LET chain == Sorted({d \in DOMAIN sc.fs : Below(top, d) /\ Below(d, dir)}, LAMBDA a, b : Len(a) < Len(b))
        Add(rs, d) == IF sc.caller = "server" \/ sc.merge = 0 \/ Join(d, FilterFile) \notin DOMAIN sc.fs THEN rs
                      ELSE merge_filter_file(rs, sc.fs[Join(d, FilterFile)].lines)
                           \o IF sc.merge >= 2 THEN <<Rule([action |-> "Exclude", text |-> FilterFile])>> ELSE <<>>
    IN FoldLeft(Add, CommandRules, chain)

\* A path is wanted when the path and every directory above it, up to the source, is allowed.
Wanted(top, p) ==
    \A q \in {q \in DOMAIN sc.fs : (q = top => Type(sc.fs[q].mode) # S_IFDIR) /\ Below(top, q) /\ Below(q, p)} :
        LET isDir == Type(sc.fs[q].mode) = S_IFDIR
        IN /\ Allowed(RulesIn(top, ParentOf(q)), Label(top, q), isDir)
           /\ isDir /\ sc.oneFs /\ sc.caller = "local" => sc.fs[q].dev = sc.fs[top].dev

WantedNames(world) ==
    UNION {{Label(top, p) : p \in {p \in world : Below(top, p) /\ Wanted(top, p)}} : top \in ToSet(sc.sources)}

Names(entries) == {entries[i].name : i \in DOMAIN entries}

\* A scan that succeeds lists what the rules allow and nothing else: nothing below an excluded
\* directory or another file system, each filter file in force exactly below its directory, and
\* everything that did not vanish meanwhile (scanner.rs collect_directory, push_filter_scope).
ListIsWanted ==
    phase = "send" /\ sc.dirMode = "Recurse" /\ ~sc.copyLinks /\ sc.caller # "filesFrom"
      => /\ Names(list) \subseteq WantedNames(DOMAIN sc.fs)
         /\ WantedNames(DOMAIN fs) \subseteq Names(list)
=============================================================================
