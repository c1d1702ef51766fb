----------------------------- MODULE MCFileList -----------------------------
(***************************************************************************)
(* Small trees and the options to list them with.  Names are bytes: letters *)
(* from 97.                                                                  *)
(***************************************************************************)
EXTENDS FileList

CONSTANTS LongDir, LongFile  \* lengths of long names

Path(names) == FlattenSeq([i \in DOMAIN names |-> <<Slash>> \o names[i]])
S == <<115>>
A == <<97>>
B == <<98>>
C == <<99>>
D == <<100>>
DotC == <<100, 46, 99>>
X == <<120>>
Y == <<121>>
L == <<108>>

File(t, ino) ==
    [mode |-> 4096 * S_IFREG + 420, len |-> <<t, t, 0, 0, 0, 0, 0, 0>>, mtime |-> <<t, 1, 2, 3, 0, 0, 0, 0>>,
     nsec |-> t, uid |-> t % 3, gid |-> 0, rdev |-> 0, dev |-> 1, ino |-> ino, nlink |-> 1, target |-> <<>>,
     acl |-> <<>>, default |-> <<>>, xattrs |-> <<>>, lines |-> <<>>]
Dir(t, ino) == [File(t, ino) EXCEPT !.mode = 4096 * S_IFDIR + 493]
Link(to, ino) == [File(0, ino) EXCEPT !.mode = 4096 * S_IFLNK + 511, !.target = to]
Device(rdev, ino) == [File(1, ino) EXCEPT !.mode = 4096 * 6 + 384, !.rdev = rdev]
Fifo(ino) == [File(1, ino) EXCEPT !.mode = 4096 + 384]

Tree == (Path(<<S>>) :> Dir(1, 1)) @@ (Path(<<S, B>>) :> File(0, 2)) @@ (Path(<<S, D>>) :> Dir(1, 3))
        @@ (Path(<<S, D, X>>) :> File(2, 4)) @@ (Path(<<S, D, C>>) :> Dir(2, 5))
        @@ (Path(<<S, D, C, Y>>) :> File(2, 6)) @@ (Path(<<S, D, Y>>) :> File(2, 7))
        @@ (Path(<<S, DotC>>) :> Dir(3, 8)) @@ (Path(<<S, DotC, A>>) :> Link(Path(<<S, B>>), 9))

\* Devices, equal and different in their major number, fifos, two names of one inode.
Nodes == (Path(<<S>>) :> Dir(1, 1)) @@ (Path(<<S, A>>) :> Device(256 * 8 + 1, 2)) @@ (Path(<<S, B>>) :> Device(256 * 8 + 2, 3))
         @@ (Path(<<S, C>>) :> Device(256 * 9 + 2, 4)) @@ (Path(<<S, D>>) :> Fifo(5)) @@ (Path(<<S, L>>) :> Fifo(6))
Twins == (Path(<<S>>) :> Dir(1, 1)) @@ (Path(<<S, A>>) :> [File(1, 2) EXCEPT !.nlink = 2])
         @@ (Path(<<S, B>>) :> [File(1, 2) EXCEPT !.nlink = 2]) @@ (Path(<<S, C>>) :> [File(1, 3) EXCEPT !.nlink = 2])
         @@ (Path(<<S, D>>) :> Dir(1, 4)) @@ (Path(<<S, D, X>>) :> [File(0, 5) EXCEPT !.nlink = 2])
         @@ (Path(<<S, D, Y>>) :> [File(0, 5) EXCEPT !.nlink = 2])

\* Two names of one inode in two directories.
Parted == (Path(<<S>>) :> Dir(1, 1)) @@ (Path(<<S, A>>) :> [File(1, 2) EXCEPT !.nlink = 2]) @@ (Path(<<S, D>>) :> Dir(1, 3))
          @@ (Path(<<S, D, X>>) :> [File(1, 2) EXCEPT !.nlink = 2]) @@ (Path(<<S, D, Y>>) :> File(0, 4))

\* ACLs and attributes: equal ones, different ones, none.
Ace(tag, perm, id) == [tag |-> tag, perm |-> perm, id |-> id]
AclA == <<Ace("USER_OBJ", 6, 0), Ace("USER", 4, 300), Ace("GROUP_OBJ", 4, 0), Ace("MASK", 6, 0), Ace("OTHER", 0, 0)>>
AclB == <<Ace("USER_OBJ", 6, 0), Ace("GROUP_OBJ", 4, 0), Ace("GROUP", 7, 1), Ace("OTHER", 0, 0)>>
XA == [space |-> "user", name |-> A, value |-> <<1, 0>>]
XB == [space |-> "user", name |-> B, value |-> <<>>]
XS == [space |-> "system", name |-> C, value |-> <<7>>]
XR == [space |-> "user.rsync.%", name |-> D, value |-> <<7>>]
XT == [space |-> "security", name |-> C, value |-> <<7>>]
Guarded == (Path(<<S>>) :> [Dir(1, 1) EXCEPT !.acl = AclA, !.default = AclB, !.xattrs = <<XB, XS, XT, XR, XA>>])
           @@ (Path(<<S, A>>) :> [File(1, 2) EXCEPT !.acl = AclA])
           @@ (Path(<<S, B>>) :> [File(1, 3) EXCEPT !.acl = AclB, !.xattrs = <<XB>>])
           @@ (Path(<<S, C>>) :> [File(0, 4) EXCEPT !.xattrs = <<XA, XB>>])
           @@ (Path(<<S, D>>) :> [Dir(1, 5) EXCEPT !.default = AclA])

Inheriting == (Path(<<S>>) :> [Dir(1, 1) EXCEPT !.acl = AclA, !.default = AclB]) @@ (Path(<<S, D>>) :> [Dir(1, 2) EXCEPT !.acl = AclB])
              @@ (Path(<<S, D, C>>) :> [Dir(1, 3) EXCEPT !.acl = <<Ace("USER_OBJ", 7, 0)>>, !.default = AclB])

LongD == [i \in 1..LongDir |-> 101]
LongF(c) == Append([i \in 1..LongFile |-> 102], c)
Long == (Path(<<S>>) :> Dir(1, 1)) @@ (Path(<<S, LongD>>) :> Dir(1, 2)) @@ (Path(<<S, LongD, LongF(97)>>) :> File(1, 3))
        @@ (Path(<<S, LongD, LongF(98)>>) :> File(2, 4)) @@ (Path(<<S, X>>) :> Dir(1, 5))

\* A file dated before 1970.
Old == (Path(<<S>>) :> Dir(1, 1)) @@ (Path(<<S, B>>) :> [File(1, 2) EXCEPT !.mtime = [i \in 1..8 |-> 255]])

\* A filter file in d excludes x there and below; the other directories keep theirs.
Line(action, text) == [action |-> action, text |-> text]
Merging == Tree @@ (Path(<<S, D, FilterFile>>) :> [File(1, 20) EXCEPT !.lines = <<Line("Exclude", Y), Line("Neither", X)>>])
           @@ (Path(<<S, DotC, Y>>) :> File(1, 21))
\* A loop of links, a broken one, a directory on another file system.
Looping == (Path(<<S>>) :> Dir(1, 1)) @@ (Path(<<S, A>>) :> Link(Path(<<S>>), 2)) @@ (Path(<<S, B>>) :> File(1, 3))
           @@ (Path(<<S, L>>) :> Link(Path(<<X>>), 4))
Mounted == [Tree EXCEPT ![Path(<<S, D>>)].dev = 2, ![Path(<<S, D, X>>)].dev = 2]
Other == Tree @@ (Path(<<X>>) :> Dir(1, 30)) @@ (Path(<<X, B>>) :> File(1, 31)) @@ (Path(<<X, A>>) :> Dir(0, 32))

-----------------------------------------------------------------------------
Options(version, varintFlags, inc) ==
    [wire |-> WireFormat(version, varintFlags, inc), uid |-> TRUE, gid |-> TRUE, devices |-> TRUE, specials |-> TRUE,
     links |-> TRUE, hardLinks |-> FALSE, checksum |-> FALSE, checksumLen |-> 2, acls |-> FALSE, xattrs |-> FALSE,
     numericIds |-> FALSE, id0Names |-> FALSE, recursive |-> TRUE]
New == Options(31, TRUE, TRUE)
Batch == Options(31, TRUE, FALSE)
AllWires == {Options(27, FALSE, FALSE), Options(28, FALSE, FALSE), Options(29, FALSE, FALSE), Options(30, FALSE, TRUE), New, Batch}

Client == [caller |-> "client", fs |-> Tree, sources |-> <<Path(<<S>>)>>, base |-> Path(<<S>>), filters |-> <<>>,
           includes |-> <<>>, excludes |-> <<>>, includeFrom |-> <<>>, excludeFrom |-> <<>>, cvs |-> FALSE,
           dirMode |-> "Recurse", copyLinks |-> FALSE, relative |-> FALSE,
           merge |-> 0, oneFs |-> FALSE, vanish |-> 0, opts |-> New]
With(tree, opts) == [Client EXCEPT !.fs = tree, !.opts = opts]

Coding ==
    {With(tree, o) : tree \in {Tree, Nodes, Long, Old}, o \in AllWires}
    \cup {With(Twins, [o EXCEPT !.hardLinks = TRUE]) : o \in AllWires}
    \cup {With(Parted, [o EXCEPT !.hardLinks = TRUE]) : o \in {New, Batch}}
    \cup {With(Parted, [New EXCEPT !.acls = a, !.xattrs = ~a]) : a \in BOOLEAN}
    \cup {With(Inheriting, [o EXCEPT !.acls = TRUE]) : o \in {New, Batch}}
    \cup {With(Guarded, [o EXCEPT !.acls = TRUE, !.xattrs = TRUE]) : o \in {Options(30, FALSE, FALSE), New, Batch}}
    \cup {With(Tree, [o EXCEPT !.uid = u, !.gid = FALSE, !.links = FALSE, !.checksum = TRUE, !.numericIds = u]) :
            u \in BOOLEAN, o \in AllWires}
    \cup {With(Tree, [Batch EXCEPT !.id0Names = TRUE]), With(Nodes, [New EXCEPT !.specials = FALSE]),
          With(Nodes, [Options(29, FALSE, FALSE) EXCEPT !.devices = FALSE])}

\* A name with a suffix, and a directory.
CvsPatterns == << <<STAR, Dot, 99>>, Append(C, Slash) >>

\* Filter rules: a directory and what is below it, an anchored path, a directory-only
\* pattern, an include before a general exclude, wildcards, a pattern with a slash.
Stars == <<STAR, STAR>>
RuleSets ==
    {<< <<>>, <<>>, <<D>> >>, << <<>>, <<>>, <<(<<Slash>> \o X)>> >>, << <<>>, <<>>, <<Append(X, Slash)>> >>,
     << <<>>, <<B, Append(D, Slash)>>, << <<STAR>> >> >>, << <<Line("Exclude", D \o <<Slash, QUESTION>>)>>, <<>>, <<>> >>,
     << <<Line("Include", Stars \o <<Slash>> \o X), Line("Exclude", D \o <<Slash, STAR>>)>>, <<>>, <<>> >>,
     << <<Line("Exclude", <<OPEN, 97, DASH, 99, CLOSE>>)>>, <<>>, <<>> >>,
     << <<Line("Include", <<OPEN, CARET, 97, DASH, 99, CLOSE>>)>>, <<>>, << <<STAR>> >> >>}
Ruled(c, r) == [c EXCEPT !.filters = r[1], !.includes = r[2], !.excludes = r[3]]
Filtering ==
    {Ruled([Client EXCEPT !.caller = k], r) : k \in {"local", "client", "server"}, r \in RuleSets}
    \cup {[Client EXCEPT !.includeFrom = <<f>>, !.excludeFrom = << << <<D>> >>, << <<B>> >> >>, !.cvs = c, !.caller = "local"] :
             f \in {<<>>, << <<B>> >>, << << <<OPEN>>, B >> >>}, c \in BOOLEAN}
    \cup {[Client EXCEPT !.fs = Merging, !.merge = m, !.caller = k] : m \in 0..2, k \in {"local", "client", "server"}}
    \cup {[Client EXCEPT !.fs = Mounted, !.oneFs = o, !.caller = "local", !.opts = [New EXCEPT !.hardLinks = TRUE]] : o \in BOOLEAN}

Sources ==
    {[Client EXCEPT !.fs = Looping, !.copyLinks = l, !.caller = k] : l \in BOOLEAN, k \in {"local", "client"}}
    \cup {[Client EXCEPT !.sources = <<Path(<<S>>), Path(<<X>>)>>, !.fs = Other],
          [Client EXCEPT !.relative = TRUE], [Client EXCEPT !.sources = <<Path(<<S, B>>), Path(<<S, D, X>>)>>, !.excludes = <<X>>],
          [Client EXCEPT !.sources = <<Path(<<A>>)>>], [Client EXCEPT !.sources = <<Path(<<A>>)>>, !.copyLinks = TRUE],
          [Client EXCEPT !.caller = "local", !.fs = Twins, !.opts = [New EXCEPT !.hardLinks = TRUE]]}
    \cup {[Client EXCEPT !.dirMode = "List", !.caller = k, !.opts = [New EXCEPT !.recursive = FALSE],
                         !.excludes = <<B>>] : k \in {"local", "client", "server"}}
    \cup {[Client EXCEPT !.dirMode = "Skip", !.caller = "local"]}
    \cup {[Client EXCEPT !.caller = "filesFrom", !.sources = <<D \o <<Slash>> \o X, Y, B>>, !.excludes = <<Y>>,
                         !.opts = [o EXCEPT !.recursive = FALSE]] : o \in AllWires}

Racing == {[Client EXCEPT !.vanish = MaxVanish, !.caller = k] : k \in {"local", "server"}}

MCScenarios == Coding \cup Filtering \cup Sources \cup Racing

=============================================================================
