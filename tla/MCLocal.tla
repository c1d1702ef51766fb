------------------------------- MODULE MCLocal -------------------------------
(* Small trees and the commands to give over them.                             *)
EXTENDS Local

Old == 1
Mid == 2

D1 == <<"d">>
A == <<"a">>
B == <<"b">>
DX == <<"d", "x">>
DY == <<"d", "y">>
F1 == <<"f">>
L == <<"l">>

Order == <<A, B, D1, DX, DY, F1, L>>

\* A tree: names with their nodes; names that share an id share the node.
Dir == [kind |-> "dir", mtime |-> Old]
Link(parts) == [kind |-> "link", target |-> [absolute |-> FALSE, parts |-> parts], mtime |-> Old]

Tree(name, node) == [name |-> name, node |-> node]

Roots == (<<"src">> :> 1) @@ (<<"dst">> :> 2) @@ (<<"alt">> :> 3)

RootNodes == (1 :> Dir) @@ (2 :> Dir) @@ (3 :> Dir)

\* Sources: two files, one of them empty; a directory; a link; hard links.
Plain == Tree((Src(A) :> 10) @@ (Src(B) :> 11) @@ (Src(D1) :> 12) @@ (Src(DX) :> 13) @@ (Src(F1) :> 15) @@ (Src(L) :> 14),
              (10 :> File(<<1, 2, 3>>, Mid)) @@ (11 :> File(<<>>, Mid)) @@ (12 :> Dir)
                @@ (13 :> File(<<1, 2>>, Mid)) @@ (15 :> Dir) @@ (14 :> Link(<<"n", "..", "m">>)))

Linked == Tree((Src(A) :> 10) @@ (Src(B) :> 10) @@ (Src(D1) :> 12) @@ (Src(DX) :> 10) @@ (Src(L) :> 14),
               (10 :> File(<<1, 2, 3>>, Mid)) @@ (12 :> Dir) @@ (14 :> Link(<<"..", "n">>)))

\* A file long enough to be streamed, with a second name.
Large == Tree((Src(A) :> 10) @@ (Src(B) :> 10) @@ (Src(D1) :> 12) @@ (Src(DX) :> 13),
              (10 :> File(<<1, 2, 3, 4>>, Mid)) @@ (12 :> Dir) @@ (13 :> File(<<1, 2>>, Mid)))

Hollow == Tree((Src(A) :> 10) @@ (Src(B) :> 10), 10 :> File(<<>>, Mid))

\* Destinations: none, files of the source's size or shorter, other names,
\* nodes of another kind, two names of one node.
Nothing == Tree(<<>>, <<>>)
Stale == Tree((Dst(A) :> 20) @@ (Dst(B) :> 21) @@ (Dst(D1) :> 22) @@ (Dst(DX) :> 23) @@ (Dst(L) :> 24),
              (20 :> File(<<1, 2>>, Old)) @@ (21 :> File(<<9>>, Old)) @@ (22 :> Dir)
                @@ (23 :> File(<<2, 2>>, Old)) @@ (24 :> File(<<5>>, Now)))
Differing == Tree((Dst(A) :> 20) @@ (Dst(B) :> 21) @@ (Dst(D1) :> 22) @@ (Dst(DX) :> 23),
                  (20 :> File(<<4>>, Mid)) @@ (21 :> File(<<>>, Mid)) @@ (22 :> Dir) @@ (23 :> File(<<2, 2>>, Mid)))
Crowded == Tree((Dst(<<"e">>) :> 20) @@ (Dst(<<"k">>) :> 21) @@ (Dst(D1) :> 22) @@ (Dst(DY) :> 23)
                  @@ (Dst(<<"d", "k">>) :> 24) @@ (Dst(<<"d", "e">>) :> 25) @@ (Dst(<<"d", "e", "e">>) :> 26)
                  @@ (Dst(<<"g">>) :> 27) @@ (Dst(F1) :> 28) @@ (Dst(<<"f", "e">>) :> 29) @@ (Dst(DX) :> 30),
                (20 :> File(<<1>>, Old)) @@ (21 :> File(<<1>>, Old)) @@ (22 :> Dir) @@ (23 :> File(<<7>>, Old))
                  @@ (24 :> File(<<1>>, Old)) @@ (25 :> Dir) @@ (26 :> Dir) @@ (27 :> Dir) @@ (28 :> Dir) @@ (29 :> File(<<1>>, Old))
                  @@ (30 :> File(<<3>>, Old)))
Clashing == Tree((Dst(A) :> 20) @@ (Dst(D1) :> 21), (20 :> Dir) @@ (21 :> File(<<1>>, Old)))
Blocked(name) == Tree(Dst(name) :> 20, 20 :> Dir)
Joined == Tree((Dst(A) :> 20) @@ (Dst(B) :> 20) @@ (Dst(L) :> 21), (20 :> File(<<1>>, Old)) @@ (21 :> Dir))

\* The alternate destination: a file like the source's, one that only looks so.
AltTree == Tree((<<"alt", "a">> :> 30) @@ (<<"alt", "d">> :> 31) @@ (<<"alt", "d", "x">> :> 32),
                (30 :> File(<<1, 2, 3>>, Mid)) @@ (31 :> Dir) @@ (32 :> File(<<8, 8>>, Mid)))

Fs(source, dest, alt) ==
  [room |-> Ample,
   name |-> source.name @@ dest.name @@ alt.name @@ Roots,
   node |-> source.node @@ dest.node @@ alt.node @@ RootNodes]

------------------------------------------------------------------------------

Usual == {"times", "preserve_links"}

Command(flags) ==
  [flags |-> Usual \cup flags, delete |-> "None", max_delete |-> <<>>, modify_window |-> 0,
   max_size |-> <<>>, min_size |-> <<>>, compare_dest |-> <<>>, link_dest |-> <<>>, copy_dest |-> <<>>,
   backup_dir |-> <<>>, suffix |-> "~", partial_dir |-> <<>>]

Dry(c) == [c EXCEPT !.flags = @ \cup {"dry_run"}]

Twice(c) == <<c, c>>

\* How files are compared and written.
Modes == {{}, {"whole_file"}, {"checksum"}, {"append"}, {"append_verify"}, {"inplace"}, {"sparse", "hard_links"},
          {"update"}, {"size_only"}, {"ignore_times"}, {"existing"}, {"ignore_existing"}, {"backup"},
          {"hard_links"}, {"hard_links", "checksum"}, {"remove_source_files"}, {"remove_source_files", "hard_links"},
          {"safe_links"}, {"checksum", "append"}, {"timeout", "bwlimit"}, {"list_only"}, {"prune_empty_dirs"}}

Writing == {Command(m) : m \in Modes}
           \cup {[Command({"backup"}) EXCEPT !.backup_dir = <<<<"bak">>>>, !.suffix = ""],
                 [Command({}) EXCEPT !.partial_dir = <<<<"part">>>>],
                 [Command({"remove_source_files"}) EXCEPT !.partial_dir = <<<<"part">>>>],
                 [Command({"hard_links"}) EXCEPT !.max_size = <<2>>], [Command({}) EXCEPT !.min_size = <<3>>],
                 [Command({}) EXCEPT !.modify_window = 1],
                 [Command({"hard_links", "backup"}) EXCEPT !.delete = "After"]}

Deleting == {[Command(f) EXCEPT !.delete = mode, !.max_delete = max] :
               f \in {{}, {"prune_empty_dirs"}}, mode \in {"Before", "During", "After", "Excluded"},
               max \in {<<>>, <<0>>, <<1>>, <<2>>}}

AltDests == {[Command(f) EXCEPT !.compare_dest = c, !.link_dest = l, !.copy_dest = d] :
               f \in {{}, {"ignore_times"}, {"hard_links"}}, c \in {<<>>, <<"alt">>}, l \in {<<>>, <<"none", "alt">>},
               d \in {<<>>, <<"alt">>}}

Streaming == {Command(f) : f \in {{}, {"whole_file"}, {"hard_links"}, {"backup"}, {"inplace"}, {"remove_source_files"}}}
             \cup {[Command({"remove_source_files"}) EXCEPT !.partial_dir = <<<<"part">>>>]}

NoRules == [base |-> {}, path |-> {}]
Rules == [base |-> {"k"}, path |-> {DX, <<"e">>}]

Scenario(f, rules, runs, live, same) ==
  [fs |-> f, order |-> Order, excludes |-> rules, runs |-> runs, live |-> live, rewrite |-> <<6, 6>>,
   sameDevice |-> same, setsTimes |-> TRUE]

Timeless(scenario) == [scenario EXCEPT !.setsTimes = FALSE]

Runs(c) == {Twice(c), <<Dry(c), c>>}

MCScenarios ==
  {Scenario(Fs(s, d, Nothing), NoRules, r, FALSE, TRUE) :
     s \in {Plain, Linked}, d \in {Nothing, Stale, Differing, Clashing, Joined}, r \in UNION {Runs(c) : c \in Writing}}
  \cup {Scenario(Fs(s, d, Nothing), NoRules, Twice(c), TRUE, TRUE) :
     s \in {Plain, Linked}, d \in {Stale, Nothing},
     c \in {Command({}), Command({"timeout", "bwlimit"}), Command({"remove_source_files"}), Command({"checksum"}), Command({"append_verify"})}}
  \cup {Scenario([Fs(Plain, d, AltTree) EXCEPT !.room = room], NoRules, Twice(c), FALSE, TRUE) :
     d \in {Stale, Differing}, room \in 0..2,
     c \in Writing \cup {[Command(f) EXCEPT !.copy_dest = <<"alt">>] : f \in {{}, {"inplace"}}}}
  \cup {Scenario(Fs(Plain, Crowded, Nothing), x, r, FALSE, TRUE) : x \in {NoRules, Rules}, r \in UNION {Runs(c) : c \in Deleting}}
  \cup {Scenario(Fs(s, d, AltTree), NoRules, r, FALSE, same) :
     s \in {Plain, Linked}, d \in {Nothing, Stale}, r \in UNION {Runs(c) : c \in AltDests}, same \in BOOLEAN}
  \cup {Scenario([Fs(Large, d, Nothing) EXCEPT !.room = room], NoRules, Twice(c), FALSE, TRUE) :
     d \in {Nothing, Stale, Blocked(A), Blocked(B)}, room \in {0, 3, Ample}, c \in Streaming}
  \cup {Scenario(Fs(Hollow, d, Nothing), NoRules, Twice(Command({"hard_links", "checksum"})), FALSE, TRUE) : d \in {Nothing, Stale}}
  \cup {Timeless(Scenario(Fs(s, d, Nothing), NoRules, Twice(c), FALSE, TRUE)) :
     s \in {Plain, Linked}, d \in {Nothing, Stale}, c \in {Command({}), Command({"hard_links", "backup"}), Command({"remove_source_files"})}}
==============================================================================
