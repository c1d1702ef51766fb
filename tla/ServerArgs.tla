------------------------------ MODULE ServerArgs -----------------------------
(* From the command line to the options the server works with: the CLI flags   *)
(* become TransferOptions (ferrosync-cli/src/main.rs), the client prints them  *)
(* as `rsync --server` arguments and the server parses those arguments back    *)
(* (ferrosync-engine/src/session.rs).                                          *)
(*                                                                             *)
(* Boolean options are the members of a set, options with a value are          *)
(* sequences (empty: not given).  An argument is [k, name, v]: the condensed   *)
(* word has the sequence of its letters in v, a long option its value.         *)
EXTENDS Handshake

Preserved == {"links", "perms", "times", "group", "owner", "devices"}

\* The switches the CLI copies unchanged into the options.
Copied ==
  {"compress", "dry_run", "checksum_mode", "whole_file", "update", "inplace",
   "ignore_times", "size_only", "existing", "ignore_existing", "copy_links", "safe_links",
   "keep_dirlinks", "remove_source_files", "cvs_exclude", "one_file_system",
   "numeric_ids", "sparse", "prune_empty_dirs", "backup", "append", "append_verify",
   "relative", "list_only", "fuzzy", "hard_links", "acls", "xattrs", "fake_super"}

Valued ==
  {"block_size", "chmod", "chown", "backup_dir", "iconv", "max_delete", "modify_window",
   "partial_dir", "link_dest", "copy_dest", "compare_dest", "max_size", "min_size",
   "checksum_choice", "compress_choice"}

NoValues == [n \in Valued |-> <<>>]

\* TransferConfig::default().
DefaultOptions ==
  [on |-> {}, dir_mode |-> "Skip", verbosity |-> "Normal", delete |-> "None",
   suffix |-> "~", merge |-> 0, vals |-> NoValues]

\* The builder's and the getters' view of -r and -d: one field, three values.
Has(o, n) ==
  CASE n = "recursive" -> o.dir_mode = "Recurse"
    [] n = "dirs"      -> o.dir_mode = "List"
    [] OTHER           -> n \in o.on

With(o, n) ==
  CASE n = "recursive" -> [o EXCEPT !.dir_mode = "Recurse"]
    [] n = "dirs"      -> [o EXCEPT !.dir_mode = "List"]
    [] OTHER           -> [o EXCEPT !.on = @ \cup {n}]

Push(o, n, v) == [o EXCEPT !.vals[n] = @ \o v]

\* Options with one value: the last one given stays.
Replace(o, n, v) == [o EXCEPT !.vals[n] = v]

------------------------------------------------------------------------------
(* The command line.  flags holds the switches given; verbose counts -v.       *)

Switches ==
  Preserved \cup Copied
  \cup {"archive", "recursive", "dirs", "quiet", "progress", "stats", "itemize_changes", "partial",
        "short_partial", "delete", "delete_before", "delete_during", "delete_after",
        "delete_excluded", "batch_mode", "tls", "insecure"}

\* A command line clap accepts (--checksum carries the name of its option).
TransferFlags(f) ==
  /\ f.flags \subseteq Switches
  /\ f.verbose \in Nat /\ f.merge \in Nat
  /\ DOMAIN f.vals = Valued

DeleteMode(flags) ==
  CASE "delete_before" \in flags                     -> "Before"
    [] {"delete_during", "delete"} \cap flags # {}   -> "During"
    [] "delete_after" \in flags                      -> "After"
    [] "delete_excluded" \in flags                   -> "Excluded"
    [] OTHER                                         -> "None"

into_transfer_options(f) ==
  LET archive   == "archive" \in f.flags
      preserved == IF archive THEN Preserved ELSE f.flags \cap Preserved
      specials  == IF "devices" \in preserved THEN {"specials"} ELSE {}
      partial   == IF {"partial", "short_partial"} \cap f.flags # {} THEN {"partial"} ELSE {}
  IN [on |-> preserved \cup specials \cup partial \cup (f.flags \cap Copied),
      dir_mode |-> CASE {"archive", "recursive"} \cap f.flags # {} -> "Recurse"
                     [] "dirs" \in f.flags                         -> "List"
                     [] OTHER                                      -> "Skip",
      verbosity |-> IF "quiet" \in f.flags THEN "Quiet"
                    ELSE <<"Normal", "Verbose", "VeryVerbose", "Debug">>[Min({f.verbose, 3}) + 1],
      delete |-> DeleteMode(f.flags),
      suffix |-> f.suffix, merge |-> f.merge, vals |-> f.vals]

------------------------------------------------------------------------------
(* Client side: the argument list of the server.                               *)

Word(w) == [k |-> "word", name |-> w, v |-> <<>>]

Long(n, v) == [k |-> "long", name |-> n, v |-> v]

\* The letters in the order they are pushed, and the options each stands for.
Letters ==
  << <<"l", {"links"}>>, <<"o", {"owner"}>>, <<"g", {"group"}>>, <<"D", {"devices", "specials"}>>,
     <<"t", {"times"}>>, <<"p", {"perms"}>>, <<"r", {"recursive"}>>, <<"z", {"compress"}>>,
     <<"c", {"checksum_mode"}>>, <<"u", {"update"}>>, <<"n", {"dry_run"}>>, <<"W", {"whole_file"}>>,
     <<"x", {"one_file_system"}>>, <<"S", {"sparse"}>>, <<"I", {"ignore_times"}>>,
     <<"m", {"prune_empty_dirs"}>>, <<"R", {"relative"}>>, <<"L", {"copy_links"}>>,
     <<"K", {"keep_dirlinks"}>>, <<"d", {"dirs"}>>, <<"C", {"cvs_exclude"}>>, <<"y", {"fuzzy"}>>,
     <<"b", {"backup"}>>, <<"H", {"hard_links"}>>, <<"A", {"acls"}>>, <<"X", {"xattrs"}>> >>

VerbosityLetters ==
  [Quiet |-> <<"q">>, Normal |-> <<>>, Verbose |-> <<"v">>, VeryVerbose |-> <<"v", "v">>,
   Debug |-> <<"v", "v", "v">>]

Condensed(o) ==
  LET pushed == SelectSeq(Letters, LAMBDA p : \E n \in p[2] : Has(o, n))
  IN [k |-> "short", name |-> "",
      v |-> [i \in DOMAIN pushed |-> pushed[i][1]] \o [i \in 1..o.merge |-> "F"]
            \o VerbosityLetters[o.verbosity]
            \o <<"e">> \o build_capability_string(Has(o, "recursive"), TRUE, FALSE)]

Switch(o, n) == IF n \in o.on THEN <<Long(n, <<>>)>> ELSE <<>>

\* Only the first of several --chmod or --link-dest is printed.
Value_first(o, n) == [i \in DOMAIN o.vals[n] \cap {1} |-> Long(n, <<o.vals[n][i]>>)]

Value(o, n) == [i \in DOMAIN o.vals[n] |-> Long(n, <<o.vals[n][i]>>)]

AppendArgs(o) ==
  CASE "append_verify" \in o.on -> <<Long("append", <<>>), Long("append", <<>>)>>
    [] OTHER                    -> Switch(o, "append")

SuffixArg(o) ==
  IF o.suffix = (IF o.vals.backup_dir # <<>> THEN "" ELSE "~") THEN <<>>
  ELSE <<Long("suffix", <<o.suffix>>)>>

\* Long options sent whatever the direction.
CommonArgs(o) ==
  Switch(o, "inplace") \o Switch(o, "numeric_ids") \o AppendArgs(o) \o Switch(o, "safe_links")
  \o Switch(o, "remove_source_files") \o Value(o, "block_size") \o Value(o, "chmod")
  \o Value(o, "chown") \o Value(o, "backup_dir") \o SuffixArg(o) \o Switch(o, "list_only")
  \o Switch(o, "fake_super") \o Value(o, "iconv")

\* Options of the receiver, sent when the server is the receiver.
SenderArgs(o) ==
  Switch(o, "size_only") \o Switch(o, "existing") \o Switch(o, "ignore_existing")
  \o Value(o, "max_delete") \o Value(o, "modify_window") \o Switch(o, "partial")
  \o Value(o, "partial_dir")
  \o (IF o.delete = "None" THEN <<>> ELSE <<Long("delete", <<o.delete>>)>>)
  \o Value(o, "link_dest")

build_server_options_config(o, am_sender) ==
  <<Condensed(o)>> \o CommonArgs(o)
  \o (IF am_sender THEN SenderArgs(o) ELSE Value(o, "max_size") \o Value(o, "min_size"))

\* What a transport sends: --server, --sender on a pull, the options, the path.
build_args(options, am_sender, path) ==
  <<Word("--server")>> \o (IF am_sender THEN <<>> ELSE <<Word("--sender")>>) \o options
  \o <<Word("."), Word(IF path = "" THEN "." ELSE path)>>

------------------------------------------------------------------------------
(* Server side.                                                                *)

\* What the server's parser takes a letter to mean.
LetterMeans ==
  [l |-> {"links"}, o |-> {"owner"}, g |-> {"group"}, D |-> {"devices", "specials"},
   t |-> {"times"}, p |-> {"perms"}, r |-> {"recursive"}, z |-> {"compress"},
   c |-> {"checksum_mode"}, u |-> {"update"}, n |-> {"dry_run"}, W |-> {"whole_file"},
   x |-> {"one_file_system"}, S |-> {"sparse"}, I |-> {"ignore_times"},
   m |-> {"prune_empty_dirs"}, L |-> {"copy_links"}, K |-> {"keep_dirlinks"}, d |-> {"dirs"},
   R |-> {"relative"}, C |-> {"cvs_exclude"}, y |-> {"fuzzy"}, b |-> {"backup"},
   H |-> {"hard_links"}, A |-> {"acls"}, X |-> {"xattrs"}]

\* One letter of the condensed word.  `q` and unknown letters are ignored, and
\* any number of `v` is Verbose.
Flag(o, ch) ==
  CASE ch = "F"                     -> [o EXCEPT !.merge = Min({@ + 1, 255})]
    [] ch = "v"                     -> [o EXCEPT !.verbosity = "Verbose"]
    [] ch \in DOMAIN LetterMeans    -> FoldSet(LAMBDA n, x : With(x, n), o, LetterMeans[ch])
    [] OTHER                        -> o

\* One long option.  A repeated --append only sets append again.
LongOption(o, a) ==
  CASE a.name = "delete"                     -> [o EXCEPT !.delete = a.v[1]]
    [] a.name = "suffix"                     -> [o EXCEPT !.suffix = a.v[1]]
    [] a.name \in {"chmod", "link_dest"}     -> Push(o, a.name, a.v)
    [] a.name \in {"backup_dir", "iconv", "max_delete", "modify_window", "block_size", "chown",
                   "partial_dir", "max_size", "min_size"}
                                             -> Replace(o, a.name, a.v)
    [] a.name \in {"inplace", "numeric_ids", "append", "append_verify", "size_only", "existing",
                   "ignore_existing", "safe_links", "list_only", "fake_super",
                   "remove_source_files", "partial"}
                                             -> With(o, a.name)
    [] OTHER                                 -> o

\* The letters of the first condensed word.  There always is one: the slice of an
\* empty word would panic, and build_server_options_config starts with a word.
FirstCondensed(args) ==
  LET words == SelectSeq(args, LAMBDA a : a.k = "short")
  IN IF words = <<>> THEN <<>> ELSE words[1].v

FlagsPart(letters) ==
  LET e == {i \in DOMAIN letters : letters[i] = "e"}
  IN SubSeq(letters, 1, IF e = {} THEN Len(letters) ELSE Min(e) - 1)

parse_server_args_config(args) ==
  LET short == FoldLeft(Flag, DefaultOptions, FlagsPart(FirstCondensed(args)))
  IN FoldLeft(LongOption, short, SelectSeq(args, LAMBDA a : a.k = "long"))

\* The letters after the first `e`, or rsync's usual set when there is none.
extract_client_info(args) ==
  LET letters == FirstCondensed(args)
      e == {i \in DOMAIN letters : letters[i] = "e"}
  IN IF e = {} THEN <<".", "L", "s", "f", "x", "C", "I", "v", "u">>
     ELSE SubSeq(letters, Min(e) + 1, Len(letters))

\* ServerSession::new: --sender makes the server the sender.
ServerSends(args) == Word("--sender") \in ToSet(args)
==============================================================================
