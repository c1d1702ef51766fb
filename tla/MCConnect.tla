------------------------------ MODULE MCConnect ------------------------------
(* Connections for TLC: command lines, configurations, builds and SSH servers  *)
(* that between them take every path of Connect.                               *)
EXTENDS Connect

Name(n) == [id |-> n, upper |-> FALSE]

Upper(n) == [id |-> n, upper |-> TRUE]

Section(n) == [k |-> "section", name |-> n]

Set(key, value) == [k |-> "set", key |-> key, value |-> value]

User(w) == [k |-> "word", w |-> w]

Separators == [k |-> "empty", w |-> ""]

Here == <<0, 1, 1>>

Elsewhere == <<1, 0, 0>>

Net(a, len) == [k |-> "net", a |-> a, len |-> len]

\* `data` appears twice, the second time in capitals; `local` admits the
\* network of Here; `priv` names its users; `pub` is writable.
Config ==
  << Set("list", <<"no">>), Section(Name("global")), Set("read_only", <<"no">>),
     Section(Name("data")), Set("list", <<"no">>),
     Section(Name("pub")), Set("read_only", <<"no">>), Set("hosts_deny", <<Net(<<1, 1, 1>>, 9)>>),
     Section(Name("priv")), Set("auth_users", <<User("ann"), Separators>>), Set("list", <<"no">>),
     Section(Name("local")), Set("hosts_allow", <<Net(<<0, 1, 0>>, 2), [k |-> "addr", a |-> <<1, 1, 0>>]>>),
     Section(Name("vault")), Set("auth_users", <<User("ann")>>),
       Set("secrets_file", << <<[user |-> "ann", password |-> "pw"]>> >>),
     Section(Upper("data")), Set("read_only", <<"no">>), Set("timeout", <<"5">>) >>

BadConfig == << Section(Name("data")), [k |-> "bad"] >>

Cli(flags, verbose, suffix, vals) ==
  [flags |-> flags, verbose |-> verbose, suffix |-> suffix, merge |-> 0, vals |-> vals @@ NoValues]

Plain == Cli({"archive"}, 0, "~", NoValues)

Ssh(policy, known, none, offers, agent, batch, answers) ==
  [policy |-> policy, known_hosts |-> known, none |-> none, offers |-> offers, agent |-> agent,
   batch |-> batch,
   answers |-> answers @@ [m \in ToSet(SshMethods) |-> "no"]]

NoSsh == Ssh("Strict", "same", "accept", {}, FALSE, TRUE, [agent |-> "no"])

Base ==
  [remote |-> "daemon", lists |-> FALSE, module |-> <<Name("data")>>, path |-> "", am_sender |-> FALSE,
   cli |-> Plain, user |-> "", password |-> "", client_max |-> MAX_PROTOCOL_VERSION,
   server_max |-> MAX_PROTOCOL_VERSION, host |-> Here, motd |-> 0, config |-> Config,
   stops |-> FALSE, resets |-> FALSE, ssh |-> NoSsh]

\* Command lines: each group of options, and the combinations the CLI resolves.
CommandLines ==
  { Cli({"recursive", "devices", "compress", "quiet", "delete_after", "delete_before"}, 2, "~", NoValues),
    Cli({"dirs", "recursive", "append_verify", "short_partial", "delete", "hard_links"}, 3, "~", NoValues),
    Cli({"dirs", "links", "checksum_mode", "append", "backup", "delete_excluded", "size_only"}, 1, ".old",
        [chmod |-> <<"u+w", "g-w">>, link_dest |-> <<"d1", "d2">>, max_size |-> <<9>>]),
    [Cli({"archive", "compress", "update", "inplace", "acls", "xattrs", "existing", "fuzzy", "delete_after"}, 0, "~",
         [chown |-> <<[uid |-> <<1>>, gid |-> <<>>]>>, max_delete |-> <<3>>, modify_window |-> <<1>>,
          partial_dir |-> <<".p">>, min_size |-> <<1>>, backup_dir |-> <<"bak">>, block_size |-> <<700>>])
       EXCEPT !.merge = 2],
    Cli({"archive", "backup", "dry_run", "whole_file", "ignore_times", "ignore_existing", "copy_links",
         "safe_links", "keep_dirlinks", "remove_source_files", "cvs_exclude", "one_file_system"}, 0, "",
        [backup_dir |-> <<"bak">>, copy_dest |-> <<"d1">>, iconv |-> <<"utf8">>]),
    Cli({"recursive", "times", "numeric_ids", "sparse", "prune_empty_dirs", "relative", "list_only",
         "fake_super", "append", "partial"}, 1, "", [compare_dest |-> <<"d1">>]) }

Algorithms ==
  { Cli({"archive", "compress"}, 0, "~", [checksum_choice |-> << <<"md4", "md5">> >>]),
    Cli({"archive", "compress"}, 0, "~", [compress_choice |-> << <<"zlib">> >>]),
    Cli({"archive", "compress"}, 0, "~", [compress_choice |-> << <<"zstd">> >>]),
    Cli({"archive"}, 0, "~", [checksum_choice |-> << <<"sha1">> >>]) }

Sessions ==
  { [Base EXCEPT !.cli = c, !.am_sender = push, !.cli.flags = @ \cup tls] :
      c \in CommandLines \cup Algorithms, push \in BOOLEAN, tls \in {{}, {"tls"}} }

Versions ==
  { [Base EXCEPT !.client_max = c, !.server_max = s, !.cli = Cli({"archive", "compress"}, 0, "~", NoValues)] :
      c \in {26, 29, 32}, s \in {26, 30, 32} }

Modules ==
  { [Base EXCEPT !.module = m, !.host = h, !.am_sender = push, !.motd = 1, !.stops = TRUE] :
      m \in {<<>>, <<Upper("data")>>, <<Name("pub")>>, <<Name("local")>>, <<Name("nosuch")>>, <<Name("#command")>>},
      h \in {Here, Elsewhere}, push \in BOOLEAN }

Users ==
  { [Base EXCEPT !.module = <<m>>, !.user = u, !.password = p, !.cli.flags = @ \cup tls] :
      m \in {Name("priv"), Name("vault")}, u \in {"", "ann", "bob"}, p \in {"pw", "bad"}, tls \in {{}, {"tls"}} }

Lists == { [Base EXCEPT !.lists = TRUE, !.motd = n, !.config = c, !.stops = stops] :
             n \in 0..2, c \in {Config, BadConfig}, stops \in BOOLEAN }

SshServers ==
  { Ssh("Strict", "same", "accept", {}, FALSE, TRUE, [agent |-> "no"]),
    Ssh("Strict", "absent", "accept", {}, FALSE, TRUE, [agent |-> "no"]),
    Ssh("AcceptNew", "no file", "refuse", {"publickey", "password"}, TRUE, FALSE, [password |-> "yes"]),
    Ssh("AcceptNew", "other", "refuse", {"publickey"}, TRUE, FALSE, [agent |-> "yes"]),
    Ssh("AcceptAll", "other", "refuse", {"publickey"}, TRUE, TRUE, [publickey |-> "yes"]),
    Ssh("Strict", "same", "error", {}, FALSE, FALSE, [password |-> "yes"]),
    Ssh("Strict", "same", "refuse", {}, TRUE, FALSE, [agent |-> "yes"]),
    Ssh("Strict", "same", "refuse", {"password"}, TRUE, TRUE, [agent |-> "yes"]),
    [Ssh("Strict", "same", "refuse", {"keyboard-interactive", "password"}, TRUE, FALSE, [password |-> "yes"])
       EXCEPT !.answers["keyboard-interactive"] = "cancel"] }

OverSsh ==
  { [Base EXCEPT !.remote = "ssh", !.ssh = h, !.am_sender = push,
                    !.cli = [c EXCEPT !.flags = IF h.batch THEN @ \cup {"batch_mode"} ELSE @]] :
      h \in SshServers, c \in {Plain} \cup Algorithms, push \in BOOLEAN }

Killed == { [Base EXCEPT !.remote = way[1], !.resets = TRUE, !.lists = way[2], !.motd = 1, !.module = <<m>>,
                         !.cli = Cli({"archive", "compress"}, 0, "~", NoValues)] :
              way \in {<<"daemon", FALSE>>, <<"daemon", TRUE>>, <<"ssh", FALSE>>},
              m \in {Name("data"), Name("vault")} }

MCScenarios == Killed \cup Sessions \cup Versions \cup Modules \cup Users \cup Lists \cup OverSsh
==============================================================================
