----------------------------- MODULE DaemonConfig ----------------------------
(* What a daemon serves: rsyncd.conf, the module registry built from it, and   *)
(* the host and user checks of a module (ferrosync-server/src/config.rs,       *)
(* module.rs, auth.rs).                                                        *)
(*                                                                             *)
(* A module name is [id, upper]: two spellings of one name differ in upper.    *)
(* A list value is the sequence of the pieces between its separators; a piece  *)
(* between two adjacent separators has k = "empty".  An address is a sequence  *)
(* of AddrBits bits.                                                           *)
EXTENDS Integers, Sequences, SequencesExt, FiniteSetsExt

CONSTANT AddrBits     \* 32 in the code

ASSUME AddrBitsPositive == AddrBits \in Nat \ {0}

to_ascii_lowercase(name) == [name EXCEPT !.upper = FALSE]

parse_bool(value, default) ==
  CASE value \in {<<"yes">>, <<"true">>, <<"1">>}   -> TRUE
    [] value \in {<<"no">>, <<"false">>, <<"0">>}   -> FALSE
    [] OTHER                                        -> default

split_list(value) == SelectSeq(value, LAMBDA piece : piece.k # "empty")

\* ModuleConfig::default(), the fields a connection looks at.
DefaultModule(name) ==
  [name |-> name, read_only |-> TRUE, list |-> TRUE, auth_users |-> <<>>,
   secrets_file |-> <<>>, hosts_allow |-> <<>>, hosts_deny |-> <<>>]

apply_module_param(module, key, value) ==
  CASE key = "read_only"    -> [module EXCEPT !.read_only = parse_bool(value, TRUE)]
    [] key = "list"         -> [module EXCEPT !.list = parse_bool(value, TRUE)]
    [] key = "auth_users"   -> [module EXCEPT !.auth_users = value]
    [] key = "secrets_file" -> [module EXCEPT !.secrets_file = value]
    [] key = "hosts_allow"  -> [module EXCEPT !.hosts_allow = split_list(value)]
    [] key = "hosts_deny"   -> [module EXCEPT !.hosts_deny = split_list(value)]
    [] OTHER                -> module

\* One line of the file.  A section header ends the module before it; a header
\* without `]` or a line without `=` is an error; keys outside a module section
\* are global.
ParseLine(p, line) ==
  CASE p.failed -> p
    [] line.k = "section" ->
         [p EXCEPT !.modules = @ \o p.current,
                   !.current = IF line.name.id = "global" THEN <<>>
                               ELSE <<DefaultModule(line.name)>>]
    [] line.k = "set" /\ p.current # <<>> ->
         [p EXCEPT !.current[1] = apply_module_param(@, line.key, line.value)]
    [] line.k = "bad" -> [p EXCEPT !.failed = TRUE]
    [] OTHER -> p

\* <<modules>>, or <<>> when the file does not parse.
parse_config_str(lines) ==
  LET p == FoldLeft(ParseLine, [modules |-> <<>>, current |-> <<>>, failed |-> FALSE], lines)
  IN IF p.failed THEN <<>> ELSE <<p.modules \o p.current>>

------------------------------------------------------------------------------
(* The registry keeps, for each lower-case name, the last module registered    *)
(* and the place of the first.                                                 *)

\* Names are compared as they are spelled.
register_caseSensitive(registry, module) ==
  IF \E i \in DOMAIN registry : registry[i].name = module.name
  THEN [i \in DOMAIN registry |-> IF registry[i].name = module.name THEN module ELSE registry[i]]
  ELSE Append(registry, module)

register(registry, module) ==
  LET key == to_ascii_lowercase(module.name)
  IN IF \E i \in DOMAIN registry : to_ascii_lowercase(registry[i].name) = key
     THEN [i \in DOMAIN registry |->
             IF to_ascii_lowercase(registry[i].name) = key THEN module ELSE registry[i]]
     ELSE Append(registry, module)

from_configs(modules) == FoldLeft(register, <<>>, modules)

resolve_module(registry, name) ==
  SelectSeq(registry, LAMBDA m : to_ascii_lowercase(m.name) = to_ascii_lowercase(name))

list_visible(registry) == SelectSeq(registry, LAMBDA m : m.list)

------------------------------------------------------------------------------
(* Host rules.  A pattern is [k |-> "any"], or an address with k = "addr", or  *)
(* a network with its prefix length.                                           *)

\* u32::MAX << 32 is not a shift of 32 places: with overflow checks the task
\* panics, without them the mask is all ones.  The second is modelled.
cidr_match(network, prefix_len, addr) ==
  /\ Len(network) = AddrBits /\ Len(addr) = AddrBits
  /\ LET kept == IF prefix_len \in 1..AddrBits THEN prefix_len ELSE AddrBits
     IN SubSeq(network, 1, kept) = SubSeq(addr, 1, kept)

host_matches(pattern, addr) ==
  CASE pattern.k = "any"  -> TRUE
    [] pattern.k = "addr" -> pattern.a = addr
    [] pattern.k = "net"  -> cidr_match(pattern.a, pattern.len, addr)
    [] OTHER              -> FALSE

check_host(module, addr) ==
  LET Listed(patterns) == \E i \in DOMAIN patterns : host_matches(patterns[i], addr)
  IN IF module.hosts_allow # <<>> THEN Listed(module.hosts_allow)
     ELSE ~Listed(module.hosts_deny)

------------------------------------------------------------------------------
(* User checks.  A hash is the record of what was hashed, so two hashes are    *)
(* equal only when algorithm, password and challenge are.                      *)

requires_auth(module) == module.auth_users # <<>>

\* The names are never looked at.
user_list_anyone(module) == {}

user_list(module) == {piece.w : piece \in ToSet(split_list(module.auth_users))}

compute_response(password, challenge) ==
  [alg |-> "md5", password |-> password, challenge |-> challenge]

\* The first line of the secrets file for the user.
lookup_password(user, secrets) ==
  LET lines == SelectSeq(secrets, LAMBDA l : l.user = user)
  IN IF lines = <<>> THEN <<>> ELSE <<lines[1].password>>

verify_response(user, hash, challenge, secrets) ==
  LET password == lookup_password(user, secrets)
  IN password # <<>> /\ compute_response(password[1], challenge) = hash

\* The response `<user> <hash>`: an empty user leaves a line of one word.
parse_auth_response(line) == line.user # ""

\* The whole check of step 6 of handle_connection.
Authenticated(module, line, challenge) ==
  /\ parse_auth_response(line)
  /\ user_list(module) = {} \/ line.user \in user_list(module)
  /\ module.secrets_file # <<>> =>
       verify_response(line.user, line.hash, challenge, module.secrets_file[1])
==============================================================================
