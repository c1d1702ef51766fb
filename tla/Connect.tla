------------------------------- MODULE Connect -------------------------------
(* A client connects to a server: over TCP or TLS through the daemon's text    *)
(* protocol (ferrosync-transport/src/daemon.rs, tls.rs; ferrosync-server/src/  *)
(* listener.rs) or over SSH, and then through the binary handshake of both     *)
(* ends (ferrosync-protocol/src/handshake.rs) into a session.                  *)
(*                                                                             *)
(* A line, or one value of the binary handshake, is a token [k, v].  Each end  *)
(* reads lines through a BufReader, which takes any non-empty part of what has *)
(* arrived, and hands what it holds to the binary protocol.                    *)
EXTENDS ServerArgs, DaemonConfig

CONSTANT Scenarios    \* the connections to explore, one record each

VARIABLES
  scen,       \* the scenario: command line, configuration, addresses, builds
  listener,   \* "down", "serving" or "stopped"
  registry,   \* the daemon's ModuleRegistry
  c2s, s2c,   \* tokens written and not yet taken
  client,     \* the client: [pc, buf, alone, digests, methods, granted, listing, neg, err]
  server      \* the connection handler: [pc, buf, module, args, neg, err]

vars == <<scen, listener, registry, c2s, s2c, client, server>>

Tok(kind, value) == [k |-> kind, v |-> value]

\* The text protocol's lines.
Greeting(digests) == Tok("greeting", digests)

Error(reason) == Tok("error", reason)

LineStates == {"greeting", "reply", "authresult", "listing"}

BinaryStates == {"version", "flags", "sums", "compress", "seed"}

ServerLineStates == {"greeting", "module", "auth", "args"}

SshMethods == <<"agent", "publickey", "keyboard-interactive", "password">>

\* run_sync: the transport for the kind of path and the flags (QUIC apart), the
\* options, and the arguments the transport is given.
Via ==
  CASE scen.remote = "ssh"        -> "ssh"
    [] "tls" \in scen.cli.flags  -> "tls"
    [] OTHER                      -> "daemon"

Options == into_transfer_options(scen.cli)

Choice(n, default) == IF Options.vals[n] = <<>> THEN default ELSE Options.vals[n][1]

Arguments ==
  build_args(build_server_options_config(Options, scen.am_sender), scen.am_sender, scen.path)

------------------------------------------------------------------------------

Init ==
  /\ scen \in Scenarios
  /\ listener = IF parse_config_str(scen.config) = <<>> THEN "down" ELSE "serving"
  /\ registry = IF listener = "down" THEN <<>> ELSE from_configs(parse_config_str(scen.config)[1])
  /\ c2s = <<>>
  /\ s2c = <<>>
  /\ client = [pc |-> "start", buf |-> <<>>, alone |-> FALSE, digests |-> <<>>,
               methods |-> {}, granted |-> FALSE, listing |-> <<>>,
               neg |-> Defaults(0, FALSE), err |-> ""]
  /\ server = [pc |-> "none", buf |-> <<>>, module |-> <<>>, args |-> <<>>,
               neg |-> Defaults(0, FALSE), err |-> ""]

ClientFails(reason) == [client EXCEPT !.pc = "failed", !.err = reason]

ServerEnds(reason) == [server EXCEPT !.pc = "closed", !.err = reason]

\* Nothing more will come from the server; from the client.  A connection that
\* is reset may lose what was under way.
ServerGone == server.pc = "closed" \/ (server.pc = "none" /\ listener # "serving")

ClientGone == client.pc \in {"failed", "listed"}

------------------------------------------------------------------------------
(* The accept loop.                                                            *)

\* accept() hands the connection to a task of its own, which greets first.
Accept ==
  /\ listener = "serving" /\ server.pc = "none" /\ client.pc = "greeting"
  /\ server' = [server EXCEPT !.pc = "greeting"]
  /\ s2c' = Append(s2c, Greeting(<<>>))
  /\ UNCHANGED <<scen, listener, registry, c2s, client>>

\* The loop returns on shutdown, and on an error of accept().  Tasks go on.
StopListening ==
  /\ listener = "serving" /\ scen.stops
  /\ listener' = "stopped"
  /\ UNCHANGED <<scen, registry, c2s, s2c, client, server>>

\* The client is interrupted, or the server's process ends, at any point.
ClientKilled ==
  /\ scen.resets /\ client.pc \notin {"up", "failed", "listed"}
  /\ client' = ClientFails("killed")
  /\ UNCHANGED <<scen, listener, registry, c2s, s2c, server>>

ServerKilled ==
  /\ scen.resets /\ server.pc \notin {"none", "up", "closed"}
  /\ server' = ServerEnds("killed")
  /\ listener' = "stopped"
  /\ UNCHANGED <<scen, registry, c2s, s2c, client>>

------------------------------------------------------------------------------
(* The client's text protocol.                                                 *)

\* TCP (and TLS) connect: the kernel answers for a bound listener.
TcpConnect ==
  /\ client.pc = "start" /\ Via # "ssh"
  /\ client' = IF listener = "serving" THEN [client EXCEPT !.pc = "greeting"]
               ELSE ClientFails("ConnectionFailed")
  /\ UNCHANGED <<scen, listener, registry, c2s, s2c, server>>

ClientFill ==
  /\ client.pc \in LineStates /\ client.buf = <<>>
  /\ \E n \in 1..Len(s2c) :
       /\ client' = [client EXCEPT !.buf = SubSeq(s2c, 1, n)]
       /\ s2c' = SubSeq(s2c, n + 1, Len(s2c))
  /\ UNCHANGED <<scen, listener, registry, c2s, server>>

\* read_line on a closed connection.
ClientEof ==
  /\ client.pc \in LineStates /\ client.buf = <<>> /\ (s2c = <<>> \/ scen.resets) /\ ServerGone
  /\ client' = ClientFails("ConnectionFailed")
  /\ UNCHANGED <<scen, listener, registry, c2s, s2c, server>>

negotiate_auth_digest(digests) == IF "md5" \in ToSet(digests) THEN "md5" ELSE "md4"

\* The line `<user> <hash>`; the TLS transport always hashes with MD4.
compute_auth_response(challenge) ==
  Tok("auth", [user |-> scen.user,
               hash |-> [alg |-> IF Via = "tls" THEN "md4"
                                 ELSE negotiate_auth_digest(client.digests),
                         password |-> scen.password, challenge |-> challenge]])

\* read_greeting, send_greeting, then the module's name or #list.
ReadGreeting ==
  /\ client.pc = "greeting" /\ client.buf # <<>>
  /\ client' = [client EXCEPT !.buf = Tail(@), !.digests = Head(client.buf).v,
                              !.pc = IF scen.lists THEN "listing" ELSE "reply"]
  /\ c2s' = c2s \o <<Greeting(IF Via = "tls" THEN <<>> ELSE <<"md5", "md4">>),
                     IF scen.lists THEN Tok("list", <<>>) ELSE Tok("request", scen.module)>>
  /\ UNCHANGED <<scen, listener, registry, s2c, server>>

\* Over TLS the buffer always replaces the stream, even when it is empty.
ClientHandOff_bufferOnly(c) == [c EXCEPT !.pc = "binary", !.alone = Via = "tls"]

\* The end of connect: the BufReader's bytes go to the binary protocol.  Over
\* TLS they replace the stream instead of preceding it.
ClientHandOff(c) ==
  [c EXCEPT !.pc = "binary", !.alone = Via = "tls" /\ c.buf # <<>>]

\* OK: send the arguments and an empty line, and hand off.
SendArgs(c) ==
  /\ client' = ClientHandOff(c)
  /\ c2s' = c2s \o [i \in DOMAIN Arguments |-> Tok("arg", <<Arguments[i]>>)] \o <<Tok("arg", <<>>)>>

\* The loop over the server's lines after the module's name.  Any line that
\* is not one of the protocol's is taken for a line of the MOTD.
ReadReply ==
  /\ client.pc = "reply" /\ client.buf # <<>>
  /\ LET t == Head(client.buf)
         c == [client EXCEPT !.buf = Tail(@)]
     IN \/ t.k = "ok" /\ SendArgs(c)
        \/ /\ t.k = "authreqd"
           /\ client' = [c EXCEPT !.pc = "authresult"]
           /\ c2s' = Append(c2s, compute_auth_response(t.v))
        \/ /\ t.k \in {"error", "exit"}
           /\ client' = [c EXCEPT !.pc = "failed",
                                  !.err = IF t.k = "error" /\ t.v = "Unknown module"
                                          THEN "ModuleNotFound" ELSE "ConnectionFailed"]
           /\ UNCHANGED c2s
        \/ t.k \in {"motd", "module"} /\ client' = c /\ UNCHANGED c2s
  /\ UNCHANGED <<scen, listener, registry, s2c, server>>

ReadAuthResult ==
  /\ client.pc = "authresult" /\ client.buf # <<>>
  /\ LET t == Head(client.buf)
         c == [client EXCEPT !.buf = Tail(@)]
     IN IF t.k = "ok" THEN SendArgs(c)
        ELSE /\ client' = [c EXCEPT !.pc = "failed",
                                    !.err = IF t.k = "error" /\ t.v # "auth failed"
                                            THEN "ConnectionFailed" ELSE "AuthFailed"]
             /\ UNCHANGED c2s
  /\ UNCHANGED <<scen, listener, registry, s2c, server>>

\* list_modules: every line before EXIT is a module, a line of the MOTD too.  An
\* error ends the listing; the handler of listener.rs sends none after #list.
ReadListing ==
  /\ client.pc = "listing" /\ client.buf # <<>>
  /\ LET t == Head(client.buf)
         c == [client EXCEPT !.buf = Tail(@)]
     IN client' = CASE t.k = "exit"  -> [c EXCEPT !.pc = "listed"]
                    [] t.k = "error" -> [c EXCEPT !.pc = "failed", !.err = "ConnectionFailed"]
                    [] OTHER         -> [c EXCEPT !.listing = Append(@, t)]
  /\ UNCHANGED <<scen, listener, registry, c2s, s2c, server>>

------------------------------------------------------------------------------
(* The handler's text protocol.                                                *)

ServerFill ==
  /\ server.pc \in ServerLineStates /\ server.buf = <<>>
  /\ \E n \in 1..Len(c2s) :
       /\ server' = [server EXCEPT !.buf = SubSeq(c2s, 1, n)]
       /\ c2s' = SubSeq(c2s, n + 1, Len(c2s))
  /\ UNCHANGED <<scen, listener, registry, s2c, client>>

\* A read at the end of a connection the client has dropped.
ServerEof ==
  /\ server.pc \in ServerLineStates \cup BinaryStates
  /\ server.buf = <<>> /\ (c2s = <<>> \/ scen.resets) /\ ClientGone
  /\ server' = ServerEnds("client closed connection")
  /\ UNCHANGED <<scen, listener, registry, c2s, s2c, client>>

\* One line of the client in state pc: the handler's next state, its answer.
ServerLine(pc, Next(_), Answer(_)) ==
  /\ server.pc = pc /\ server.buf # <<>>
  /\ server' = Next([server EXCEPT !.buf = Tail(@)])
  /\ s2c' = s2c \o Answer(Head(server.buf))
  /\ UNCHANGED <<scen, listener, registry, c2s, client>>

\* Steps 2 and 3: the client's greeting, then the MOTD.  Another line is refused
\* (this client always greets); lines over MAX_LINE_LENGTH are not modelled.
ServerGreeting ==
  /\ server.pc = "greeting" /\ server.buf # <<>>
  /\ LET greets == Head(server.buf).k = "greeting"
     IN ServerLine("greeting",
                   LAMBDA s : IF greets THEN [s EXCEPT !.pc = "module"]
                              ELSE [s EXCEPT !.pc = "closed", !.err = "invalid client greeting"],
                   LAMBDA t : IF greets THEN [i \in 1..scen.motd |-> Tok("motd", i)]
                              ELSE <<Error("protocol startup error")>>)

\* Step 4: an empty name is a request for the list.
WantsList(t) == t.k = "list" \/ (t.k = "request" /\ t.v = <<>>)

ServerListing ==
  /\ server.buf # <<>> /\ WantsList(Head(server.buf))
  /\ ServerLine("module", LAMBDA s : [s EXCEPT !.pc = "closed", !.err = "listed"],
                LAMBDA t : [i \in DOMAIN list_visible(registry) |->
                              Tok("module", list_visible(registry)[i].name)] \o <<Tok("exit", <<>>)>>)

\* Steps 4 to 6, in the order the handler checks: the reason to refuse, or <<>>.
Refusal(name) ==
  LET found == resolve_module(registry, name)
  IN CASE name.id = "#command"             -> <<"Unknown command">>
       [] found = <<>>                     -> <<"Unknown module">>
       [] ~check_host(found[1], scen.host) -> <<"access denied">>
       [] OTHER                            -> <<>>

ServerRefuse ==
  /\ server.buf # <<>> /\ ~WantsList(Head(server.buf))
  /\ server.pc = "module" /\ Refusal(Head(server.buf).v[1]) # <<>>
  /\ LET reason == Refusal(Head(server.buf).v[1])[1]
     IN ServerLine("module", LAMBDA s : [s EXCEPT !.pc = "closed", !.err = reason],
                   LAMBDA t : <<Error(reason)>>)

ServerModule ==
  /\ server.buf # <<>> /\ ~WantsList(Head(server.buf))
  /\ server.pc = "module" /\ Refusal(Head(server.buf).v[1]) = <<>>
  /\ LET module == resolve_module(registry, Head(server.buf).v[1])
         auth   == requires_auth(module[1])
     IN ServerLine("module",
                   LAMBDA s : [s EXCEPT !.pc = IF auth THEN "auth" ELSE "args", !.module = module],
                   LAMBDA t : <<IF auth THEN Tok("authreqd", "challenge") ELSE Tok("ok", <<>>)>>)

ServerAuth ==
  /\ server.pc = "auth" /\ server.buf # <<>>
  /\ LET good == Authenticated(server.module[1], Head(server.buf).v, "challenge")
     IN ServerLine("auth",
                   LAMBDA s : IF good THEN [s EXCEPT !.pc = "args"]
                              ELSE [s EXCEPT !.pc = "closed", !.err = "auth failed"],
                   LAMBDA t : <<IF good THEN Tok("ok", <<>>) ELSE Error("auth failed")>>)

\* Step 9: the bytes the BufReader holds come before the rest of the stream.
HandOff(s) == [s EXCEPT !.pc = "version"]

\* Step 8: arguments up to the empty line.
ServerArg ==
  /\ server.pc = "args" /\ server.buf # <<>>
  /\ LET line == Head(server.buf).v
     IN ServerLine("args",
                   LAMBDA s : IF line = <<>> THEN HandOff(s) ELSE [s EXCEPT !.args = @ \o line],
                   LAMBDA t : <<>>)

------------------------------------------------------------------------------
(* The SSH transport.  The server's answers to each method are the scenario's. *)

check_server_key(policy, known_hosts) ==
  CASE policy = "AcceptAll"                    -> "accept"
    [] known_hosts = "same"                    -> "accept"
    [] known_hosts = "other"                   -> "HostKeyMismatch"
    [] known_hosts \in {"no file", "absent"}   -> IF policy = "AcceptNew" THEN "accept"
                                                  ELSE "HostKeyNotFound"

\* client::connect, with the host key's check as its callback.
SshConnect ==
  /\ client.pc = "start" /\ Via = "ssh"
  /\ LET key == check_server_key(scen.ssh.policy, scen.ssh.known_hosts)
     IN client' = IF key = "accept" THEN [client EXCEPT !.pc = "none"] ELSE ClientFails("ConnectionFailed")
  /\ UNCHANGED <<scen, listener, registry, c2s, s2c, server>>

\* authenticate_none: the methods to try, of which there are none after success.
SshNone ==
  /\ client.pc = "none"
  /\ LET methods == CASE scen.ssh.none = "accept" -> {}
                      [] scen.ssh.none = "refuse" -> scen.ssh.offers
                      [] scen.ssh.none = "error"  -> {"publickey", "keyboard-interactive", "password"}
     IN client' = [client EXCEPT !.methods = methods, !.granted = scen.ssh.none = "accept",
                                 !.pc = IF methods = {} THEN "exec" ELSE SshMethods[1]]
  /\ UNCHANGED <<scen, listener, registry, c2s, s2c, server>>

\* Whether the client tries a method at all.
SshTries(method) ==
  CASE method = "agent"     -> scen.ssh.agent /\ "publickey" \in client.methods
    [] method = "publickey" -> "publickey" \in client.methods
    [] OTHER                -> ("batch_mode" \notin scen.cli.flags) /\ method \in client.methods

\* One method: agent, key files, keyboard-interactive, password, in this order.
\* A prompt the user cancels ends the attempt.
SshTry ==
  /\ client.pc \in ToSet(SshMethods)
  /\ LET answer == IF SshTries(client.pc) THEN scen.ssh.answers[client.pc] ELSE "no"
         i == CHOOSE j \in DOMAIN SshMethods : SshMethods[j] = client.pc
     IN client' = CASE answer = "yes"        -> [client EXCEPT !.granted = TRUE, !.pc = "exec"]
                    [] answer = "cancel"     -> ClientFails("AuthCancelled")
                    [] i = Len(SshMethods)   -> ClientFails("AuthFailed")
                    [] OTHER                 -> [client EXCEPT !.pc = SshMethods[i + 1]]
  /\ UNCHANGED <<scen, listener, registry, c2s, s2c, server>>

\* channel_open_session and exec; the remote command is run_server_mode, whose
\* module is not read-only.
SshExec ==
  /\ client.pc = "exec"
  /\ IF client.granted
     THEN /\ client' = [client EXCEPT !.pc = "binary"]
          /\ server' = [server EXCEPT !.pc = "version", !.args = Arguments,
                          !.module = <<[DefaultModule([id |-> "", upper |-> FALSE])
                                          EXCEPT !.read_only = FALSE]>>]
     ELSE /\ client' = ClientFails("ConnectionFailed")
          /\ UNCHANGED server
  /\ UNCHANGED <<scen, listener, registry, c2s, s2c>>

------------------------------------------------------------------------------
(* client_handshake.                                                           *)

\* What the binary protocol reads next: the handed-over buffer comes first.
ClientInput == IF client.buf # <<>> \/ client.alone THEN client.buf ELSE s2c

\* A length-prefixed string of algorithm names, written and read whole.
vstring(names) == Tok("vstring", names)

\* Reading one value of the expected kind; what it leads to is Next(state, value).
\* Entering "sums" or "compress" writes this end's list.
ClientRead(pc, kind, Next(_, _)) ==
  /\ client.pc = pc /\ ClientInput # <<>>
  /\ LET t == Head(ClientInput)
         c == [client EXCEPT !.buf = IF @ = <<>> THEN @ ELSE Tail(@)]
         n == IF t.k = kind THEN Next(c, t.v) ELSE [c EXCEPT !.pc = "failed", !.err = "out of step"]
     IN /\ client' = n
        /\ c2s' = CASE n.pc = "sums"     -> Append(c2s, vstring(Choice("checksum_choice", CHECKSUM_LIST)))
                    [] n.pc = "compress" -> Append(c2s, vstring(Choice("compress_choice", COMPRESS_LIST)))
                    [] OTHER             -> c2s
  /\ s2c' = IF client.buf = <<>> THEN Tail(s2c) ELSE s2c
  /\ UNCHANGED <<scen, listener, registry, server>>

\* The transport's read ends: an error at every later read.
ClientReadEof ==
  /\ client.pc \in BinaryStates
  /\ ClientInput = <<>> \/ (scen.resets /\ client.buf = <<>>)
  /\ client.alone \/ ServerGone
  /\ client' = ClientFails("UnexpectedEof")
  /\ UNCHANGED <<scen, listener, registry, c2s, s2c, server>>

ClientVersion ==
  /\ client.pc = "binary"
  /\ c2s' = Append(c2s, Tok("int", scen.client_max))
  /\ client' = [client EXCEPT !.pc = "version"]
  /\ UNCHANGED <<scen, listener, registry, s2c, server>>

ReadVersion ==
  ClientRead("version", "int",
    LAMBDA c, v :
      LET version == Common(scen.client_max, v)
      IN [c EXCEPT !.neg = Defaults(version, "compress" \in Options.on),
                   !.err = IF version < MIN_PROTOCOL_VERSION THEN "UnsupportedVersion" ELSE @,
                   !.pc = CASE version < MIN_PROTOCOL_VERSION -> "failed"
                            [] version >= 30                  -> "flags"
                            [] OTHER                          -> "seed"])

ReadFlags ==
  ClientRead("flags", "varint",
    LAMBDA c, v : [c EXCEPT !.neg.flags = v, !.pc = IF Negotiated(v) THEN "sums" ELSE "seed"])

ReadSums ==
  ClientRead("sums", "vstring",
    LAMBDA c, v :
      LET sum == Agreed(scen.am_sender, Choice("checksum_choice", CHECKSUM_LIST), v, ChecksumNames)
      IN IF sum = <<>> THEN [c EXCEPT !.pc = "failed", !.err = "Handshake"]
         ELSE [c EXCEPT !.neg.checksum = sum[1],
                        !.pc = IF "compress" \in Options.on THEN "compress" ELSE "seed"])

ReadCompress ==
  ClientRead("compress", "vstring",
    LAMBDA c, v :
      LET algorithm == Agreed(scen.am_sender, Choice("compress_choice", COMPRESS_LIST), v, CompressNames)
      IN IF algorithm = <<>> THEN [c EXCEPT !.pc = "failed", !.err = "Handshake"]
         ELSE [c EXCEPT !.neg.compress = algorithm[1], !.pc = "seed"])

ReadSeed ==
  ClientRead("seed", "int", LAMBDA c, v : [c EXCEPT !.neg.seed = <<v>>, !.pc = "up"])

------------------------------------------------------------------------------
(* ServerSession::run_split: parse the arguments, server_handshake, dispatch.  *)

ServerOptions == parse_server_args_config(server.args)

generate_seed == 1

\* The negotiation is complete with the seed.
Seeded(s) == [s EXCEPT !.neg.seed = <<generate_seed>>]

\* The seed is written; then the session refuses to write to a read-only module.
Settle(s) ==
  LET refused == ~ServerSends(s.args) /\ s.module[1].read_only
  IN [Seeded(s) EXCEPT !.pc = IF refused THEN "closed" ELSE "up",
               !.err = IF refused THEN "read-only" ELSE @]

ServerInput == IF server.buf # <<>> THEN server.buf ELSE c2s

\* Reading one value: Next(state, value) is the state it leads to, Answer(state)
\* what is written first; a settled handshake writes the seed.
ServerRead(pc, kind, Next(_, _), Answer(_)) ==
  /\ server.pc = pc /\ ServerInput # <<>>
  /\ LET t == Head(ServerInput)
         s == [server EXCEPT !.buf = IF @ = <<>> THEN @ ELSE Tail(@)]
         n == IF t.k = kind THEN Next(s, t.v) ELSE [s EXCEPT !.pc = "closed", !.err = "out of step"]
     IN /\ server' = n
        /\ s2c' = s2c \o Answer(n)
                  \o (IF n.neg.seed # <<>> THEN <<Tok("int", n.neg.seed[1])>> ELSE <<>>)
  /\ c2s' = IF server.buf = <<>> THEN Tail(c2s) ELSE c2s
  /\ UNCHANGED <<scen, listener, registry, client>>

ServerVersion ==
  ServerRead("version", "int",
    LAMBDA s, v :
      LET version == Common(scen.server_max, v)
          flags == IF version >= 30
                   THEN build_compat_flags_from_client_info(extract_client_info(s.args)) ELSE {}
          n == [s EXCEPT !.neg = [Defaults(version, "compress" \in ServerOptions.on)
                                    EXCEPT !.flags = flags]]
      IN CASE version < MIN_PROTOCOL_VERSION ->
                [n EXCEPT !.pc = "closed", !.err = "UnsupportedVersion"]
           [] Negotiated(flags) -> [n EXCEPT !.pc = "sums"]
           [] OTHER -> Settle(n),
    LAMBDA n : <<Tok("int", scen.server_max)>>
               \o (IF n.neg.flags = {} THEN <<>> ELSE <<Tok("varint", n.neg.flags)>>))

ServerSums ==
  ServerRead("sums", "vstring",
    LAMBDA s, v :
      LET sum == Agreed(ServerSends(s.args), CHECKSUM_LIST, v, ChecksumNames)
      IN CASE sum = <<>> -> [s EXCEPT !.pc = "closed", !.err = "Handshake"]
           [] "compress" \in ServerOptions.on ->
                [s EXCEPT !.neg.checksum = sum[1], !.pc = "compress"]
           [] OTHER -> Settle([s EXCEPT !.neg.checksum = sum[1]]),
    LAMBDA n : <<vstring(CHECKSUM_LIST)>>)

ServerCompress ==
  ServerRead("compress", "vstring",
    LAMBDA s, v :
      LET algorithm == Agreed(ServerSends(s.args), COMPRESS_LIST, v, CompressNames)
      IN IF algorithm = <<>> THEN [s EXCEPT !.pc = "closed", !.err = "Handshake"]
         ELSE Settle([s EXCEPT !.neg.compress = algorithm[1]]),
    LAMBDA n : <<vstring(COMPRESS_LIST)>>)

------------------------------------------------------------------------------

\* Both ends have a session or have given up.
Ended ==
  /\ client.pc \in {"up", "failed", "listed"}
  /\ server.pc \in {"up", "closed", "none"}

Done == Ended /\ UNCHANGED vars

ClientSteps ==
  \/ TcpConnect \/ ClientFill \/ ClientEof \/ ReadGreeting \/ ReadReply \/ ReadAuthResult
  \/ ReadListing \/ SshConnect \/ SshNone \/ SshTry \/ SshExec
  \/ ClientReadEof \/ ClientVersion \/ ReadVersion \/ ReadFlags \/ ReadSums \/ ReadCompress
  \/ ReadSeed

ServerSteps ==
  \/ Accept \/ ServerFill \/ ServerEof \/ ServerGreeting \/ ServerListing \/ ServerRefuse
  \/ ServerModule \/ ServerAuth \/ ServerArg \/ ServerVersion \/ ServerSums \/ ServerCompress

Next == ClientSteps \/ ServerSteps \/ StopListening \/ ClientKilled \/ ServerKilled \/ Done

\* The runtime goes on polling both tasks until both have ended.
Fairness == []<>Ended \/ []<><<ClientSteps \/ ServerSteps>>_vars

Spec == Init /\ [][Next]_vars /\ Fairness

------------------------------------------------------------------------------
(* Properties.                                                                 *)

\* Every variable has its type; the buffers hold tokens and no end speaks a
\* version its build does not have.
TypeOK ==
  /\ scen \in Scenarios /\ TransferFlags(scen.cli)
  /\ listener \in {"down", "serving", "stopped"}
  /\ \A q \in {c2s, s2c, client.buf, server.buf} :
       \A i \in DOMAIN q : q[i].k \in {"greeting", "list", "request", "motd", "module", "exit", "ok",
                                       "authreqd", "auth", "error", "arg", "int", "varint", "vstring"}
  /\ client.pc \in {"start", "none", "exec", "binary", "up", "failed", "listed"}
                   \cup LineStates \cup BinaryStates \cup ToSet(SshMethods)
  /\ server.pc \in {"none", "up", "closed"} \cup ServerLineStates \cup BinaryStates
  /\ client.neg.version \in 0..scen.client_max /\ server.neg.version \in 0..scen.server_max

\* The ends never fall out of step, never split (once the server has settled,
\* the client does not fail unless the connection is lost) and agree on everything the session depends on:
\* version, flags, checksum, compression, seed and who sends
\* (handshake.rs, client_handshake and server_handshake).
Agreement ==
  /\ "out of step" \notin {client.err, server.err}
  /\ server.pc = "up" /\ client.pc = "failed" => scen.resets
  /\ client.pc = "up" /\ server.pc = "up" =>
       client.neg = server.neg /\ ServerSends(server.args) = ~scen.am_sender

\* What the writer leaves to one end: the receiver's own options, not sent on a
\* pull, and the sender's size limits, not sent on a push.
ReceiverSwitches == {"size_only", "existing", "ignore_existing", "partial"}

ReceiverValues == {"max_delete", "modify_window", "partial_dir", "link_dest"}

SenderValues == {"max_size", "min_size"}

\* Settled in the handshake instead of by arguments.
HandshakeValues == {"checksum_choice", "compress_choice"}

\* What the arguments lose, against "This is the inverse of
\* [`build_server_options`]" (session.rs:309): the writer has no --copy-dest and
\* no --compare-dest, prints --append-verify as two --append and leaves out an
\* empty suffix beside a backup directory; the reader takes two --append for one,
\* a missing suffix for `~`, any number of `v` for one and ignores `q`.
LostValues == {"copy_dest", "compare_dest"}

LostVerify(o) == "append_verify" \in o.on

LostSuffix(o) == o.suffix = "" /\ o.vals.backup_dir # <<>>

LostVerbosity(o) == o.verbosity \notin {"Normal", "Verbose"}

\* The server works with the options of the client's command line: every switch
\* and every value, but the receiver's own on a pull, the sender's size limits on
\* a push and the negotiated ones.  That is what the arguments are for, and the
\* losses named above are all that is missing: with --append-verify the server
\* appends without verifying, and it never sees a --copy-dest or --compare-dest
\* (session.rs, build_server_options_config and parse_server_args_config).
OptionsCarried ==
  server.pc = "up" =>
    LET o == Options
        p == ServerOptions
        kept(on) == IF scen.am_sender THEN on ELSE on \ ReceiverSwitches
        sent == Valued \ (HandshakeValues \cup LostValues
                          \cup IF scen.am_sender THEN SenderValues ELSE ReceiverValues)
    IN /\ IF LostVerify(o) THEN p.on = kept(o.on \ {"append_verify"}) \cup {"append"}
          ELSE p.on = kept(o.on)
       /\ \A n \in sent : p.vals[n] = o.vals[n]
       /\ p.dir_mode = o.dir_mode /\ p.merge = o.merge
       /\ p.delete = IF scen.am_sender THEN o.delete ELSE "None"
       /\ p.suffix = o.suffix \/ LostSuffix(o)
       /\ p.verbosity = o.verbosity \/ LostVerbosity(o)

\* The last section of the configuration file with this name, read on its own:
\* the settings between its header and the next one.
SectionOf(lines, name) ==
  LET Headers == {i \in DOMAIN lines : lines[i].k = "section"}
      heads == {i \in Headers : to_ascii_lowercase(lines[i].name) = to_ascii_lowercase(name)}
      next(i) == Min({j \in Headers : j > i} \cup {Len(lines) + 1})
      Setting(key, default) ==
        LET at == {j \in (Max(heads) + 1)..(next(Max(heads)) - 1) :
                     lines[j].k = "set" /\ lines[j].key = key}
        IN IF at = {} THEN default ELSE lines[Max(at)].value
  IN IF heads = {} THEN <<>>
     ELSE <<[first |-> Min(heads), hidden |-> Setting("list", <<"yes">>) = <<"no">>,
             writable |-> Setting("read_only", <<"yes">>) = <<"no">>,
             users |-> {w \in ToSet(Setting("auth_users", <<>>)) : w.k # "empty"}]>>

\* A daemon session runs only on a module the file configures, for an address
\* its host rules admit, writing only where the file says `read only = no`, for
\* a user the module names if it names any; and a refused client learns the
\* reason the handler had (listener.rs, handle_connection; server session.rs).
Admitted ==
  Via # "ssh" =>
    /\ server.pc = "up" =>
         LET section == SectionOf(scen.config, scen.module[1])
         IN /\ section # <<>>
            /\ check_host(server.module[1], scen.host)
            /\ scen.am_sender => section[1].writable
            /\ section[1].users # {} => \E w \in section[1].users : w.w = scen.user
    /\ \A told \in {<<"ModuleNotFound", "Unknown module">>, <<"AuthFailed", "auth failed">>} :
         /\ client.err = told[1] => server.err = told[2]
         /\ client.pc = "failed" /\ server.err = told[2] /\ ~scen.resets => client.err = told[1]

\* A listing that ends has, after one entry at most for each line of the MOTD,
\* exactly the modules whose last section does not hide them, each once, in the
\* order the file first names them.  The entries of the MOTD are no modules: the
\* client cannot tell its lines from the list's, so list_modules, which "returns
\* the list of modules" (daemon.rs:116), is right only for a server without a MOTD
\* (daemon.rs, list_modules; module.rs, list_visible).
ListingFaithful ==
  client.pc = "listed" =>
    LET names == {to_ascii_lowercase(scen.config[i].name) :
                    i \in {j \in DOMAIN scen.config : scen.config[j].k = "section"}}
        shown == {n \in names : n.id # "global" /\ ~SectionOf(scen.config, n)[1].hidden}
        found == SelectSeq(client.listing, LAMBDA t : t.k # "motd")
        First(i) == SectionOf(scen.config, found[i].v)[1].first
    IN /\ {to_ascii_lowercase(found[i].v) : i \in DOMAIN found} = shown
       /\ \A i, j \in DOMAIN found : i < j => First(i) < First(j)
       /\ \E n \in 0..scen.motd : SubSeq(client.listing, n + 1, Len(client.listing)) = found

\* A user of the module who gives the password its secrets file has for them is
\* not refused: auth.rs says of compute_response "This matches the rsync client's
\* computation".
RightPasswordAccepted ==
  server.err = "auth failed" =>
    LET m == server.module[1]
    IN ~ /\ user_list(m) = {} \/ scen.user \in user_list(m)
         /\ m.secrets_file # <<>> /\ lookup_password(scen.user, m.secrets_file[1]) = <<scen.password>>

\* A request that nothing stands in the way of.
Welcome ==
  /\ ~scen.lists /\ ~scen.resets
  /\ Min({scen.client_max, scen.server_max}) >= MIN_PROTOCOL_VERSION
  /\ Options.vals.checksum_choice # <<>> => ToSet(Options.vals.checksum_choice[1]) \cap ToSet(CHECKSUM_LIST) # {}
  /\ "compress" \in Options.on /\ Options.vals.compress_choice # <<>> =>
       ToSet(Options.vals.compress_choice[1]) \cap ToSet(COMPRESS_LIST) # {}
  /\ Via = "ssh" => client.pc = "exec" /\ client.granted
  /\ Via # "ssh" =>
       /\ server.pc # "none" /\ scen.module # <<>> /\ Refusal(scen.module[1]) = <<>>
       /\ LET m == resolve_module(registry, scen.module[1])[1]
          IN ~requires_auth(m) /\ (scen.am_sender => ~m.read_only)

\* Such a request becomes a session at both ends, whatever the BufReaders held
\* at the hand-over and even if the daemon stops listening after accepting it;
\* and every connection comes to an end one way or the other, also when one of
\* the two is killed.
Connects ==
  /\ Welcome ~> (client.pc = "up" /\ server.pc = "up")
  /\ <>Ended
==============================================================================
