------------------------------ MODULE Session ------------------------------
(***************************************************************************)
(* A whole session after the handshake, between a ferrosync client and a   *)
(* ferrosync server: run_push against handle_receive_impl, or run_pull     *)
(* against handle_send_impl (ferrosync-engine/src/session.rs and           *)
(* ferrosync-server/src/session.rs).                                       *)
(*                                                                         *)
(* Both sides walk through the same stages without ever naming them on the *)
(* wire: filter list, file list, transfer, phase exchange, statistics,     *)
(* goodbye.  Each side decides from its own options whether a stage        *)
(* happens and how many markers it has, so a session only works if the     *)
(* two decisions agree.  A side that reads bytes the other one wrote for   *)
(* another purpose is "desync": what it does next depends on how these     *)
(* bytes parse, and the model stops it there.                              *)
(*                                                                         *)
(* The transfer loop is taken at the level of whole requests and whole     *)
(* responses, in order; WireTransfer has the tasks and buffers inside it.  *)
(* The connection is unbounded here, as its limits are the subject there.  *)
(***************************************************************************)
EXTENDS Integers, Sequences

CONSTANTS
    Files,      \* number of regular files of the file list
    MaxPhase,   \* WireFormat::phase_count
    Options     \* the option combinations to run, records of AllOptions

\* Options of a session, as both sides hold them: the client's own, and the
\* server's through its arguments.
AllOptions ==
    [dir : {"push", "pull"},    \* which side is the client
     inc : BOOLEAN,             \* CF_INC_RECURSE negotiated and --recursive
     groups : 1..3,             \* DirectoryTree groups: the root and its subdirectories
     sync : BOOLEAN,            \* has_error_exit_sync: protocol 31 and later
     delete : BOOLEAN, prune : BOOLEAN,
     list_only : BOOLEAN, dry_run : BOOLEAN,
     append : BOOLEAN, remove : BOOLEAN,
     read_only : BOOLEAN,       \* Module::read_only of the server
     faults : SUBSET {"sender", "receiver"}]    \* sides that may fail

\* What the two sides agree on: a push of at most one subdirectory group, a pull
\* of a flat list; the filter list on --delete only or in both roles; --append
\* and --list-only in the one direction that handles them.
SupportedOptions ==
    {o \in AllOptions :
        /\ o.inc => o.groups <= (IF o.dir = "push" THEN 2 ELSE 1)
        /\ ~o.inc => o.groups = 1
        /\ o.dir = "push" /\ o.prune => o.delete
        /\ o.append => o.dir = "push"
        /\ o.list_only => o.dir = "pull"
        /\ o.read_only => o.dir = "push" /\ ~o.dry_run /\ ~o.remove
        /\ o.remove => o.dir = "push"
        /\ o.list_only => ~o.dry_run /\ ~o.delete /\ ~o.prune}

ASSUME SessionAssumption ==
    /\ Files \in Nat
    /\ MaxPhase \in Nat
    /\ Options \subseteq AllOptions

VARIABLES
    opt,        \* the options of this session
    pcS,        \* the stage of the sending side
    pcR,        \* the stage of the receiving side
    s2r, r2s,   \* the two directions of the connection
    pending,    \* PendingSubFlists: groups not sent yet
    phase,      \* `phase` of sender_loop
    sBye, rBye, \* goodbye steps left: "r" reads a marker, "w" writes one
    removed,    \* files the sender removed after the transfer
    flists,     \* num_flists of ReceivedFileList
    next,       \* the file the generator dispatches next
    asked,      \* files requested, in order
    got,        \* how many of them have been received and finished
    stored,     \* files the receiver holds: received, or found up to date
    acked,      \* MSG_SUCCESS messages written
    rounds      \* rounds of the phase exchange completed

sendVars == <<pcS, pending, phase, sBye, removed>>
recvVars == <<pcR, rBye, flists, next, asked, got, stored, acked, rounds>>
vars == <<opt, sendVars, recvVars, s2r, r2s>>

Push == opt.dir = "push"
Pull == opt.dir = "pull"

-----------------------------------------------------------------------------
\* Frames are a kind and, for requests and responses, the file.
Frame(kind, file) == [kind |-> kind, file |-> file]
Mark(kind) == Frame(kind, 0)

\* The goodbye of each role: sender_goodbye and server_sender_goodbye,
\* server_receiver_goodbye and receiver_goodbye.
SenderGoodbye(o) ==
    IF o.dir = "push"
    THEN IF o.sync THEN <<"r", "w", "r">> ELSE <<"r">>
    ELSE IF o.sync THEN <<"w", "r", "r", "r">> ELSE <<"w", "r", "r">>

\* Mutation of ReceiverGoodbye: a server that ends like a client.
ReceiverGoodbyeExtra(o) ==
    IF o.sync THEN <<"w", "r", "w", "w">> ELSE <<"w", "r", "w">>

ReceiverGoodbye(o) ==
    IF o.dir = "push"
    THEN IF o.sync THEN <<"w", "w">> ELSE <<"w">>
    ELSE IF o.sync THEN <<"w", "r", "w", "w">> ELSE <<"w", "r", "w">>

\* Both sides' test for the filter list of a push, each as it stands.
SendsFilterList(o) == o.delete \/ o.prune
ExpectsFilterList(o) == o.delete

\* Rounds of the phase exchange: receiver_phase_exchange on the client,
\* server_receiver_phase_exchange on the server.
TotalRounds ==
    IF Pull /\ opt.inc THEN (flists - 1) + MaxPhase + 1 ELSE MaxPhase + 1

Gone(pc) == pc \in {"over", "failed", "desync"}

Init ==
    /\ opt \in Options
    /\ pcS = "filter" /\ pcR = "filter"
    /\ s2r = <<>> /\ r2s = <<>>
    /\ pending = 0 /\ phase = 0 /\ removed = {}
    /\ sBye = SenderGoodbye(opt) /\ rBye = ReceiverGoodbye(opt)
    /\ flists = 0 /\ next = 1 /\ asked = <<>> /\ got = 0
    /\ stored = {} /\ acked = 0 /\ rounds = 0

-----------------------------------------------------------------------------
\* Reading.  SenderTakes(kinds, pc) reads one frame of an expected kind and goes
\* on to pc; a frame of another kind leaves the side astray.
SenderTakes(kinds, pc) ==
    /\ r2s # <<>>
    /\ IF Head(r2s).kind \in kinds
       THEN r2s' = Tail(r2s) /\ pcS' = pc
       ELSE pcS' = "desync" /\ UNCHANGED r2s

ReceiverTakes(kinds, pc) ==
    /\ s2r # <<>>
    /\ IF Head(s2r).kind \in kinds
       THEN s2r' = Tail(s2r) /\ pcR' = pc
       ELSE pcR' = "desync" /\ UNCHANGED s2r

-----------------------------------------------------------------------------
\* The sending side: run_push, or handle_send_impl.

SenderFilterList ==
    /\ pcS = "filter"
    /\ \/ /\ Push
          /\ s2r' = IF SendsFilterList(opt) THEN Append(s2r, Mark("filter")) ELSE s2r
          /\ pcS' = "flist"
          /\ UNCHANGED r2s
       \/ Pull /\ SenderTakes({"filter"}, "flist") /\ UNCHANGED s2r
    /\ UNCHANGED <<opt, pending, phase, sBye, removed, recvVars>>

\* send_file_list: everything at once, or the root sub-flist only.  --list-only
\* ends a push here.
SendFileList ==
    /\ pcS = "flist"
    /\ s2r' = s2r \o (IF ~opt.inc THEN <<Mark("flist")>>
                      ELSE IF opt.groups = 1 THEN <<Mark("root"), Mark("flist_eof")>>
                      ELSE <<Mark("root")>>)
    /\ pending' = IF opt.inc THEN opt.groups - 1 ELSE 0
    /\ pcS' = IF Push /\ opt.list_only THEN "bye" ELSE "inject"
    /\ UNCHANGED <<opt, phase, sBye, removed, recvVars, r2s>>

\* The head of sender_loop: send_pending(1), one group per iteration, with
\* NDX_FLIST_EOF after the last.
Inject ==
    /\ pcS = "inject"
    /\ s2r' = CASE pending = 0 -> s2r
                [] pending = 1 -> s2r \o <<Mark("group"), Mark("flist_eof")>>
                [] OTHER -> Append(s2r, Mark("group"))
    /\ pending' = IF pending = 0 THEN 0 ELSE pending - 1
    /\ pcS' = "read"
    /\ UNCHANGED <<opt, phase, sBye, removed, recvVars, r2s>>

\* A request: signatures follow unless append_mode, which the server never sets.
SenderReadReq ==
    /\ pcS = "read" /\ r2s # <<>> /\ Head(r2s).kind \in {"req", "req_head"}
    /\ SenderTakes(IF Push /\ opt.append THEN {"req_head"} ELSE {"req"}, "inject")
    /\ s2r' = IF pcS' = "inject" THEN Append(s2r, Frame("resp", Head(r2s).file)) ELSE s2r
    /\ UNCHANGED <<opt, pending, phase, sBye, removed, recvVars>>

\* MSG_SUCCESS is consumed by the demultiplexer and reaches nobody.
SenderReadSuccess ==
    /\ pcS = "read" /\ r2s # <<>> /\ Head(r2s).kind = "success"
    /\ r2s' = Tail(r2s)
    /\ UNCHANGED <<opt, sendVars, recvVars, s2r>>

\* Mutation of SenderReadDone: the loop ends one phase early.
SenderReadDoneEarly ==
    /\ pcS = "read" /\ r2s # <<>> /\ Head(r2s).kind \notin {"req", "req_head", "success"}
    /\ SenderTakes({"done"}, IF phase + 1 < MaxPhase THEN "inject" ELSE "after")
    /\ phase' = IF pcS' = "desync" THEN phase ELSE phase + 1
    /\ s2r' = IF pcS' = "desync" THEN s2r ELSE Append(s2r, Mark("done"))
    /\ UNCHANGED <<opt, pending, sBye, removed, recvVars>>

\* Mutation of SenderReadDone: the loop waits for one phase more.
SenderReadDoneLate ==
    /\ pcS = "read" /\ r2s # <<>> /\ Head(r2s).kind \notin {"req", "req_head", "success"}
    /\ SenderTakes({"done"}, IF phase > MaxPhase + 1 THEN "after" ELSE "inject")
    /\ phase' = IF pcS' = "desync" THEN phase ELSE phase + 1
    /\ s2r' = IF pcS' = "desync" THEN s2r ELSE Append(s2r, Mark("done"))
    /\ UNCHANGED <<opt, pending, sBye, removed, recvVars>>

\* NDX_DONE: answered in every phase, the last time after the loop.
SenderReadDone ==
    /\ pcS = "read" /\ r2s # <<>> /\ Head(r2s).kind \notin {"req", "req_head", "success"}
    /\ SenderTakes({"done"}, IF phase + 1 > MaxPhase THEN "after" ELSE "inject")
    /\ phase' = IF pcS' = "desync" THEN phase ELSE phase + 1
    /\ s2r' = IF pcS' = "desync" THEN s2r ELSE Append(s2r, Mark("done"))
    /\ UNCHANGED <<opt, pending, sBye, removed, recvVars>>

\* After sender_loop: a client removes the source files, all of them, when asked
\* to; a server writes the statistics.
SenderAfter ==
    /\ pcS = "after"
    /\ removed' = IF Push /\ opt.remove /\ ~opt.dry_run THEN 1..Files ELSE {}
    /\ s2r' = IF Pull THEN Append(s2r, Mark("stats")) ELSE s2r
    /\ pcS' = "bye"
    /\ UNCHANGED <<opt, pending, phase, sBye, recvVars, r2s>>

\* Mutation of SenderBye: the goodbye waits for its marker, whatever happens.
SenderByeWaits ==
    /\ pcS = "bye"
    /\ \/ sBye = <<>> /\ pcS' = "over" /\ UNCHANGED <<sBye, s2r, r2s>>
       \/ /\ sBye # <<>> /\ Head(sBye) = "w"
          /\ s2r' = Append(s2r, Mark("done"))
          /\ sBye' = Tail(sBye)
          /\ UNCHANGED <<pcS, r2s>>
       \/ /\ sBye # <<>> /\ Head(sBye) = "r" /\ r2s # <<>>
          /\ SenderTakes({"done", "success"}, "bye")
          /\ sBye' = IF Head(r2s).kind = "success" THEN sBye ELSE Tail(sBye)
          /\ UNCHANGED s2r
    /\ UNCHANGED <<opt, pending, phase, removed, recvVars>>

\* Goodbye markers; errors and values are ignored, so a lost connection ends the
\* read, and a control message is skipped by the demultiplexer.
SenderBye ==
    /\ pcS = "bye"
    /\ \/ sBye = <<>> /\ pcS' = "over" /\ UNCHANGED <<sBye, s2r, r2s>>
       \/ /\ sBye # <<>> /\ Head(sBye) = "w"
          /\ s2r' = Append(s2r, Mark("done"))
          /\ sBye' = Tail(sBye)
          /\ UNCHANGED <<pcS, r2s>>
       \/ /\ sBye # <<>> /\ Head(sBye) = "r" /\ r2s # <<>>
          /\ SenderTakes({"done", "success"}, "bye")
          /\ sBye' = IF Head(r2s).kind = "success" THEN sBye ELSE Tail(sBye)
          /\ UNCHANGED s2r
       \/ /\ sBye # <<>> /\ Head(sBye) = "r" /\ r2s = <<>> /\ Gone(pcR)
          /\ sBye' = Tail(sBye)
          /\ UNCHANGED <<pcS, s2r, r2s>>
    /\ UNCHANGED <<opt, pending, phase, removed, recvVars>>

-----------------------------------------------------------------------------
\* The receiving side: handle_receive_impl, or run_pull.

\* A server refuses to write to a read-only module; a client always sends the
\* filter list.
ReceiverFilterList ==
    /\ pcR = "filter"
    /\ \/ Push /\ opt.read_only /\ pcR' = "failed" /\ UNCHANGED <<s2r, r2s>>
       \/ Push /\ ~opt.read_only /\ ~ExpectsFilterList(opt) /\ pcR' = "flist" /\ UNCHANGED <<s2r, r2s>>
       \/ /\ Push /\ ~opt.read_only /\ ExpectsFilterList(opt)
          /\ ReceiverTakes({"filter"}, "flist")
          /\ UNCHANGED r2s
       \/ Pull /\ r2s' = Append(r2s, Mark("filter")) /\ pcR' = "flist" /\ UNCHANGED s2r
    /\ UNCHANGED <<opt, sendVars, rBye, flists, next, asked, got, stored, acked, rounds>>

\* Where the receiving side goes with a complete file list: a client that only
\* lists, or only counts, skips the transfer loop.
AfterFileList == IF Pull /\ (opt.list_only \/ opt.dry_run) THEN "phase" ELSE "loop"

\* recv_file_list_batch, or the first sub-flist of recv_file_list_incremental.
RecvFileList ==
    /\ pcR = "flist"
    /\ ReceiverTakes(IF opt.inc THEN {"root"} ELSE {"flist"},
                     IF opt.inc THEN "markers" ELSE AfterFileList)
    /\ flists' = 1
    /\ UNCHANGED <<opt, sendVars, rBye, next, asked, got, stored, acked, rounds, r2s>>

\* Sub-flists until NDX_FLIST_EOF: nothing is requested before that.
RecvSubFlist ==
    /\ pcR = "markers"
    /\ s2r # <<>>
    /\ ReceiverTakes({"group", "flist_eof"},
                     IF Head(s2r).kind = "flist_eof" THEN AfterFileList ELSE "markers")
    /\ flists' = IF Head(s2r).kind = "group" THEN flists + 1 ELSE flists
    /\ UNCHANGED <<opt, sendVars, rBye, next, asked, got, stored, acked, rounds, r2s>>

\* The generator dispatches a file: up to date, failed with a warning, counted
\* by a dry run, or requested.
Dispatch ==
    /\ pcR = "loop" /\ next <= Files
    /\ next' = next + 1
    /\ \/ stored' = stored \cup {next} /\ UNCHANGED <<asked, r2s>>
       \/ UNCHANGED <<stored, asked, r2s>>
       \/ /\ ~opt.dry_run
          /\ r2s' = Append(r2s, Frame(IF opt.append THEN "req_head" ELSE "req", next))
          /\ asked' = Append(asked, next)
          /\ UNCHANGED stored
    /\ UNCHANGED <<opt, sendVars, pcR, rBye, flists, got, acked, rounds, s2r>>

\* The receiver task finishes the file whose turn it is.
ReceiveFile ==
    /\ pcR = "loop" /\ got < Len(asked)
    /\ ReceiverTakes({"resp"}, "loop")
    /\ IF pcR' = "loop"
       THEN got' = got + 1 /\ stored' = stored \cup {asked[got + 1]}
       ELSE UNCHANGED <<got, stored>>
    /\ UNCHANGED <<opt, sendVars, rBye, flists, next, asked, acked, rounds, r2s>>

LoopDone ==
    /\ pcR = "loop" /\ next > Files /\ got = Len(asked)
    /\ pcR' = "phase"
    /\ UNCHANGED <<opt, sendVars, rBye, flists, next, asked, got, stored, acked, rounds, s2r, r2s>>

\* MSG_SUCCESS for every file, before the phase exchange.
WriteSuccess ==
    /\ pcR = "phase" /\ acked < got
    /\ r2s' = Append(r2s, Frame("success", asked[acked + 1]))
    /\ acked' = acked + 1
    /\ UNCHANGED <<opt, sendVars, pcR, rBye, flists, next, asked, got, stored, rounds, s2r>>

PhaseWrite ==
    /\ pcR = "phase" /\ acked = got
    /\ r2s' = Append(r2s, Mark("done"))
    /\ pcR' = "phase_read"
    /\ UNCHANGED <<opt, sendVars, rBye, flists, next, asked, got, stored, acked, rounds, s2r>>

PhaseRead ==
    /\ pcR = "phase_read"
    /\ ReceiverTakes({"done"}, IF rounds + 1 < TotalRounds THEN "phase"
                               ELSE IF Pull THEN "stats" ELSE "bye")
    /\ rounds' = IF pcR' = "desync" THEN rounds ELSE rounds + 1
    /\ UNCHANGED <<opt, sendVars, rBye, flists, next, asked, got, stored, acked, r2s>>

ReadStats ==
    /\ pcR = "stats"
    /\ ReceiverTakes({"stats"}, "bye")
    /\ UNCHANGED <<opt, sendVars, rBye, flists, next, asked, got, stored, acked, rounds, r2s>>

ReceiverBye ==
    /\ pcR = "bye"
    /\ \/ rBye = <<>> /\ pcR' = "over" /\ UNCHANGED <<rBye, s2r, r2s>>
       \/ /\ rBye # <<>> /\ Head(rBye) = "w"
          /\ r2s' = Append(r2s, Mark("done"))
          /\ rBye' = Tail(rBye)
          /\ UNCHANGED <<pcR, s2r>>
       \/ /\ rBye # <<>> /\ Head(rBye) = "r" /\ s2r # <<>>
          /\ ReceiverTakes({"done"}, "bye")
          /\ rBye' = Tail(rBye)
          /\ UNCHANGED r2s
       \/ /\ rBye # <<>> /\ Head(rBye) = "r" /\ s2r = <<>> /\ Gone(pcS)
          /\ rBye' = Tail(rBye)
          /\ UNCHANGED <<pcR, s2r, r2s>>
    /\ UNCHANGED <<opt, sendVars, flists, next, asked, got, stored, acked, rounds>>

-----------------------------------------------------------------------------
\* Failures: an error of a side's own, or the connection it finds closed.

SenderFails ==
    /\ ~Gone(pcS) /\ pcS # "bye"
    /\ "sender" \in opt.faults \/ (Gone(pcR) /\ (pcS = "after" => Pull))
    /\ pcS' = "failed"
    /\ UNCHANGED <<opt, pending, phase, sBye, removed, recvVars, s2r, r2s>>

ReceiverFails ==
    /\ ~Gone(pcR) /\ pcR # "bye"
    /\ "receiver" \in opt.faults \/ Gone(pcS)
    /\ pcR' = "failed"
    /\ UNCHANGED <<opt, sendVars, rBye, flists, next, asked, got, stored, acked, rounds, s2r, r2s>>

SenderNext ==
    \/ SenderFilterList \/ SendFileList \/ Inject \/ SenderReadReq
    \/ SenderReadSuccess \/ SenderReadDone \/ SenderAfter \/ SenderBye
ReceiverNext ==
    \/ ReceiverFilterList \/ RecvFileList \/ RecvSubFlist \/ Dispatch \/ ReceiveFile
    \/ LoopDone \/ WriteSuccess \/ PhaseWrite \/ PhaseRead \/ ReadStats \/ ReceiverBye

Next == SenderNext \/ ReceiverNext \/ SenderFails \/ ReceiverFails

\* Both sides run while they can; a side waiting on a closed connection finds out.
Fairness ==
    /\ WF_vars(SenderNext) /\ WF_vars(ReceiverNext)
    /\ WF_vars(SenderFails /\ Gone(pcR)) /\ WF_vars(ReceiverFails /\ Gone(pcS))

Spec == Init /\ [][Next]_vars
FairSpec == Spec /\ Fairness

-----------------------------------------------------------------------------
\* The frames of each direction.
SenderFrames ==
    [kind : {"filter", "flist", "root", "group", "flist_eof", "resp", "done", "stats"},
     file : 0..Files]
ReceiverFrames == [kind : {"filter", "req", "req_head", "success", "done"}, file : 0..Files]

\* The type invariant.
TypeOK ==
    /\ opt \in Options
    /\ pcS \in {"filter", "flist", "inject", "read", "after", "bye", "over", "failed", "desync"}
    /\ pcR \in {"filter", "flist", "markers", "loop", "phase", "phase_read", "stats", "bye",
               "over", "failed", "desync"}
    /\ s2r \in Seq(SenderFrames) /\ r2s \in Seq(ReceiverFrames)
    /\ pending \in 0..2 /\ phase \in 0..(MaxPhase + 1)
    /\ sBye \in Seq({"r", "w"}) /\ rBye \in Seq({"r", "w"})
    /\ removed \subseteq 1..Files /\ stored \subseteq 1..Files
    /\ flists \in 0..3 /\ next \in 1..(Files + 1)
    /\ asked \in Seq(1..Files) /\ got \in 0..Len(asked) /\ acked \in 0..got
    /\ rounds \in 0..(MaxPhase + 3)

\* Both sides agree on every stage: no side reads bytes that the other one wrote for
\* another stage, and when both report success nothing is left unread but the goodbye
\* marker that a client of protocol 31 writes and no server reads.
InStep ==
    /\ pcS # "desync" /\ pcR # "desync"
    /\ pcS = "over" /\ pcR = "over" =>
           r2s = <<>> /\ s2r = IF Push /\ opt.sync THEN <<Mark("done")>> ELSE <<>>

\* A sender that has left its loop (and then removes files, writes statistics or
\* reports success) has had every request answered and every answer received, even
\* if a side fails or the goodbye is lost; so a file that was requested is removed at
\* the source only when the receiver holds it.
LoopEndsComplete ==
    /\ pcS \in {"after", "bye", "over"} /\ ~(Push /\ opt.list_only) =>
           got = Len(asked) /\ (pcR # "failed" => rounds >= MaxPhase)
    /\ removed \cap {asked[i] : i \in DOMAIN asked} \subseteq stored

\* Without faults both sides report success, unless the module is read-only; and
\* whatever fails, both sides return.
Completes ==
    /\ opt.faults = {} /\ ~(Push /\ opt.read_only) => <>(pcS = "over" /\ pcR = "over")
    /\ <>(Gone(pcS) /\ Gone(pcR))
=============================================================================
