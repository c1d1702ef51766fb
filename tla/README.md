# A verification of ferrosync

TLA+ models of ferrosync, an implementation of the rsync protocol in Rust, with
TLC configurations and TLAPS proofs. Paths are relative to `src/crates/`, and crate
names omit the `ferrosync-` prefix and the `src` directory. `PROJECT.json` maps every definition to
source lines and lists the components, runs, mutations, findings, hazards and theorems.

## The system

A *command* is either local or a session between two processes.

A **session** is: connection and authentication; handshake; optional filter list; file
list (at once, or the root group followed by one sub-list per directory); the transfer
loop; the phase exchange; statistics; goodbye. In the loop the **generator** writes a
request per file, the **sender** answers the requests in order, and the **receiver**
rebuilds each file. Generator and receiver are two tasks joined by a bounded channel;
the two sides are joined by a multiplexed connection with finite buffers.

A **local transfer** scans the source, and decides and writes entry by entry with the
same receiver code, in one process.

| part | source | modelled in |
|---|---|---|
| generator, receiver and sender tasks | `engine/wire_transfer.rs` | `WireTransfer`, implements `OrderedTransfer` |
| client and server sessions | `engine/session.rs`, `server/session.rs`, `protocol/wire_format.rs` | `Session` |
| replacing files on disk | `engine/receiver_engine.rs`, `file_decision.rs`, `receiver.rs`, `fs/atomic_writer.rs`, `fs/unix.rs` | `FileCommit` |
| local transfer, delete, prune | `engine/transfer.rs`, `delete.rs`, `receiver_engine.rs` | `Local` over `LocalFs` |
| delta algorithm, signatures, tokens | `delta/*`, `protocol/compress.rs` | `Delta` |
| multiplexed connection | `protocol/multiplex.rs` | `MuxFrames`, `Mux`, implements `ByteStream` |
| integers and NDX | `protocol/varint.rs` | `Varint`, used by `MuxFrames` and `FlistCodec` |
| encrypted stream | `transport/noise.rs` | `Noise` |
| scanner and filter rules | `scanner/*`, `filter/*` | `FileScan`, `Filter` |
| file list: order, groups, exchange, entry codec | `codec/*` | `FileList`, `FlistCodec` |
| handshake | `protocol/handshake.rs` | `Handshake`, composed in `Connect` |
| daemon: listener, configuration, authentication | `server/*` | `DaemonConfig`, composed in `Connect` |
| daemon, TLS and SSH clients | `transport/*` | `Connect` |
| command line to server options | `cli/main.rs`, `engine/session.rs` | `ServerArgs`, composed in `Connect` |

## Modules

### WireTransfer and OrderedTransfer

Three tasks. The generator (`pcG`, `gIdx`, `gItem`) dispatches entries, writes
requests to `r2s` and items to the channel `chan`. The receiver (`pcR`, `rItem`)
takes an item and reads the response to it from `s2r`, then joins the generator,
writes MSG_SUCCESS and runs the phase exchange. The sender (`pcS`, `sCur`) reads
requests, writes header, tokens and end into its `BufWriter`, and flushes while
draining what arrives. Each read, write, send and receive of the code is an action,
because each is an `.await` at which the other tasks run. Either side may fail
(`Faults`). Responses carry the number of their request so that the properties can
refer to it; no task looks at it, as none looks at the NDX.

`OrderedTransfer` is what this promises to the rest of the system: files are requested
and finished one by one in one order, and are reported only when all are finished. The
refinement mapping takes the log of requests for `asked`, the files written for `done`
and the receiver's place for `stage`.

Abstracted: block sums, tokens and checksums (a response is a header, up to
`MaxTok` tokens and an end). Both sides hold the same file list, so the sender's
handling of an unknown or non-regular NDX is not reached. Deferred hard links have
no effect on the wire and are left out here (`Local` has them).

### Session and MCSession

The whole session as two processes and two queues, with the loop at the level of
whole requests and responses. Each side derives its stages from its own options,
with no stage ever named on the wire; a side that reads a message meant for another
stage is "desync" and stops there. `SupportedOptions` contains what the two native
sides agree on (`MCSession` has the options of the violated run). It leaves out
recursive transfers with several groups, `--prune-empty-dirs` without `--delete` on a
push, `--append` on a pull and `--list-only` on a push (see *Exceptions* below).

### FileCommit

The receiver's treatment of a file: quick check, basis, backup, writer, tokens,
destructor, `finish_file`, over several sessions. `dest`, `backup`, `tmp` and
`slot` (the partial directory) are the files on disk, `stamp` the modification
time. Faults are a crash, a returned error, and an error inside a destructor,
which the code cannot see, and a `set_mtime` that fails, which is only warned about.
The files share one base name, hence one `slot` and, with `--backup-dir`, one backup
(`BackupPath`); a backup knows which file it is a version of. `cut`, `lost` and
`untimed` remember files whose receive, destructor or `set_mtime` failed once, so that
properties can say exactly where the guarantees end. `--append` and
`--remove-source-files` are left out here (`Local` has them). The generator takes the
basis ahead of time, but a basis is changed only by the write of its own file, so
taking it just before is equivalent (`--fuzzy` bases are not modelled).

### Local, LocalFs and MCLocal

`LocalFs` is a file system of names and nodes with limited room; an operation that
fails returns what it leaves behind. `Local` is `execute_transfer` over it: scan order,
directories, quick check, alternate destinations, backup, delta, append, write modes,
symlinks, deferred hard links, metadata, the four delete modes with their budget,
pruning, removal of sources, dry run. Files of `STREAMING_THRESHOLD` bytes go through
the `AtomicFileWriter`, whose destructor commits what a failed write left. Everything
between two awaits is one step, since nothing else of the program runs there; at an await
a timeout may drop the transfer, and between steps another process may remove or rewrite
a source. Another process that acts between two system calls of one step (after a file
without a delta is read and before it is removed, say) is not modelled. A command is given once
or twice over the same tree, so that a second run meets what the first one left.
Assumed: symbolic links point outside the tree and are never followed; the list is in
the order that `FileList` checks.

### Delta and MCDelta

One file as a delta: `checksum1`, `roll` and `digest` in words of size `Word`, so that
they wrap and collide; `match_blocks` and the streaming `process_chunk`; the plain and
run-length token encodings with zlib, zstd and lz4 framing; and the receiver. A strong checksum is the data it was
computed from. A compressor is a sequence of pieces with a sync marker, which is all the
framing code looks at; a decoder that is given pieces no encoder wrote fails or makes up
bytes (`Garbled`).

### MuxFrames, Mux, ByteStream, Varint and MCMux

Two ends run scripts of writes, flushes and reads over a network smaller than a frame.
Every byte of a frame is modelled: `MuxFrames` has the frames and the loop that parses
them, and `Varint` encodes integers byte by byte with the code's widths. Each direction
implements `ByteStream`: nothing lost, repeated, made up or reordered, nothing after the
end, before and after the connection is split. A script is any sequence of operations
that writes nothing after its shutdown and no control message as large as the BufWriter
(`ScriptAssumption`; `write_data` cuts larger data, and the control messages the code
has helpers for are an index or a line of text).

### Noise

One direction of the encrypted stream with the poll functions of both halves, and a
lock which the other half of the same end may hold at any poll.

### FileScan, Filter, FileList, FlistCodec and MCFileList

`FileScan` is the recursive scan as a stack of directories, for its four callers, over a
file system from which entries vanish; `Filter` parses and matches patterns, ordered
rules and per-directory merge files. `FileList` sorts the result (`f_name_cmp` as a walk
over two names), divides it by directory, numbers it on both sides and sends it;
`FlistCodec` encodes and decodes one entry against the one before it, byte by byte, in
each protocol generation. `ListIsWanted` compares the scan with a reference definition
of which paths the rules mean.

### Connect, Handshake, DaemonConfig, ServerArgs and MCConnect

A client reaches a server through the daemon's text protocol (plain or TLS) or over SSH,
and both go through the binary handshake. A line or a handshake value is one token; each
end reads lines through a `BufReader` that may take more than it was asked for.
`ServerArgs` turns flags into options, options into `rsync --server` arguments and those
back into options; `DaemonConfig` turns the configuration file into modules and checks
hosts and users; `Handshake` has the choices of both ends as functions of what was read.
Not reached with this client and this server, hence without a scenario: a client that does
not greet, an `@ERROR` after `#list`, lines over `MAX_LINE_LENGTH` (no length is modelled)
and arguments without a condensed word, for which the parser's slice would panic.

## Runs

| run | instance | shows |
|---|---|---|
| `wire_transfer` | 5 entries, channel 2, transport 1 and 2, buffer 2, 2 tokens, 2 phases, either side failing | pairing by order, pipeline bound, the inductive invariant, refinement of `OrderedTransfer`, termination |
| `session` | all supported options, failures of either side | the sides stay in step, the loop ends complete, completion |
| `session_subdirectories` | two subdirectory groups | **violated**: the session never completes |
| `file_commit` | 2 files of one base name, all options, 2 faults of any kind, reruns | what is reported or skipped is stored, no torn file, no lost version, recovery |
| `commit_on_drop` | one returned error | **violated**: an unfinished file is renamed over the destination |
| `delta` | every source of up to six bits, seven bases, four token encodings | the file is rebuilt, the rolling checksum belongs to its window, failures have a known reason |
| `mux` | scripts of two ends over a pipe of 5 bytes | refinement of `ByteStream`, index bases in step, completion |
| `noise_contention` | 3 bytes in frames of 2 | **violated**: a contended lock ends the stream |
| `file_list` | small trees, protocols 27 to 31, four callers, one vanishing entry | the list is the wanted one, in order, and arrives under the same numbers unless it is one of two named kinds; scan and exchange end |
| `connect` | command lines, versions, modules, users, listings, SSH servers, kills | both ends agree, options are carried but for four named losses, admission follows the file, listings show the right modules, nobody waits for ever |
| `daemon_auth` | the same connections | **violated**: the right password is refused |
| `local` | one or two commands over small trees with timeouts, a full disk and changing sources | success means delivered but for two named losses, links shared or gone, deletions and removals bounded, second run idle, dry run predicts |

A violated run states what a comment of the code says; `findings` in `PROJECT.json`
quotes it. Every property of a passing run has a mutation of a modelled definition that
violates it.

**Bounds.** *WireTransfer*: the code's channel has capacity 4; with capacity 2 and five
entries the generator fills it, blocks and is released. Transport capacities of 1 and 2
make both directions block in every combination, and two tokens make a response longer
than the buffer. Two phases are what `WireFormat::phase_count` gives for current
protocols. *FileCommit*: two files and two faults give a failure in a rerun, and a second
file meeting what the first one left, its backup included. *Delta*: words of two values make the rolling
checksum wrap and collide on bits; blocks and chunks of 3, runs of 4 and frames of 2 put
every boundary within six bits, a chunk that needs two frames among them. *Mux*: a pipe of 5 bytes and frames of at most 4 data bytes
split every header and every integer; indices cross a change of sign and need one to
five bytes. *FileList*: names of 200 and 99 bytes cross the one-byte length;
`MaxVanish` is 1, as a scan ends or goes on at each vanished entry alone. *Connect*:
three address bits suffice for a network inside another. *Local*: seven names, `Ample`
room or room that ends within a file, and a streaming threshold of 4 with files below
and above it.

**Fairness.** Tasks are weakly fair: the runtime polls a task whose I/O is ready, and
I/O on a closed connection returns (`WireTransfer`, `Session`, `Mux`). `FileCommit`
assumes that the receiver goes on and that a failed transfer is run again; faults are
finitely many (`MaxFaults`). `FileList` and `Connect` write weak fairness out as
`[]<>Ended \/ []<><<steps>>_vars`: together with the deadlock check, which shows that
every state without a step is an ended one, this is weak fairness of the steps, and
it spares TLC the evaluation of ENABLED over large states. No fault is fair.

**Deadlock** is checked in `file_list`, `connect` and `local`, whose final states stutter
explicitly. It is not checked elsewhere: those systems stop when they have finished, and
`Terminates`, `Completes` and `Recovers` say that they stop only there; `delta` is
a sequential computation.

## Exceptions

Where the code does not give a guarantee, the property names the case and the case is:

* *A stranded sender* (`multiplex.rs:606`): `write_data`, unlike `flush`, does not read
  while it waits. A receiver that fails inside a response longer than the buffer leaves
  the sender blocked, with the detached generator holding the connection open
  (`Terminates`); two ends that spill at once block each other (`Completes` of `Mux`).
* *Pulls with a subdirectory* (`wire_transfer.rs:906`): the receiver adds a phase round
  per further file list, the sender does not. Outside `SupportedOptions`.
* *`--prune-empty-dirs` without `--delete` on a push* (`session.rs:776`): the client
  writes a filter list that the server does not read. Outside `SupportedOptions`, as
  are `--append` on a pull and `--list-only` on a push, which the server does not have.
* *Removed sources* (`session.rs:865`): a push removes every regular source once its loop
  ends; `LoopEndsComplete` holds for the files that were requested, not for files whose dispatch
  failed with a warning, although `wire_transfer.rs:828-830` says that the acknowledgement decides.
* *Swallowed destructor errors* (`wire_transfer.rs:796`): `ReportedIsStored` and
  `Recovers` exclude the files whose writer failed in its destructor (`lost`).
* *Failed receives* (`atomic_writer.rs:97`): without `--partial-dir` the unfinished file
  is committed (`commit_on_drop`); `Sheltered` excludes those files (`cut`).
* *`--backup-dir`* (`file_decision.rs:179-181`): a backup has only the base name of its
  file, so files of one name in different directories replace each other's backups.
  Without a swallowed error `VersionKept` still holds, since a session completes the file
  it has moved away before it moves the next. After one, a file that is handled again
  is moved over the last version of another; `VersionKept` excludes that.
* *Times that cannot be set* (`file_decision.rs:245-247`): a warning only. `Recovers` asks
  for the content of such a file and not for its times, and `SecondRunIdle` is about
  destinations on which times can be set.
* *`--inplace` with `--partial-dir`* fails in every session, so `Recovers` excludes it.
* *Streaming matcher* (`matcher.rs:350`): after a refill that follows a miss the rolling
  value is that of the window before (`RollingInStep` excludes it); matches are missed and
  the file is still rebuilt, but the result is not the one of the whole-file matcher that
  `matcher.rs:141-143` promises. With a first chunk shorter than a block
  (`matcher.rs:291`) the rest is not read: `Reconstruction` is about chunks that hold a block.
* *Compressed literals* (`token.rs:281`): a literal that the frames of zlib or lz4 do not
  carry may be decoded to rubbish on the way; `Reconstruction` allows it there, and it is
  never accepted (`FailuresExplained` says when a transfer fails).
* *Lists out of step* (`OutOfStep`): in an incremental list the encoder remembers hard
  links, ACLs and attributes across sub-lists, and the decoder starts each list afresh
  (`hlink.rs:246`, `incremental.rs:113-115`); with the one-byte flags of protocol 27 a later
  name of an inode is abbreviated without a mark (`flags.rs:341-342`). `file_list` has such
  lists, and they end in an error or in wrong entries; `ListArrives` is about the others.
* *Times before 1970* (`varint.rs:209`): of the lists in step, the one kind a receiver refuses.
* *Options that do not arrive* (`session.rs:309` calls the parser "the inverse" of the
  writer): `--append-verify` is sent as two `--append` and read as one, so the server
  appends without verifying; `--copy-dest` and `--compare-dest` are neither sent nor read;
  an empty suffix beside `--backup-dir` is not sent and read as `~`; `-q` and repeated `-v`
  are flattened. `OptionsCarried` says that nothing else is missing.
* *The MOTD in a listing* (`daemon.rs:148-155`): `list_modules`, which "returns the list of
  modules", returns each line of the MOTD as a module as well. `ListingFaithful` is about
  the entries after them.
* *Losses of a local transfer that succeeds* (`Mirrored`): with `--checksum` an empty file
  is never created, as it equals a missing one (`NeverCreated`, `transfer.rs:325-336`); a
  long file is not delivered over a directory, as the destructor swallows the error of the
  rename (`LostInDrop`, `file_decision.rs:215-229`), and with `--remove-source-files` its
  source is removed all the same (`SourcesSafe`).
* *Hard links of a file that is not there* (`receiver_engine.rs:1003`): when the first name
  was skipped or lost, the later names are removed, and the failed link is a warning.
  `HardLinksShare` states this.
* *Sources rewritten under way* (`transfer.rs:429`): a file rewritten while the delta
  pipeline holds its data is removed with the rewrite (`SourcesSafe`, `touched.raced`).
* *Path rules and `--delete`* (`transfer.rs:250`): rules are asked for bare names, so a rule
  on a path below the top protects nothing, although `core/tests/interop/scenarios.rs:355`
  says that "excluded files on receiver are protected from deletion" (`DeletesBounded`).
* *A truncated mapping* (`unix.rs:300`): `--inplace` truncates the file it has mapped as
  basis; the resulting signal is outside the models.

## Proofs

### WireTransfer

`WireTransferProofs`: types, lemmas on queues, the actions of the three tasks, the
theorems. They hold for every number of entries, every capacity, token and phase count
and every set of faults (`WireAssumption`):

* `TypeCorrect`: the type invariant `TypeOK`, capacities included;
* `QueuesInOrder`: the inductive invariant `TypeOK /\ QueueOrder`;
* `PairingHolds`: `ResponsePairing`, the receiver reads the response to the file it
  is writing;
* `ReceivedInOrder`: `AllReceived`, files finish in request order and all of them before
  the phase exchange;
* `PipelineBounded`: `PipelineBound`;
* `Implements`: `IsOrderedTransfer`, the refinement of `OrderedTransfer`.

`ResponsePairing` speaks only of the frame at the head of a queue and is not
inductive. `QueueOrder` says of *all* elements of the channel and of both directions
that they are consecutive in the log of requests, where each queue starts (at the
item or request its reader holds) and where it ends (at what its writer has done).
The proof has lemmas on what a queue holds after a write, a read or a loss of its
end; one lemma per task shows that its actions preserve `QueueOrder`, action by
action; the properties follow from the invariant alone. For the refinement, a request
of the generator, the end of a response, the join and a failure are the visible steps:
the invariant says that the finished file is the one requested next, that the exchange
begins with everything finished, and that nothing is requested after it.

### FileCommit

`FileCommitProofs`, for any number of files, any subset of the options and any number of
faults of any kind (`CommitAssumption`): `TypeCorrect`, `ReportsHold`
(`ReportedIsStored`), `NeverTorn` (`NoTornFile`) and `VersionSurvives` (`VersionKept`).
The properties are not inductive: a step that commits needs to know what it commits. The
invariant `Inv` adds that reported files lie behind the one being handled (`Behind`), that
what `finish_file` is about to rename or stamp is the new file unless its writer failed
silently (`Written`), that the source's time marks a complete file (`Stamped`: the quick
check rests on it), and that `--inplace` leaves the partial directory alone (`SlotFree`).

For `VersionKept` there are two arguments. A backup beside its file is replaced only by
that file, and only by a complete one (`Beside`). A backup in `--backup-dir` may be
replaced by any file, so one must know that it is not needed: as long as no error was
swallowed, the file being handled is not up to date (`Pending`), all before it are
(`Ahead`), and a file whose version is in the backup directory only is the first that is
not up to date (`Single`). The next file to be moved away is therefore that file, whose
destination does not exist, and nothing is moved over its backup.

### Session

In two modules: `SessionInvariant` (the invariant, lemmas on the operators, the sender's
actions) and `SessionProofs` (the receiver's actions, failures and the theorems), for any
number of files and phases and any options of `SupportedOptions`: `TypeCorrect`,
`InStepHolds` (`InStep`) and `LoopEndsCompleteHolds` (`LoopEndsComplete`). The theorems
assume `Options \subseteq SupportedOptions`: outside of it the two sides do disagree, as
*Exceptions* lists and `session_subdirectories` shows.

`InStep` says that no side has met a frame it did not expect, which says nothing about the
frames under way. The argument counts. The frames of one direction spell a word
(`SenderWord`, `ReceiverWord`) fixed by the options and the number of requests; the
inductive invariant `IInv` gives for every place in a side's program how many frames it has
written and read there (`ReceiverRead`, `ReceiverWrote`, `AtSender`), and says that what
is in flight is the part of the word between the two counts. Each read then meets the
letter its stage expects. A side that has failed stays where it was (`Together`), so its
peer's reads up to the end of the connection are covered by the same words. TLC has checked
`IInv` on all supported options before it was proved.

### Mux

`TypeCorrect`, `IndicesHold` (`IndicesInStep`) and `Implements` (`IsByteStream`), for any
scripts, both integer codecs and any size of chunk, BufWriter and pipe (`MuxAssumption`,
`ChunkAssumption`, `ScriptAssumption`). In four modules:

* `MuxStreams`: induction over numbers and finite iteration as first-order lemmas, slices
  of sequences, the integers (`NdxRoundTrip`: for every index of 32 bits and every state,
  `read_ndx` gives back what `write_ndx` was given and reaches the writer's state;
  `NdxPrefix`: from any part of an encoding the reader wants at least one byte more and
  never one too many), and the bytes of a sequence of frames (`Framed`);
* `MuxChannels`: one direction of the connection, operation by operation;
* `MuxWriting`: the invariant `Inv` and one lemma per action of the writer;
* `MuxProofs`: one lemma per action of the reader, and the theorems.

That what was served is a prefix of what was sent says nothing of the bytes under way,
so it is not inductive. `Inv` says for each direction that *some history explains the
buffers* (`Channel`): there are the bytes of a sequence of frames, with the places where
each frame and its data begin, such that staging buffer, network, BufWriter and waiting
buffers are consecutive slices of it up to its end; the first of them starts where the
last parsed frame ended; and served bytes, current chunk and queue are consecutive slices
of the data up to the same frame. A write extends the history, and every other action moves a
boundary in it; the parse loop (`ChannelParse`) moves one over whole frames and, having
at least four bytes to a frame, leaves none behind. In the same way `Indexed` says that the
data is a sequence of encoded indices, of which the reader has taken whole ones and a
part of the next. The end of the stream is the case in which all slices behind
the served bytes are empty (`ChannelEnd`). The histories are existential, so TLC cannot
evaluate `Inv`; its consequences `TypeOK`, `IndicesInStep` and `IsByteStream` are what the run `mux` checks.

### Only model-checked

Liveness (`Terminates`, `Completes`, `Recovers`, `Connects`, `ScanAndExchangeEnd`), which
needs fairness; `Delta`, `FileList` and `FlistCodec`, which rest on recursive definitions
over bytes; `Connect` and `Local`, whose behaviour is that of the scenarios they are given.

## Not modelled

* Without a caller in production code: the content-defined chunker, the compressed-token
  wrappers of `token.rs`, `start_demux` with `MplexReader` and `ChannelReader`,
  `DiagnosticDecoder`, iconv, the streaming file-list receivers, the sub-list wrappers
  with fresh state, `walk.rs`, inline user and group names, `execute_transfer_streaming`,
  the replay of batch files (`run_read_batch`).
* Pure conversions and data: chmod rules, path and size parsing,
  itemized output, progress events, the byte encoding of signatures and iflags.
* Input and output without control of its own: recording of batch files, CLI output, Python bindings,
  Windows file access, fake-super, ownership and permission calls.
* Set-up of external libraries: QUIC, SSH configuration, certificates, the Noise key
  exchange.
* Left out of a modelled part: fuzzy bases, module path resolution, global parameters of
  `rsyncd.conf`, the task control of `pipeline.rs` (`Local` takes its result, `Delta`
  checks it).
