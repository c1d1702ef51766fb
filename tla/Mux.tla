--------------------------------- MODULE Mux ---------------------------------
(***************************************************************************)
(* Two ends of a multiplexed connection.  Each end runs a script: it writes *)
(* file indices and control messages, flushes, reads indices, splits the    *)
(* connection, shuts down.  Every byte of every frame is modelled; the      *)
(* network is a bounded pipe each way that moves any number of bytes.       *)
(***************************************************************************)
EXTENDS MuxFrames

CONSTANTS
    Scripts,      \* a script for each end, and the integer codec they agreed on
    BufSize,      \* MPLEX_BUF_SIZE, the capacity of the BufWriter
    PipeSize      \* what the network holds in one direction

Ends == {"A", "B"}
Peer(e) == IF e = "A" THEN "B" ELSE "A"

ASSUME MuxAssumption == PipeSize \in Nat \ {0} /\ BufSize \in Nat /\ BufSize > DataChunk

\* A script: an index has an absolute value, a control message a code other than
\* MSG_DATA and a payload that its header can express and the BufWriter hold, and
\* nothing is written after the shutdown.
IsProgram(s) ==
    /\ DOMAIN s = 1..Len(s) /\ Len(s) \in Nat
    /\ \A i \in DOMAIN s :
          /\ s[i].op = "ndx" => s[i].ndx \in (-MaxNdx)..MaxNdx
          /\ s[i].op = "msg" => /\ s[i].code \in 1..248
                                /\ s[i].payload \in Seq(Bytes) /\ Len(s[i].payload) <= MAX_PAYLOAD
                                /\ Len(s[i].payload) < BufSize
          /\ s[i].op = "split" => s[i].reads \in Nat
          /\ s[i].op = "shutdown" => \A j \in DOMAIN s : j > i => s[j].op \notin {"ndx", "msg"}

ASSUME ScriptAssumption ==
    \A s \in Scripts : s.codec \in {"Fixed", "Compact"} /\ \A e \in Ends : IsProgram(s[e])

VARIABLES
    script, pc,           \* the program of each end and its position
    split, toRead,        \* split into tasks; indices the reader task still wants
    todo, wbuf,           \* buffers given to write_all; contents of the BufWriter
    spill,                \* the BufWriter is pushing its contents out to make room
    net, closed,          \* bytes on their way from an end; its writer is shut down
    staging, readBuf, current,    \* the reader's buffers
    partial,              \* bytes of the index being read
    ndxOut, ndxIn,        \* NdxState of writer and reader
    wrote, read,          \* indices written and read
    sent, got, eof        \* data bytes written, served; the end was reported

vars == <<script, pc, split, toRead, todo, wbuf, spill, net, closed, staging, readBuf, current,
          partial, ndxOut, ndxIn, wrote, read, sent, got, eof>>
writeVars == <<todo, wbuf, spill, ndxOut, wrote, sent>>
readVars == <<staging, readBuf, current, partial, ndxIn, read, got, eof>>
progVars == <<script, pc, split, toRead>>

\* What arrives goes to the staging buffer, which is then parsed.
Parsed(e, bytes) == parse_frames_from_staging(staging[e] \o bytes, readBuf[e])

-----------------------------------------------------------------------------

Init ==
    /\ script \in Scripts
    /\ pc = [e \in Ends |-> 1]
    /\ split = [e \in Ends |-> FALSE]
    /\ toRead = [e \in Ends |-> 0]
    /\ closed = [e \in Ends |-> FALSE]
    /\ todo = [e \in Ends |-> <<>>]
    /\ wbuf = [e \in Ends |-> <<>>]
    /\ spill = [e \in Ends |-> FALSE]
    /\ net = [e \in Ends |-> <<>>]
    /\ staging = [e \in Ends |-> <<>>]
    /\ readBuf = [e \in Ends |-> <<>>]
    /\ current = [e \in Ends |-> <<>>]
    /\ partial = [e \in Ends |-> <<>>]
    /\ ndxOut = [e \in Ends |-> NdxState]
    /\ ndxIn = [e \in Ends |-> NdxState]
    /\ wrote = [e \in Ends |-> <<>>]
    /\ read = [e \in Ends |-> <<>>]
    /\ sent = [e \in Ends |-> <<>>]
    /\ got = [e \in Ends |-> <<>>]
    /\ eof = [e \in Ends |-> FALSE]

At(e, op) == pc[e] <= Len(script[e]) /\ script[e][pc[e]].op = op
Codec == script.codec
Item(e) == script[e][pc[e]]
Advance(e) == pc' = [pc EXCEPT ![e] = @ + 1]

-----------------------------------------------------------------------------
\* Writing.

\* write_data: whole frames already received are parsed, then the chunks of an
\* index go to the buffered writer.
WriteIndex(e) ==
    /\ At(e, "ndx") /\ todo[e] = <<>>
    /\ LET w == write_ndx(Item(e).ndx, ndxOut[e], Codec)
           p == Parsed(e, <<>>)
       IN /\ ndxOut' = [ndxOut EXCEPT ![e] = w.state]
          /\ todo' = [todo EXCEPT ![e] = DataFrames(w.bytes)]
          /\ sent' = [sent EXCEPT ![e] = @ \o w.bytes]
          /\ staging' = IF split[e] THEN staging ELSE [staging EXCEPT ![e] = p.staging]
          /\ readBuf' = IF split[e] THEN readBuf ELSE [readBuf EXCEPT ![e] = p.queue]
    /\ wrote' = [wrote EXCEPT ![e] = Append(@, Item(e).ndx)]
    /\ Advance(e)
    /\ UNCHANGED <<script, split, toRead, wbuf, spill, net, closed, current, partial, ndxIn, read, got, eof>>

\* write_message with a control code.
WriteControl(e) ==
    /\ At(e, "msg") /\ todo[e] = <<>>
    /\ todo' = [todo EXCEPT ![e] = Frame(Item(e).code, Item(e).payload)]
    /\ Advance(e)
    /\ UNCHANGED <<script, split, toRead, wbuf, spill, net, closed, ndxOut, wrote, sent, readVars>>

\* Mutant: the buffer takes what does not fit.
Fits_always(e) == TRUE

\* tokio's BufWriter: what does not fit first pushes the whole buffer out.  No frame
\* is as large as the buffer, so nothing is written past it.
Fits(e) == Len(wbuf[e]) + Len(Head(todo[e])) <= BufSize

Buffer(e) ==
    /\ todo[e] # <<>>
    /\ Fits(e) /\ ~spill[e]
    /\ wbuf' = [wbuf EXCEPT ![e] = @ \o Head(todo[e])]
    /\ todo' = [todo EXCEPT ![e] = Tail(@)]
    /\ UNCHANGED <<progVars, spill, net, closed, ndxOut, wrote, sent, readVars>>

\* The writer is waiting for the network inside write_all.
Spilling(e) == todo[e] # <<>> /\ (spill[e] \/ ~Fits(e))
Flushing(e) == todo[e] = <<>> /\ (At(e, "flush") \/ At(e, "shutdown"))

\* The network takes one byte or all that it has room for.
Amounts(n) == IF n = 0 THEN {} ELSE {1, n}

PushBuffer(e) ==
    /\ wbuf[e] # <<>> /\ (Spilling(e) \/ Flushing(e))
    /\ \E n \in Amounts(Min({Len(wbuf[e]), PipeSize - Len(net[e])})) :
          /\ net' = [net EXCEPT ![e] = @ \o SubSeq(wbuf[e], 1, n)]
          /\ wbuf' = [wbuf EXCEPT ![e] = From(@, n + 1)]
          /\ spill' = [spill EXCEPT ![e] = todo[e] # <<>> /\ n < Len(wbuf[e])]
    /\ UNCHANGED <<progVars, closed, todo, ndxOut, wrote, sent, readVars>>

\* flush: biased towards the flush future, so it returns once the buffer is out.
FlushReturns(e) ==
    /\ At(e, "flush") /\ Flushing(e) /\ wbuf[e] = <<>>
    /\ Advance(e)
    /\ UNCHANGED <<script, split, toRead, net, closed, writeVars, readVars>>

\* Mutant: flush waits for the writer alone.
FlushReads_never(e) == FALSE /\ UNCHANGED vars

\* flush, the other arm: while the network takes nothing, what the peer has sent
\* is moved to the staging buffer and parsed.
FlushReads(e) ==
    /\ At(e, "flush") /\ Flushing(e) /\ ~split[e]
    /\ wbuf[e] # <<>> /\ Len(net[e]) = PipeSize
    /\ \E n \in Amounts(Len(net[Peer(e)])) :
          LET p == Parsed(e, SubSeq(net[Peer(e)], 1, n))
          IN /\ net' = [net EXCEPT ![Peer(e)] = From(@, n + 1)]
             /\ staging' = [staging EXCEPT ![e] = p.staging]
             /\ readBuf' = [readBuf EXCEPT ![e] = p.queue]
    /\ UNCHANGED <<progVars, closed, writeVars, current, partial, ndxIn, read, got, eof>>

\* shutdown: the buffer is flushed, then the write half is closed.
Shutdown(e) ==
    /\ At(e, "shutdown") /\ Flushing(e) /\ wbuf[e] = <<>>
    /\ closed' = [closed EXCEPT ![e] = TRUE]
    /\ Advance(e)
    /\ UNCHANGED <<script, split, toRead, net, writeVars, readVars>>

\* Mutant: the split loses the frames that were queued.
IntoSplit_dropsFrames(e) ==
    /\ At(e, "split") /\ todo[e] = <<>>
    /\ split' = [split EXCEPT ![e] = TRUE]
    /\ toRead' = [toRead EXCEPT ![e] = Item(e).reads]
    /\ readBuf' = [readBuf EXCEPT ![e] = <<>>]
    /\ Advance(e)
    /\ UNCHANGED <<script, net, closed, writeVars, staging, current, partial, ndxIn, read, got, eof>>

\* into_split: the reader keeps everything that was buffered; from here on a
\* task of its own reads.
IntoSplit(e) ==
    /\ At(e, "split") /\ todo[e] = <<>>
    /\ split' = [split EXCEPT ![e] = TRUE]
    /\ toRead' = [toRead EXCEPT ![e] = Item(e).reads]
    /\ Advance(e)
    /\ UNCHANGED <<script, net, closed, writeVars, readVars>>

-----------------------------------------------------------------------------
\* Reading.

\* Somebody wants bytes: the script before the split, the reader task after it.
Reading(e) ==
    /\ ~eof[e]
    /\ IF split[e] THEN toRead[e] > 0 ELSE todo[e] = <<>> /\ (At(e, "read") \/ At(e, "end"))

\* The index is complete, or the read goes on.
Took(e, bytes) ==
    LET s == partial[e] \o bytes
        done == Len(s) = NdxLength(s, Codec)
        r == read_ndx(s, ndxIn[e], Codec)
    IN /\ got' = [got EXCEPT ![e] = @ \o bytes]
       /\ partial' = [partial EXCEPT ![e] = IF done THEN <<>> ELSE s]
       /\ ndxIn' = IF done THEN [ndxIn EXCEPT ![e] = r.state] ELSE ndxIn
       /\ read' = IF done THEN [read EXCEPT ![e] = Append(@, r.ndx)] ELSE read
       /\ pc' = IF done /\ ~split[e] THEN [pc EXCEPT ![e] = @ + 1] ELSE pc
       /\ toRead' = IF done /\ split[e] THEN [toRead EXCEPT ![e] = @ - 1] ELSE toRead
       /\ eof' = [eof EXCEPT ![e] = bytes = <<>>]

Wanted(e) == NdxLength(partial[e], Codec) - Len(partial[e])

\* poll_read, step 1: the chunk that was only partly served.
ServeCurrent(e) ==
    /\ Reading(e) /\ current[e] # <<>>
    /\ LET n == Min({Wanted(e), Len(current[e])})
       IN /\ Took(e, SubSeq(current[e], 1, n))
          /\ current' = [current EXCEPT ![e] = From(@, n + 1)]
    /\ UNCHANGED <<script, split, net, closed, writeVars, staging, readBuf>>

\* serve_chunk on the first chunk of a queue.
serve_chunk(e, queue) ==
    LET n == Min({Wanted(e), Len(queue[1])})
    IN /\ Took(e, SubSeq(queue[1], 1, n))
       /\ current' = [current EXCEPT ![e] = From(queue[1], n + 1)]
       /\ readBuf' = [readBuf EXCEPT ![e] = Tail(queue)]

\* poll_read, step 2: frames that are already in the buffers.
ServeBuffered(e) ==
    /\ Reading(e) /\ current[e] = <<>>
    /\ LET p == Parsed(e, <<>>)
       IN /\ p.queue # <<>>
          /\ serve_chunk(e, p.queue)
          /\ staging' = [staging EXCEPT ![e] = p.staging]
    /\ UNCHANGED <<script, split, net, closed, writeVars>>

\* poll_read, step 3: bytes from the network; without a whole data frame the
\* caller is woken to try again.
ReadWire(e) ==
    /\ Reading(e) /\ current[e] = <<>> /\ Parsed(e, <<>>).queue = <<>>
    /\ \E n \in Amounts(Len(net[Peer(e)])) :
          LET p == Parsed(e, SubSeq(net[Peer(e)], 1, n))
          IN /\ net' = [net EXCEPT ![Peer(e)] = From(@, n + 1)]
             /\ staging' = [staging EXCEPT ![e] = p.staging]
             /\ IF p.queue = <<>>
                THEN /\ readBuf' = [readBuf EXCEPT ![e] = <<>>]
                     /\ UNCHANGED <<current, partial, ndxIn, read, got, eof, pc, toRead>>
                ELSE serve_chunk(e, p.queue)
    /\ UNCHANGED <<script, split, closed, writeVars>>

\* The wire has ended: zero bytes, whatever is left in the staging buffer.
ReadEof(e) ==
    /\ Reading(e) /\ current[e] = <<>> /\ Parsed(e, <<>>).queue = <<>>
    /\ net[Peer(e)] = <<>> /\ closed[Peer(e)]
    /\ eof' = [eof EXCEPT ![e] = TRUE]
    /\ UNCHANGED <<progVars, net, closed, writeVars, staging, readBuf, current, partial, ndxIn, read, got>>

-----------------------------------------------------------------------------

Writer(e) ==
    \/ WriteIndex(e) \/ WriteControl(e) \/ Buffer(e) \/ PushBuffer(e)
    \/ FlushReturns(e) \/ FlushReads(e) \/ Shutdown(e) \/ IntoSplit(e)
Reader(e) == ServeCurrent(e) \/ ServeBuffered(e) \/ ReadWire(e) \/ ReadEof(e)

Next == \E e \in Ends : Writer(e) \/ Reader(e)

Spec == Init /\ [][Next]_vars

\* The runtime keeps polling every task that can make progress.
FairSpec == Spec /\ \A e \in Ends : WF_vars(Writer(e)) /\ WF_vars(Reader(e))

-----------------------------------------------------------------------------
\* Properties.

\* Type invariant: bytes are bytes, nothing is larger than its buffer, and an index
\* that is being read is shorter than the longest one.
TypeOK ==
    /\ \A e \in Ends : \A s \in {wbuf[e], net[e], staging[e], current[e], partial[e]} :
           Range(s) \subseteq Bytes
    /\ \A e \in Ends : Len(wbuf[e]) <= BufSize /\ Len(net[e]) <= PipeSize
    /\ \A e \in Ends : Len(partial[e]) <= 5 /\ toRead[e] \in Nat

\* The two directions of the connection, as byte streams.
AtoB == INSTANCE ByteStream WITH sent <- sent["A"], got <- got["B"], eof <- eof["B"]
BtoA == INSTANCE ByteStream WITH sent <- sent["B"], got <- got["A"], eof <- eof["A"]

\* Refinement: through frames, chunks, buffers, the flush that reads and the split,
\* each direction of the connection is a byte stream that loses, repeats and reorders
\* nothing, and ends only after its last byte (multiplex.rs, MuxConnection and
\* BufferedMplexReader).
IsByteStream == AtoB!Spec /\ BtoA!Spec

\* The indices an end reads are the ones its peer wrote, in order, and once all of
\* them are read the two NdxStates agree, so the next difference is taken from the
\* same base on both sides (varint.rs, read_ndx and write_ndx).
IndicesInStep ==
    \A e \in Ends :
        LET p == Peer(e)
        IN /\ Len(read[e]) <= Len(wrote[p]) /\ read[e] = SubSeq(wrote[p], 1, Len(read[e]))
           /\ read[e] = wrote[p] => ndxIn[e] = ndxOut[p]

\* An end that waits for the network without taking anything from it: write_data
\* over a full buffer, or shutdown.
Blocked(e) ==
    /\ ~split[e]
    /\ Len(net[e]) = PipeSize
    /\ Spilling(e) \/ (At(e, "shutdown") /\ Flushing(e) /\ wbuf[e] # <<>>)

Done(e) == toRead[e] = 0 /\ todo[e] = <<>> /\ (pc[e] > Len(script[e]) \/ (At(e, "end") /\ eof[e]))

\* Two ends that write, flush and read in matching order both finish, however little
\* the network holds, because flush reads while it waits (multiplex.rs, flush).  The
\* one way to stop is both ends spilling inside write_data, which does not read.
Completes == <>(\A e \in Ends : Done(e)) \/ <>[](\A e \in Ends : Blocked(e))
=============================================================================
