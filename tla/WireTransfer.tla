---------------------------- MODULE WireTransfer ----------------------------
(***************************************************************************)
(* The pipelined transfer of ferrosync-engine/src/wire_transfer.rs: the    *)
(* sender (sender_loop), and on the other side of the connection the       *)
(* generator task and the receiver task (receiver_loop_pipelined), with    *)
(* the phase exchange that ends the transfer.                              *)
(*                                                                         *)
(*   generator --r2s--> sender --s2r--> receiver                           *)
(*       `--------------chan-------------^                                 *)
(*                                                                         *)
(* r2s and s2r are the two directions of the connection, bounded by the    *)
(* transport; chan is the bounded mpsc channel.  The receiver ignores the  *)
(* NDX of a response (wire_transfer.rs:746): that it writes the right      *)
(* bytes to the right file rests on the order of three queues.             *)
(*                                                                         *)
(* The two buffers in front of the transport are prefixes and suffixes of  *)
(* the queues rather than queues of their own: the first nIn frames of r2s *)
(* are already in the sender's memory (MuxConnection::read_buf), and the   *)
(* last nBuf frames of s2r have not left its BufWriter yet.                *)
(*                                                                         *)
(* Every frame and item carries a field k, an auxiliary no action reads:   *)
(* the number of transfer requests written up to and including its own.    *)
(***************************************************************************)
EXTENDS Integers, Sequences

CONSTANTS
    N,          \* number of entries of the file list
    ChanCap,    \* capacity of the generator -> receiver channel (4 in the code)
    ReqCap,     \* frames the transport holds on the way to the sender
    RespCap,    \* frames the transport holds on the way to the receiver
    BufCap,     \* frames the sender's BufWriter holds
    MaxTok,     \* most token frames of one response (a bound of the model)
    MaxPhase,   \* WireFormat::phase_count: 2 from protocol 29 on, 1 before
    Faults      \* which faults happen: a subset of {"sender", "receiver"}

ASSUME WireAssumption ==
    /\ N \in Nat
    /\ ChanCap \in Nat \ {0}
    /\ ReqCap \in Nat \ {0}
    /\ RespCap \in Nat \ {0}
    /\ BufCap \in Nat \ {0}
    /\ MaxTok \in Nat
    /\ MaxPhase \in Nat
    /\ Faults \subseteq {"sender", "receiver"}

VARIABLES
    pcG,        \* where the generator task is
    gIdx,       \* the entry it dispatches next
    gItem,      \* the GeneratorItem it is about to send
    chan,       \* gen_tx / gen_rx
    pcR,        \* where the receiver task, then the phase exchange, is
    rItem,      \* the GeneratorItem the receiver is handling
    rRound,     \* phase rounds it has completed
    written,    \* successful_ndxs: entries received and finished, in order
    acked,      \* MSG_SUCCESS messages sent for them
    pcS,        \* where sender_loop is
    sNext,      \* where it goes once its flush returns
    sCur,       \* the request it answers, or the last one it answered
    sTok,       \* token frames written for it
    sPhase,     \* `phase` of sender_loop
    r2s, nIn,   \* frames to the sender; the first nIn are in read_buf
    s2r, nBuf,  \* frames to the receiver; the last nBuf are in the BufWriter
    reqs        \* auxiliary: the entries requested so far, in order

genVars == <<pcG, gIdx, gItem>>
recvVars == <<pcR, rItem, rRound, written, acked>>
sendVars == <<pcS, sNext, sCur, sTok, sPhase>>
vars == <<genVars, chan, recvVars, sendVars, r2s, nIn, s2r, nBuf, reqs>>

-----------------------------------------------------------------------------
\* Items of the channel and frames of the two directions.

Entries == 1..N
Item(type, idx, k) == [type |-> type, idx |-> idx, k |-> k]
Items ==
    [type : {"transfer"}, idx : Entries, k : Nat]
        \cup [type : {"handled", "deferred", "done"}, idx : 0..N, k : Nat]
Frame(type, ndx, k) == [type |-> type, ndx |-> ndx, k |-> k]
ReqFrames == [type : {"req", "success", "done"}, ndx : 0..N, k : Nat]
RespFrames == [type : {"hdr", "tok", "eof", "done"}, ndx : 0..N, k : Nat]

NoItem == Item("done", 0, 0)

\* Room in the transport, and the frame count the receiver can read.
ReqRoom == Len(r2s) - nIn < ReqCap
OnWire == Len(s2r) - nBuf
RespRoom == OnWire < RespCap

SenderGone == pcS = "failed"
\* A socket closes when both of its halves are dropped: the receiver task drops
\* the read half when it fails, the detached generator task the write half when
\* it returns.
ReceiverGone == pcR = "failed" /\ pcG \in {"exited", "failed"}

Init ==
    /\ pcG = "dispatch" /\ gIdx = 1 /\ gItem = NoItem
    /\ chan = <<>>
    /\ pcR = "item" /\ rItem = NoItem /\ rRound = 0
    /\ written = <<>> /\ acked = 0
    /\ pcS = "read" /\ sNext = "read" /\ sCur = Frame("req", 0, 0)
    /\ sTok = 0 /\ sPhase = 0
    /\ r2s = <<>> /\ nIn = 0
    /\ s2r = <<>> /\ nBuf = 0
    /\ reqs = <<>>

-----------------------------------------------------------------------------
\* The generator task (wire_transfer.rs:569-677).

\* What dispatch_entry decides for an entry, an error of its own included.  Only
\* "handled", "deferred" and "transfer" reach the receiver task.
GenDispatch ==
    /\ pcG = "dispatch" /\ gIdx \in Entries
    /\ gIdx' = gIdx + 1
    /\ \/ UNCHANGED <<pcG, gItem>>      \* Skipped, or dispatch_entry failed
       \/ /\ \E kind \in {"handled", "deferred"} :
                gItem' = Item(kind, gIdx, Len(reqs))
          /\ pcG' = "send"
       \/ /\ gItem' = Item("transfer", gIdx, Len(reqs) + 1)
          /\ pcG' = "write"
    /\ UNCHANGED <<chan, recvVars, sendVars, r2s, nIn, s2r, nBuf, reqs>>

GenDone ==
    /\ pcG = "dispatch" /\ gIdx \notin Entries
    /\ gItem' = Item("done", 0, Len(reqs))
    /\ pcG' = "send"
    /\ UNCHANGED <<gIdx, chan, recvVars, sendVars, r2s, nIn, s2r, nBuf, reqs>>

\* write_data + flush of NDX, iflags and signatures: done before the receiver is
\* told of the file.
GenWrite ==
    /\ pcG = "write" /\ ReqRoom
    /\ r2s' = Append(r2s, Frame("req", gItem.idx, gItem.k))
    /\ reqs' = Append(reqs, gItem.idx)
    /\ pcG' = "send"
    /\ UNCHANGED <<gIdx, gItem, chan, recvVars, sendVars, nIn, s2r, nBuf>>

GenWriteErr ==
    /\ pcG = "write" /\ SenderGone
    /\ pcG' = "failed"
    /\ UNCHANGED <<gIdx, gItem, chan, recvVars, sendVars, r2s, nIn, s2r, nBuf, reqs>>

\* Mutation of GenSend: the channel does not exert back-pressure.
GenSendUnbounded ==
    /\ pcG = "send" /\ pcR # "failed"
    /\ chan' = Append(chan, gItem)
    /\ pcG' = IF gItem.type = "done" THEN "exited" ELSE "dispatch"
    /\ UNCHANGED <<gIdx, gItem, recvVars, sendVars, r2s, nIn, s2r, nBuf, reqs>>

GenSend ==
    /\ pcG = "send" /\ pcR # "failed" /\ Len(chan) < ChanCap
    /\ chan' = Append(chan, gItem)
    /\ pcG' = IF gItem.type = "done" THEN "exited" ELSE "dispatch"
    /\ UNCHANGED <<gIdx, gItem, recvVars, sendVars, r2s, nIn, s2r, nBuf, reqs>>

\* gen_rx was dropped with the receiver task: break, and the Done item is lost.
GenSendErr ==
    /\ pcG = "send" /\ pcR = "failed"
    /\ pcG' = "exited"
    /\ UNCHANGED <<gIdx, gItem, chan, recvVars, sendVars, r2s, nIn, s2r, nBuf, reqs>>

-----------------------------------------------------------------------------
\* The receiver task (wire_transfer.rs:687-818) and the phase exchange.

RecvItem ==
    /\ pcR = "item" /\ chan # <<>>
    /\ rItem' = Head(chan)
    /\ chan' = Tail(chan)
    /\ pcR' = CASE Head(chan).type = "transfer" -> "hdr"
                [] Head(chan).type = "done" -> "join"
                [] OTHER -> "item"
    /\ UNCHANGED <<genVars, rRound, written, acked, sendVars, r2s, nIn, s2r, nBuf, reqs>>

\* The channel is closed: the generator task ended without a Done item.
RecvClosed ==
    /\ pcR = "item" /\ chan = <<>> /\ pcG \in {"exited", "failed"}
    /\ pcR' = "join"
    /\ UNCHANGED <<genVars, chan, rItem, rRound, written, acked, sendVars, r2s, nIn, s2r, nBuf, reqs>>

\* NDX, iflags and sum_head; the NDX is read and not compared with anything.
RecvHdr ==
    /\ pcR = "hdr" /\ OnWire > 0
    /\ s2r' = Tail(s2r)
    /\ pcR' = "body"
    /\ UNCHANGED <<genVars, chan, rItem, rRound, written, acked, sendVars, r2s, nIn, nBuf, reqs>>

\* Tokens up to the end-of-file token and the checksum, then finish_file.
RecvBody ==
    /\ pcR = "body" /\ OnWire > 0
    /\ s2r' = Tail(s2r)
    /\ \/ /\ Head(s2r).type = "eof"
          /\ written' = Append(written, rItem.idx)
          /\ pcR' = "item"
       \/ /\ Head(s2r).type # "eof"
          /\ UNCHANGED <<written, pcR>>
    /\ UNCHANGED <<genVars, chan, rItem, rRound, acked, sendVars, r2s, nIn, nBuf, reqs>>

\* create_writer, a token, the checksum or finish_file fails: the function
\* returns and leaves the generator task detached.
RecvFault ==
    /\ "receiver" \in Faults /\ pcR = "body"
    /\ pcR' = "failed"
    /\ UNCHANGED <<genVars, chan, rItem, rRound, written, acked, sendVars, r2s, nIn, s2r, nBuf, reqs>>

\* Mutation of RecvEof: a connection cut inside a response counts as its end.
RecvEofSwallowed ==
    /\ pcR \in {"hdr", "body", "phase_read"} /\ OnWire = 0 /\ SenderGone
    /\ pcR' = IF pcR = "body" THEN "item" ELSE "failed"
    /\ UNCHANGED <<genVars, chan, rItem, rRound, written, acked, sendVars, r2s, nIn, s2r, nBuf, reqs>>

RecvEof ==
    /\ pcR \in {"hdr", "body", "phase_read"} /\ OnWire = 0 /\ SenderGone
    /\ pcR' = "failed"
    /\ UNCHANGED <<genVars, chan, rItem, rRound, written, acked, sendVars, r2s, nIn, s2r, nBuf, reqs>>

\* generator_handle.await: recover mplex_out, or the generator's error.
RecvJoin ==
    /\ pcR = "join"
    /\ \/ pcG = "exited" /\ pcR' = "phase"
       \/ pcG = "failed" /\ pcR' = "failed"
    /\ UNCHANGED <<genVars, chan, rItem, rRound, written, acked, sendVars, r2s, nIn, s2r, nBuf, reqs>>

\* One MSG_SUCCESS for every file received.
RecvAck ==
    /\ pcR = "phase" /\ acked < Len(written) /\ ReqRoom
    /\ r2s' = Append(r2s, Frame("success", written[acked + 1], Len(reqs)))
    /\ acked' = acked + 1
    /\ UNCHANGED <<genVars, chan, pcR, rItem, rRound, written, sendVars, nIn, s2r, nBuf, reqs>>

\* receiver_phase_exchange with one file list, and server_receiver_phase_exchange:
\* both write NDX_DONE and read the sender's, MaxPhase + 1 times.
PhaseWrite ==
    /\ pcR = "phase" /\ acked = Len(written) /\ ReqRoom
    /\ r2s' = Append(r2s, Frame("done", 0, Len(reqs)))
    /\ pcR' = "phase_read"
    /\ UNCHANGED <<genVars, chan, rItem, rRound, written, acked, sendVars, nIn, s2r, nBuf, reqs>>

PhaseRead ==
    /\ pcR = "phase_read" /\ OnWire > 0
    /\ s2r' = Tail(s2r)
    /\ rRound' = rRound + 1
    /\ pcR' = IF rRound' > MaxPhase THEN "ended" ELSE "phase"
    /\ UNCHANGED <<genVars, chan, rItem, written, acked, sendVars, r2s, nIn, nBuf, reqs>>

RecvWriteErr ==
    /\ pcR = "phase" /\ SenderGone
    /\ pcR' = "failed"
    /\ UNCHANGED <<genVars, chan, rItem, rRound, written, acked, sendVars, r2s, nIn, s2r, nBuf, reqs>>

-----------------------------------------------------------------------------
\* The sender (sender_loop, wire_transfer.rs:239-491).

\* Take the next frame, from read_buf first and from the wire otherwise.
TakeReq(type) ==
    /\ pcS = "read" /\ r2s # <<>> /\ Head(r2s).type = type
    /\ r2s' = Tail(r2s)
    /\ nIn' = IF nIn > 0 THEN nIn - 1 ELSE 0

\* MSG_SUCCESS is a control message: logged by the demultiplexer, never seen here.
SenderReadSuccess ==
    /\ TakeReq("success")
    /\ UNCHANGED <<genVars, chan, recvVars, sendVars, s2r, nBuf, reqs>>

SenderReadDone ==
    /\ TakeReq("done")
    /\ sPhase' = sPhase + 1
    /\ s2r' = Append(s2r, Frame("done", 0, sCur.k))
    /\ nBuf' = nBuf + 1
    /\ pcS' = "flush"
    /\ sNext' = IF sPhase' > MaxPhase THEN "ended" ELSE "read"
    /\ UNCHANGED <<genVars, chan, recvVars, sCur, sTok, reqs>>

\* Mutation of SenderReadReq: a request may be skipped without an answer.
SenderReadReqSkips ==
    /\ TakeReq("req")
    /\ sCur' = Head(r2s)
    /\ sTok' = 0
    /\ \/ /\ s2r' = Append(s2r, Frame("hdr", sCur'.ndx, sCur'.k))
          /\ nBuf' = nBuf + 1
          /\ pcS' = "body"
       \/ UNCHANGED <<s2r, nBuf, pcS>>
    /\ UNCHANGED <<genVars, chan, recvVars, sNext, sPhase, reqs>>

\* The request is complete; the response header goes to the BufWriter.
SenderReadReq ==
    /\ TakeReq("req")
    /\ sCur' = Head(r2s)
    /\ sTok' = 0
    /\ s2r' = Append(s2r, Frame("hdr", sCur'.ndx, sCur'.k))
    /\ nBuf' = nBuf + 1
    /\ pcS' = "body"
    /\ UNCHANGED <<genVars, chan, recvVars, sNext, sPhase, reqs>>

SenderToken ==
    /\ pcS = "body" /\ nBuf < BufCap /\ sTok < MaxTok
    /\ s2r' = Append(s2r, Frame("tok", sCur.ndx, sCur.k))
    /\ nBuf' = nBuf + 1
    /\ sTok' = sTok + 1
    /\ UNCHANGED <<genVars, chan, recvVars, pcS, sNext, sCur, sPhase, r2s, nIn, reqs>>

SenderEof ==
    /\ pcS = "body" /\ nBuf < BufCap
    /\ s2r' = Append(s2r, Frame("eof", sCur.ndx, sCur.k))
    /\ nBuf' = nBuf + 1
    /\ pcS' = "flush" /\ sNext' = "read"
    /\ UNCHANGED <<genVars, chan, recvVars, sCur, sTok, sPhase, r2s, nIn, reqs>>

\* write_data on a full BufWriter: it drains to the transport, and the sender
\* reads nothing meanwhile.
SenderOverflow ==
    /\ pcS = "body" /\ nBuf = BufCap /\ RespRoom
    /\ nBuf' = nBuf - 1
    /\ UNCHANGED <<genVars, chan, recvVars, sendVars, r2s, nIn, s2r, reqs>>

SenderFlush ==
    /\ pcS = "flush" /\ RespRoom
    /\ nBuf' = nBuf - 1
    /\ pcS' = IF nBuf' = 0 THEN sNext ELSE "flush"
    /\ UNCHANGED <<genVars, chan, recvVars, sNext, sCur, sTok, sPhase, r2s, nIn, s2r, reqs>>

\* Mutation of SenderDrain: flush waits for the transport and reads nothing.
SenderDrainNever ==
    /\ pcS = "flush" /\ FALSE
    /\ UNCHANGED vars

\* The other branch of flush's select!: while the transport takes nothing, move
\* what has arrived into read_buf.
SenderDrain ==
    /\ pcS = "flush" /\ ~RespRoom /\ nIn < Len(r2s)
    /\ nIn' = nIn + 1
    /\ UNCHANGED <<genVars, chan, recvVars, sendVars, r2s, s2r, nBuf, reqs>>

\* sender_loop returns an error, or its process or connection is lost: what is
\* still in the BufWriter is lost with it.
SenderStop ==
    /\ pcS \notin {"ended", "failed"}
    /\ "sender" \in Faults \/ ReceiverGone
    /\ pcS' = "failed"
    /\ s2r' = SubSeq(s2r, 1, OnWire)
    /\ nBuf' = 0
    /\ UNCHANGED <<genVars, chan, recvVars, sNext, sCur, sTok, sPhase, r2s, nIn, reqs>>

-----------------------------------------------------------------------------
GenNext == GenDispatch \/ GenDone \/ GenWrite \/ GenWriteErr \/ GenSend \/ GenSendErr
RecvNext ==
    \/ RecvItem \/ RecvClosed \/ RecvHdr \/ RecvBody \/ RecvEof \/ RecvJoin
    \/ RecvAck \/ PhaseWrite \/ PhaseRead \/ RecvWriteErr
SendNext ==
    \/ SenderReadSuccess \/ SenderReadDone \/ SenderReadReq \/ SenderToken
    \/ SenderEof \/ SenderOverflow \/ SenderFlush \/ SenderDrain

\* Each task has returned.
GenOver == pcG \in {"exited", "failed"}
RecvOver == pcR \in {"ended", "failed"}
SendOver == pcS \in {"ended", "failed"}
Over == GenOver /\ RecvOver /\ SendOver

Next == GenNext \/ RecvNext \/ RecvFault \/ SendNext \/ SenderStop

\* Every task is polled while it can make progress; a fault need not happen, but
\* I/O on a connection the other side has closed does end with an error.
Fairness ==
    /\ WF_vars(GenNext) /\ WF_vars(RecvNext) /\ WF_vars(SendNext)
    /\ WF_vars(SenderStop /\ ReceiverGone)

Spec == Init /\ [][Next]_vars
FairSpec == Spec /\ Fairness

-----------------------------------------------------------------------------
\* The type invariant, with what each program counter says about its task.
GenType ==
    /\ pcG \in {"dispatch", "write", "send", "exited", "failed"}
    /\ gIdx \in 1..(N + 1)
    /\ gItem \in Items
    /\ pcG = "write" => gItem.type = "transfer"
    /\ reqs \in Seq(Entries)
ChanType == chan \in Seq(Items) /\ Len(chan) <= ChanCap
RecvType ==
    /\ pcR \in {"item", "hdr", "body", "join", "phase", "phase_read", "ended", "failed"}
    /\ rItem \in Items
    /\ pcR \in {"hdr", "body"} => rItem.type = "transfer"
    /\ rRound \in 0..(MaxPhase + 1)
    /\ pcR \notin {"ended", "failed"} => rRound <= MaxPhase
    /\ written \in Seq(Entries)
    /\ acked \in 0..Len(written)
SendType ==
    /\ pcS \in {"read", "body", "flush", "ended", "failed"}
    /\ sNext \in {"read", "ended"}
    /\ sCur \in [type : {"req"}, ndx : 0..N, k : Nat]
    /\ sTok \in 0..MaxTok
    /\ sPhase \in 0..(MaxPhase + 1)
    /\ pcS \in {"read", "body"} => sPhase <= MaxPhase
    /\ pcS = "flush" /\ sNext = "read" => sPhase <= MaxPhase
ReqType ==
    /\ r2s \in Seq(ReqFrames)
    /\ nIn \in 0..Len(r2s)
    /\ Len(r2s) - nIn <= ReqCap
RespType ==
    /\ s2r \in Seq(RespFrames)
    /\ nBuf \in 0..Len(s2r)
    /\ OnWire <= RespCap
    /\ nBuf <= BufCap
    /\ pcS \in {"read", "ended", "failed"} => nBuf = 0
    /\ pcS = "flush" => nBuf > 0
TypeOK == GenType /\ ChanType /\ RecvType /\ SendType /\ ReqType /\ RespType

\* The frame the receiver reads next belongs to the file it is writing, although
\* it never looks at the NDX: a header when it starts the file, tokens of that
\* response after it, and NDX_DONE during the phase exchange.
ResponsePairing ==
    OnWire > 0 =>
        /\ pcR = "hdr" => Head(s2r).type = "hdr" /\ Head(s2r).ndx = rItem.idx
        /\ pcR = "body" => Head(s2r).type \in {"tok", "eof"} /\ Head(s2r).ndx = rItem.idx
        /\ pcR = "phase_read" => Head(s2r).type = "done"

\* The phase exchange starts only when every requested file has been received,
\* and files are finished in the order they were requested.
AllReceived ==
    /\ Len(written) <= Len(reqs)
    /\ \A i \in 1..Len(written) : written[i] = reqs[i]
    /\ pcR \in {"phase", "phase_read", "ended"} => Len(written) = Len(reqs)

\* The stage of the transfer, as its receiver sees it.
Stage ==
    IF pcR \in {"phase", "phase_read", "ended"} THEN "exchange"
    ELSE IF pcR = "failed" THEN "failed" ELSE "transfer"

\* The transfer as the rest of the session sees it.
Ordered == INSTANCE OrderedTransfer WITH
    Entry <- Entries, asked <- reqs, done <- written, stage <- Stage

\* Refinement: seen from outside, the three tasks and their queues request and finish files
\* in one order, and report them only when all are finished (OrderedTransfer).
IsOrderedTransfer == Ordered!Spec

\* The channel bounds how far the generator runs ahead, and with it the frames
\* the sender's flush accumulates in read_buf ("bounded memory").
PipelineBound == Len(reqs) - Len(written) <= ChanCap + 2

\* The receiver task has failed in the middle of a response that is longer than the
\* BufWriter: write_data waits for the transport and reads nothing, and the detached
\* generator task holds the connection open.
Stranded == pcR = "failed" /\ pcS = "body" /\ nBuf = BufCap /\ ~RespRoom

\* All three tasks return, whatever fails and however little the buffers hold: flush
\* reads while it writes, and a lost connection reaches everyone.  The one exception
\* is a sender stranded by the receiver's failure (multiplex.rs:606).
Terminates == <>Over \/ <>[]Stranded

-----------------------------------------------------------------------------
(***************************************************************************)
(* The inductive invariant behind the safety properties.  It says, in the  *)
(* numbering of requests by k, what each queue holds: every element agrees *)
(* with the log of requests, is the successor of the element before it,    *)
(* the first one follows what the reader took last, and the last one is    *)
(* what the writer wrote last.                                             *)
(***************************************************************************)

\* An element that is about request k of the log.
About(k, ndx, log) == k \in 1..Len(log) /\ ndx = log[k]

\* Elements of the three queues; `over` says that no request can follow.
ItemOK(item, log, over) ==
    /\ item.type = "transfer" => About(item.k, item.idx, log)
    /\ item.type = "done" => over /\ item.k = Len(log)
ReqOK(f, log, over) ==
    /\ f.type = "req" => About(f.k, f.ndx, log)
    /\ f.type = "done" => over /\ f.k = Len(log)
RespOK(f, log, over) ==
    /\ f.type # "done" => About(f.k, f.ndx, log)
    /\ f.type = "done" => over /\ f.k = Len(log)

\* The successors of the three queues.
ItemStep(item) == IF item.type = "transfer" THEN 1 ELSE 0
ReqStep(f) == IF f.type = "req" THEN 1 ELSE 0
Follows(f, g) ==
    \/ f.type \in {"hdr", "tok"} /\ g.type \in {"tok", "eof"} /\ g.k = f.k
    \/ f.type = "eof" /\ g.type = "hdr" /\ g.k = f.k + 1
    \/ f.type \in {"eof", "done"} /\ g.type = "done" /\ g.k = f.k
ItemChain(q) ==
    /\ \A i \in 1..(Len(q) - 1) : q[i + 1].k = q[i].k + ItemStep(q[i + 1])
    /\ \A i, j \in 1..Len(q) : i <= j => q[j].k <= q[i].k + (j - i)
ReqChain(q) == \A i \in 1..(Len(q) - 1) : q[i + 1].k = q[i].k + ReqStep(q[i + 1])
RespChain(q) == \A i \in 1..(Len(q) - 1) : Follows(q[i], q[i + 1])

\* The generator's item is numbered by the requests written.
GenInv ==
    /\ pcG \in {"dispatch", "send", "exited"} => gItem.k = Len(reqs)
    /\ pcG \in {"write", "failed"} => gItem.k = Len(reqs) + 1
    /\ pcG = "send" /\ gItem.type = "transfer" => About(gItem.k, gItem.idx, reqs)

\* The channel.
GenGone == pcG = "exited"
LastItemK == IF Len(chan) = 0 THEN rItem.k ELSE chan[Len(chan)].k
ChanItems == \A i \in 1..Len(chan) : ItemOK(chan[i], reqs, GenGone)
ChanOrder ==
    /\ ItemChain(chan)
    /\ Len(chan) > 0 => chan[1].k = rItem.k + ItemStep(chan[1])
ChanEnd ==
    /\ LastItemK >= Len(reqs) - 1
    /\ pcG # "exited" \/ pcR # "failed" =>
           LastItemK = Len(reqs) - (IF pcG = "send" THEN ItemStep(gItem) ELSE 0)

\* The receiver: its item and its place.
RecvInv ==
    /\ rItem.k \in {Len(written), Len(written) + 1}
    /\ pcR \in {"hdr", "body"} =>
           rItem.k = Len(written) + 1 /\ About(rItem.k, rItem.idx, reqs)
    /\ pcR \notin {"hdr", "body", "failed"} => rItem.k = Len(written)
    /\ pcR = "join" => pcG = "failed" \/ (pcG = "exited" /\ rItem.k = Len(reqs))
    /\ pcR \in {"phase", "phase_read", "ended"} => pcG = "exited" /\ Len(written) = Len(reqs)

\* The frames to the sender.
InPhase == pcG = "exited" /\ pcR \in {"phase", "phase_read", "ended", "failed"}
LastReqK == IF Len(r2s) = 0 THEN sCur.k ELSE r2s[Len(r2s)].k
ReqItems == \A i \in 1..Len(r2s) : ReqOK(r2s[i], reqs, InPhase)
ReqOrder ==
    /\ ReqChain(r2s)
    /\ Len(r2s) > 0 => r2s[1].k = sCur.k + ReqStep(r2s[1])
ReqEnd ==
    /\ LastReqK = Len(reqs)
    /\ sCur.k <= Len(reqs)
    /\ sCur.k >= 1 => About(sCur.k, sCur.ndx, reqs)
    /\ pcS = "body" => sCur.k >= 1

\* The frames to the receiver, and what the two tasks agree on without any.
RespItems == \A i \in 1..Len(s2r) : RespOK(s2r[i], reqs, InPhase)
RespOrder == RespChain(s2r)
RespHead ==
    Len(s2r) > 0 /\ pcR # "failed" =>
        IF pcR = "body"
        THEN s2r[1].type \in {"tok", "eof"} /\ s2r[1].k = Len(written) + 1
        ELSE \/ s2r[1].type = "hdr" /\ s2r[1].k = Len(written) + 1
             \/ s2r[1].type = "done" /\ s2r[1].k = Len(written)
RespEnd ==
    Len(s2r) > 0 /\ pcS # "failed" =>
        /\ s2r[Len(s2r)].k = sCur.k
        /\ s2r[Len(s2r)].type \in IF pcS = "body" THEN {"hdr", "tok"} ELSE {"eof", "done"}
RespNone ==
    Len(s2r) = 0 /\ pcS # "failed" /\ pcR # "failed" =>
        IF pcS = "body" THEN pcR = "body" /\ sCur.k = Len(written) + 1
                        ELSE pcR # "body" /\ sCur.k = Len(written)

\* Together: the queues between the three tasks are in the order of the requests.
QueueOrder ==
    /\ GenInv /\ ChanItems /\ ChanOrder /\ ChanEnd
    /\ RecvInv /\ AllReceived
    /\ ReqItems /\ ReqOrder /\ ReqEnd
    /\ RespItems /\ RespOrder /\ RespHead /\ RespEnd /\ RespNone
=============================================================================
