---------------------------- MODULE MuxWriting -----------------------------
(***************************************************************************)
(* The inductive invariant of Mux, for any scripts and any sizes of buffer, *)
(* pipe and chunk, and that the writer's actions keep it.  For each         *)
(* direction some history of frames, and of indices within their data,      *)
(* explains what every buffer holds (see MuxChannels); each action extends  *)
(* a history or moves a boundary in it.                                     *)
(***************************************************************************)
EXTENDS Mux, MuxChannels

USE SMTT(20), ZenonT(20)

\* A function of the two ends.
OnEnds(f) == f = [e \in Ends |-> f[e]]

Shapes ==
    /\ script \in Scripts
    /\ OnEnds(pc) /\ OnEnds(split) /\ OnEnds(toRead) /\ OnEnds(todo) /\ OnEnds(wbuf)
    /\ OnEnds(net) /\ OnEnds(closed) /\ OnEnds(staging) /\ OnEnds(readBuf) /\ OnEnds(current)
    /\ OnEnds(partial) /\ OnEnds(ndxOut) /\ OnEnds(ndxIn) /\ OnEnds(wrote) /\ OnEnds(read)
    /\ OnEnds(sent) /\ OnEnds(got) /\ OnEnds(eof)

\* The shutdown of an end is behind it.
Past(p) == \E i \in 1..Len(script[p]) : i < pc[p] /\ script[p][i].op = "shutdown"

\* From the writer p to the reader e: the buffers between them, the indices in them, and
\* the end of the stream.
Buffers(e, p) ==
    Channel(staging[e], net[p], wbuf[p], todo[p], sent[p], got[e], current[e], readBuf[e])
Numbers(e, p) ==
    Indexed(wrote[p], ndxOut[p], sent[p], Codec, read[e], ndxIn[e], Len(got[e]), partial[e])
Ending(e, p) ==
    /\ closed[p] => todo[p] = <<>> /\ wbuf[p] = <<>> /\ Past(p)
    /\ eof[e] => closed[p] /\ got[e] = sent[p]
    /\ eof[e] \in BOOLEAN
Sizes(p) ==
    /\ Len(wbuf[p]) <= BufSize /\ Len(net[p]) <= PipeSize
    /\ pc[p] \in Nat \ {0} /\ toRead[p] \in Nat

Way(e, p) == Buffers(e, p) /\ Numbers(e, p) /\ Ending(e, p) /\ Sizes(p)

\* The inductive invariant.
Inv == Shapes /\ \A e \in Ends : Way(e, Peer(e))

\* A step of the byte stream from p to e, or none.
Follows(t, s) == Len(s) <= Len(t) /\ s = SubSeq(t, 1, Len(s))
Flows(e, p) ==
    \/ ~eof[e] /\ Follows(sent'[p], sent[p]) /\ got'[e] = got[e] /\ eof'[e] = eof[e]
    \/ /\ ~eof[e] /\ Follows(got'[e], got[e]) /\ Follows(sent[p], got'[e])
       /\ sent'[p] = sent[p] /\ eof'[e] = eof[e]
    \/ got[e] = sent[p] /\ eof'[e] = TRUE /\ sent'[p] = sent[p] /\ got'[e] = got[e]
    \/ sent'[p] = sent[p] /\ got'[e] = got[e] /\ eof'[e] = eof[e]

\* What a step shows.
Keeps == Inv' /\ \A e \in Ends : Flows(e, Peer(e))

-----------------------------------------------------------------------------
\* The two ends.

LEMMA TwoEnds ==
    ASSUME NEW e \in Ends, NEW p, p = Peer(e)
    PROVE  /\ p \in Ends /\ p # e /\ Peer(p) = e
           /\ \A f \in Ends : f = e \/ f = p
BY Zenon DEF Ends, Peer

\* An assignment to one end.
Sets(g, f, e, p, v) == OnEnds(g) /\ g[e] = v /\ g[p] = f[p]

LEMMA Updated ==
    ASSUME NEW f, NEW e \in Ends, NEW p \in Ends, p # e, NEW v, OnEnds(f)
    PROVE  Sets([f EXCEPT ![e] = v], f, e, p, v)
<1>1. PICK g : g = [f EXCEPT ![e] = v]
    BY Zenon
<1>2. f = [x \in Ends |-> f[x]]
    BY DEF OnEnds
<1>3. g = [x \in Ends |-> IF x = e THEN v ELSE f[x]]
    BY <1>1, <1>2
<1>4. g[e] = v /\ g[p] = f[p]
    BY <1>3, Zenon
<1>5. g = [x \in Ends |-> g[x]]
    BY <1>3
<1>6. Sets(g, f, e, p, v)
    BY <1>4, <1>5, Zenon DEF OnEnds, Sets
<1> QED
    BY <1>1, <1>6, Zenon

\* The parts of the invariant an action of e is about.
LEMMA BothWays ==
    ASSUME Inv, NEW e \in Ends, NEW p, p = Peer(e)
    PROVE  Shapes /\ Way(e, p) /\ Way(p, e) /\ p \in Ends /\ p # e
BY TwoEnds, Zenon DEF Inv

\* The reader of e, the writer of p and the position of p are as they were.
SameReader(e) ==
    /\ staging'[e] = staging[e] /\ readBuf'[e] = readBuf[e] /\ current'[e] = current[e]
    /\ partial'[e] = partial[e] /\ ndxIn'[e] = ndxIn[e] /\ read'[e] = read[e]
    /\ got'[e] = got[e] /\ eof'[e] = eof[e]
SameWriter(p) ==
    /\ todo'[p] = todo[p] /\ wbuf'[p] = wbuf[p] /\ net'[p] = net[p] /\ closed'[p] = closed[p]
    /\ ndxOut'[p] = ndxOut[p] /\ wrote'[p] = wrote[p] /\ sent'[p] = sent[p]
SamePlace(p) == pc'[p] = pc[p] /\ toRead'[p] = toRead[p]

LEMMA SameWay ==
    ASSUME NEW e, NEW p, Way(e, p), script' = script, SameReader(e), SameWriter(p), SamePlace(p)
    PROVE  Way(e, p)' /\ Flows(e, p)
<1>1. Buffers(e, p)'
    BY Zenon DEF Way, Buffers, SameReader, SameWriter
<1>2. Numbers(e, p)'
    BY Zenon DEF Way, Numbers, SameReader, SameWriter, Codec
<1>3. Ending(e, p)'
    BY Zenon DEF Way, Ending, Past, SameReader, SameWriter, SamePlace
<1>4. Sizes(p)'
    BY Zenon DEF Way, Sizes, SameWriter, SamePlace
<1>5. Flows(e, p)
    BY Zenon DEF Flows, SameReader, SameWriter
<1> QED
    BY <1>1, <1>2, <1>3, <1>4, <1>5, Zenon DEF Way

\* Both directions together.
LEMMA Kept ==
    ASSUME NEW e \in Ends, NEW p, p = Peer(e), Shapes',
           Way(e, p)', Way(p, e)', Flows(e, p), Flows(p, e)
    PROVE  Keeps
<1>1. p \in Ends /\ Peer(p) = e /\ \A f \in Ends : f = e \/ f = p
    BY TwoEnds, Zenon
<1>2. \A f \in Ends : Way(f, Peer(f))' /\ Flows(f, Peer(f))
    BY <1>1, Zenon
<1> QED
    BY <1>2, Zenon DEF Keeps, Inv

-----------------------------------------------------------------------------
\* The scripts.

\* An end is at an item of its program.
LEMMA AtItem ==
    ASSUME Shapes, NEW e \in Ends, pc[e] \in Nat \ {0}, NEW op, At(e, op)
    PROVE  /\ IsProgram(script[e]) /\ pc[e] \in DOMAIN script[e] /\ script[e][pc[e]].op = op
           /\ DOMAIN script[e] = 1..Len(script[e]) /\ Len(script[e]) \in Nat
<1>1. IsProgram(script[e])
    BY ScriptAssumption, Zenon DEF Shapes
<1>2. DOMAIN script[e] = 1..Len(script[e]) /\ Len(script[e]) \in Nat
    BY <1>1, Zenon DEF IsProgram
<1>3. pc[e] <= Len(script[e]) /\ script[e][pc[e]].op = op
    BY Zenon DEF At
<1>4. pc[e] \in 1..Len(script[e])
    BY <1>2, <1>3
<1> QED
    BY <1>1, <1>2, <1>3, <1>4, Zenon

\* An end that still has something to write has not shut down.
LEMMA NotPast ==
    ASSUME Shapes, NEW e \in Ends, pc[e] \in Nat \ {0}, At(e, "ndx") \/ At(e, "msg")
    PROVE  ~Past(e)
<1>1. PICK op \in {"ndx", "msg"} : At(e, op)
    OBVIOUS
<1>2. /\ IsProgram(script[e]) /\ pc[e] \in DOMAIN script[e] /\ script[e][pc[e]].op = op
      /\ DOMAIN script[e] = 1..Len(script[e])
    BY <1>1, AtItem, Zenon
<1>3. SUFFICES ASSUME NEW i \in 1..Len(script[e]), i < pc[e], script[e][i].op = "shutdown" PROVE FALSE
    BY Zenon DEF Past
<1>4. pc[e] > i
    BY <1>3
<1>5. i \in DOMAIN script[e]
    BY <1>2, Zenon
<1>6. script[e][pc[e]].op \notin {"ndx", "msg"}
    BY <1>2, <1>3, <1>4, <1>5, Zenon DEF IsProgram
<1> QED
    BY <1>2, <1>6, Zenon

LEMMA IndexItem ==
    ASSUME Shapes, NEW e \in Ends, pc[e] \in Nat \ {0}, At(e, "ndx")
    PROVE  Item(e).ndx \in Indices
<1>1. IsProgram(script[e]) /\ pc[e] \in DOMAIN script[e] /\ script[e][pc[e]].op = "ndx"
    BY AtItem, Zenon
<1>2. script[e][pc[e]].ndx \in (-MaxNdx)..MaxNdx
    BY <1>1, Zenon DEF IsProgram
<1> QED
    BY <1>2, Zenon DEF Item, Indices

LEMMA ControlItem ==
    ASSUME Shapes, NEW e \in Ends, pc[e] \in Nat \ {0}, At(e, "msg")
    PROVE  /\ Item(e).code \in Int /\ 0 < Item(e).code /\ Item(e).code <= 248
           /\ Item(e).payload \in Seq(Bytes) /\ Len(Item(e).payload) <= MAX_PAYLOAD
<1>1. IsProgram(script[e]) /\ pc[e] \in DOMAIN script[e] /\ script[e][pc[e]].op = "msg"
    BY AtItem, Zenon
<1>2. /\ Item(e).code \in 1..248
      /\ Item(e).payload \in Seq(Bytes) /\ Len(Item(e).payload) <= MAX_PAYLOAD
    BY <1>1, Zenon DEF IsProgram, Item
<1>3. \A c \in 1..248 : c \in Int /\ 0 < c /\ c <= 248
    OBVIOUS
<1> QED
    BY <1>2, <1>3, Zenon

LEMMA SplitItem ==
    ASSUME Shapes, NEW e \in Ends, pc[e] \in Nat \ {0}, At(e, "split")
    PROVE  Item(e).reads \in Nat
<1>1. IsProgram(script[e]) /\ pc[e] \in DOMAIN script[e] /\ script[e][pc[e]].op = "split"
    BY AtItem, Zenon
<1> QED
    BY <1>1, Zenon DEF IsProgram, Item

\* A step of the script of e.
LEMMA Advanced ==
    ASSUME Shapes, NEW e \in Ends, NEW p \in Ends, p # e, Advance(e), script' = script, pc[e] \in Nat \ {0}
    PROVE  /\ OnEnds(pc') /\ pc'[e] \in Nat \ {0} /\ pc'[p] = pc[p]
           /\ pc'[e] = pc[e] + 1 /\ (Past(e) => Past(e)')
<1>1. OnEnds(pc') /\ pc'[e] = pc[e] + 1 /\ pc'[p] = pc[p]
    <2>1. Sets(pc', pc, e, p, pc[e] + 1)
        BY Updated, Zenon DEF Shapes, Advance
    <2> QED
        BY <2>1, Zenon DEF Sets
<1>2. ASSUME Past(e) PROVE Past(e)'
    <2>1. PICK i \in 1..Len(script[e]) : i < pc[e] /\ script[e][i].op = "shutdown"
        BY <1>2, Zenon DEF Past
    <2>2. i \in Int
        OBVIOUS
    <2>3. i < pc'[e]
        BY <1>1, <2>1, <2>2
    <2> QED
        BY <2>1, <2>3, Zenon DEF Past
<1> QED
    BY <1>1, <1>2

-----------------------------------------------------------------------------
\* The writer's actions.

\* write_message with a control code.
LEMMA WriteControlKeeps ==
    ASSUME Inv, NEW e \in Ends, WriteControl(e)
    PROVE  Keeps
<1>1. PICK p : p = Peer(e)
    BY Zenon
<1>2. Shapes /\ Way(e, p) /\ Way(p, e) /\ p \in Ends /\ p # e
    BY <1>1, BothWays, Zenon
<1>3. /\ At(e, "msg") /\ todo[e] = <<>> /\ Advance(e)
      /\ todo' = [todo EXCEPT ![e] = Frame(Item(e).code, Item(e).payload)]
      /\ UNCHANGED <<script, split, toRead, wbuf, net, closed, ndxOut, wrote, sent, readVars>>
    BY Zenon DEF WriteControl
<1>4. pc[e] \in Nat \ {0} /\ Sizes(e) /\ Ending(p, e) /\ Buffers(p, e) /\ Numbers(p, e)
    BY <1>2, Zenon DEF Way, Sizes
<1>5. OnEnds(todo') /\ todo'[e] = Frame(Item(e).code, Item(e).payload) /\ todo'[p] = todo[p]
    <2>1. Sets(todo', todo, e, p, Frame(Item(e).code, Item(e).payload))
        BY <1>2, <1>3, Updated, Zenon DEF Shapes
    <2> QED
        BY <2>1, Zenon DEF Sets
<1>6. OnEnds(pc') /\ pc'[e] \in Nat \ {0} /\ pc'[p] = pc[p]
    BY <1>2, <1>3, <1>4, Advanced, Zenon
<1>7. Shapes'
    BY <1>2, <1>3, <1>5, <1>6, Zenon DEF Shapes, readVars
<1>8. Way(e, p)' /\ Flows(e, p)
    <2>1. SameReader(e) /\ SameWriter(p) /\ SamePlace(p)
        BY <1>3, <1>5, <1>6, Zenon DEF SameReader, SameWriter, SamePlace, readVars
    <2> QED
        BY <1>2, <1>3, <2>1, SameWay, Zenon
<1>9. Buffers(p, e)'
    <2>1. Channel(staging[p], net[e], wbuf[e], <<>>, sent[e], got[p], current[p], readBuf[p])
        BY <1>3, <1>4, Zenon DEF Buffers
    <2>2. Channel(staging[p], net[e], wbuf[e], Frame(Item(e).code, Item(e).payload),
                  sent[e], got[p], current[p], readBuf[p])
        BY <1>2, <1>3, <1>4, <2>1, ControlItem, ChannelControl, Zenon
    <2> QED
        BY <1>3, <1>5, <2>2, Zenon DEF Buffers, readVars
<1>10. Numbers(p, e)'
    BY <1>3, <1>4, Zenon DEF Numbers, Codec, readVars
<1>11. Ending(p, e)'
    <2>1. ~Past(e)
        BY <1>2, <1>3, <1>4, NotPast, Zenon
    <2>2. ~closed[e] /\ ~eof[p] /\ eof[p] \in BOOLEAN
        BY <1>4, <2>1, Zenon DEF Ending
    <2> QED
        BY <1>3, <2>2, Zenon DEF Ending, readVars
<1>12. Sizes(e)'
    BY <1>3, <1>4, <1>6, Zenon DEF Sizes
<1>13. Flows(p, e)
    BY <1>3, Zenon DEF Flows, readVars
<1> QED
    BY <1>1, <1>7, <1>8, <1>9, <1>10, <1>11, <1>12, <1>13, Kept, Zenon DEF Way

\* The bytes move on, and neither the data written nor the data served changes.
LEMMA Moved ==
    ASSUME NEW e, NEW p, Way(e, p), script' = script, Buffers(e, p)', Sizes(p)', Past(p) => Past(p)',
           closed'[p] = closed[p], closed[p] => todo'[p] = todo[p] /\ wbuf'[p] = wbuf[p],
           ndxOut'[p] = ndxOut[p], wrote'[p] = wrote[p], sent'[p] = sent[p],
           partial'[e] = partial[e], ndxIn'[e] = ndxIn[e], read'[e] = read[e],
           got'[e] = got[e], eof'[e] = eof[e]
    PROVE  Way(e, p)' /\ Flows(e, p)
<1>1. Numbers(e, p)'
    BY Zenon DEF Way, Numbers, Codec
<1>2. Ending(e, p)'
    BY Zenon DEF Way, Ending
<1>3. Flows(e, p)
    BY Zenon DEF Flows
<1> QED
    BY <1>1, <1>2, <1>3, Zenon DEF Way

\* The frames that have arrived are parsed.
LEMMA ParsedAgain ==
    ASSUME NEW e, NEW p, Buffers(e, p), NEW q, q = Parsed(e, <<>>)
    PROVE  /\ Channel(q.staging, net[p], wbuf[p], todo[p], sent[p], got[e], current[e], q.queue)
           /\ q = parse_frames_from_staging(staging[e], readBuf[e])
<1>1. staging[e] \in Seq(Bytes)
    BY ChannelType, Zenon DEF Buffers
<1>2. staging[e] \o <<>> = staging[e]
    BY <1>1
<1>3. q = parse_frames_from_staging(staging[e], readBuf[e])
    BY <1>2, Zenon DEF Parsed
<1> QED
    BY <1>3, ChannelParse, Zenon DEF Buffers

\* Bytes from the network are staged and parsed.
LEMMA ParsedMore ==
    ASSUME NEW e, NEW p, Buffers(e, p), NEW n \in Amounts(Len(net[p])),
           NEW q, q = Parsed(e, SubSeq(net[p], 1, n))
    PROVE  /\ Channel(q.staging, From(net[p], n + 1), wbuf[p], todo[p], sent[p], got[e], current[e], q.queue)
           /\ Len(From(net[p], n + 1)) <= Len(net[p]) /\ n \in Nat
<1>1. net[p] \in Seq(Bytes)
    BY ChannelType, Zenon DEF Buffers
<1>2. PICK m \in Nat : m = Len(net[p])
    BY <1>1
<1>3. n \in 0..m /\ n \in Nat
    <2>1. m # 0 /\ (n = 1 \/ n = m)
        BY <1>2, Zenon DEF Amounts
    <2> QED
        BY <2>1
<1>4. n \in 0..Len(net[p])
    BY <1>2, <1>3, Zenon
<1>5. Channel(staging[e] \o SubSeq(net[p], 1, n), From(net[p], n + 1), wbuf[p], todo[p],
              sent[p], got[e], current[e], readBuf[e])
    BY <1>4, ChannelTake, Zenon DEF Buffers
<1>6. q = parse_frames_from_staging(staging[e] \o SubSeq(net[p], 1, n), readBuf[e])
    BY Zenon DEF Parsed
<1>7. Channel(q.staging, From(net[p], n + 1), wbuf[p], todo[p], sent[p], got[e], current[e], q.queue)
    BY <1>5, <1>6, ChannelParse, Zenon
<1>8. Len(From(net[p], n + 1)) <= Len(net[p])
    BY <1>1, <1>2, <1>3 DEF From
<1> QED
    BY <1>3, <1>7, <1>8, Zenon

\* What is added to a sequence follows it.
LEMMA FollowsCat ==
    ASSUME NEW s \in Seq(Bytes), NEW t \in Seq(Bytes)
    PROVE  Follows(s \o t, s)
<1>1. PICK n \in Nat : n = Len(s)
    OBVIOUS
<1>2. Len(s \o t) = n + Len(t) /\ Len(t) \in Nat /\ s \o t \in Seq(Bytes)
    BY <1>1
<1>3. n <= Len(s \o t)
    BY <1>2
<1>4. SubSeq(s \o t, 1, n) \in Seq(Bytes) /\ Len(SubSeq(s \o t, 1, n)) = n
    BY <1>2, <1>3
<1>5. \A i \in 1..n : SubSeq(s \o t, 1, n)[i] = s[i]
    BY <1>1, <1>2, <1>3
<1> QED
    BY <1>1, <1>3, <1>4, <1>5 DEF Follows

\* write_data.
LEMMA WriteIndexKeeps ==
    ASSUME Inv, NEW e \in Ends, WriteIndex(e)
    PROVE  Keeps
<1>1. PICK p : p = Peer(e)
    BY Zenon
<1>2. Shapes /\ Way(e, p) /\ Way(p, e) /\ p \in Ends /\ p # e
    BY <1>1, BothWays, Zenon
<1>3. PICK w : w = write_ndx(Item(e).ndx, ndxOut[e], Codec)
    BY Zenon
<1>4. PICK q : q = Parsed(e, <<>>)
    BY Zenon
<1>5. /\ At(e, "ndx") /\ todo[e] = <<>> /\ Advance(e)
      /\ ndxOut' = [ndxOut EXCEPT ![e] = w.state]
      /\ todo' = [todo EXCEPT ![e] = DataFrames(w.bytes)]
      /\ sent' = [sent EXCEPT ![e] = sent[e] \o w.bytes]
      /\ staging' = IF split[e] THEN staging ELSE [staging EXCEPT ![e] = q.staging]
      /\ readBuf' = IF split[e] THEN readBuf ELSE [readBuf EXCEPT ![e] = q.queue]
      /\ wrote' = [wrote EXCEPT ![e] = Append(wrote[e], Item(e).ndx)]
      /\ UNCHANGED <<script, split, toRead, wbuf, net, closed, current, partial, ndxIn, read, got, eof>>
    BY <1>3, <1>4, Zenon DEF WriteIndex
<1>6. pc[e] \in Nat \ {0} /\ Sizes(e) /\ Ending(p, e) /\ Buffers(p, e) /\ Numbers(p, e) /\ Buffers(e, p)
    BY <1>2, Zenon DEF Way, Sizes
<1>7. /\ Sets(ndxOut', ndxOut, e, p, w.state) /\ Sets(todo', todo, e, p, DataFrames(w.bytes))
      /\ Sets(sent', sent, e, p, sent[e] \o w.bytes)
      /\ Sets(wrote', wrote, e, p, Append(wrote[e], Item(e).ndx))
    BY <1>2, <1>5, Updated, Zenon DEF Shapes
<1>8. /\ OnEnds(staging') /\ OnEnds(readBuf') /\ staging'[p] = staging[p] /\ readBuf'[p] = readBuf[p]
      /\ \/ staging'[e] = staging[e] /\ readBuf'[e] = readBuf[e]
         \/ staging'[e] = q.staging /\ readBuf'[e] = q.queue
    <2>1. CASE split[e]
        BY <1>2, <1>5, <2>1, Zenon DEF Shapes
    <2>2. CASE ~split[e]
        <3>1. Sets(staging', staging, e, p, q.staging) /\ Sets(readBuf', readBuf, e, p, q.queue)
            BY <1>2, <1>5, <2>2, Updated, Zenon DEF Shapes
        <3> QED
            BY <3>1, Zenon DEF Sets
    <2> QED
        BY <2>1, <2>2, Zenon
<1>9. OnEnds(pc') /\ pc'[e] \in Nat \ {0} /\ pc'[p] = pc[p]
    BY <1>2, <1>5, <1>6, Advanced, Zenon
<1>10. Shapes'
    BY <1>2, <1>5, <1>7, <1>8, <1>9, Zenon DEF Shapes, Sets
<1>11. Way(e, p)' /\ Flows(e, p)
    <2>1. Channel(q.staging, net[p], wbuf[p], todo[p], sent[p], got[e], current[e], q.queue)
        BY <1>4, <1>6, ParsedAgain, Zenon
    <2>2. Buffers(e, p)'
        BY <1>5, <1>6, <1>7, <1>8, <2>1, Zenon DEF Buffers, Sets
    <2>3. Sizes(p)' /\ (Past(p) => Past(p)')
        BY <1>2, <1>5, <1>9, Zenon DEF Way, Sizes, Past
    <2> QED
        BY <1>2, <1>5, <1>7, <2>2, <2>3, Moved, Zenon DEF Sets
<1>12. /\ w.bytes \in Seq(Bytes) /\ Len(w.bytes) >= 1 /\ Len(w.bytes) <= 6
       /\ Indexed(Append(wrote[e], Item(e).ndx), w.state, sent[e] \o w.bytes, Codec,
                  read[p], ndxIn[p], Len(got[p]), partial[p])
    <2>1. Item(e).ndx \in Indices
        BY <1>2, <1>5, <1>6, IndexItem, Zenon
    <2>2. Indexed(wrote[e], ndxOut[e], sent[e], Codec, read[p], ndxIn[p], Len(got[p]), partial[p])
        BY <1>6, Zenon DEF Numbers
    <2> QED
        BY <1>3, <2>1, <2>2, IndexedWrite, Zenon
<1>13. Buffers(p, e)'
    <2>1. Len(w.bytes) > 0 /\ Len(w.bytes) <= MAX_PAYLOAD
        BY <1>12 DEF MAX_PAYLOAD
    <2>2. Channel(staging[p], net[e], wbuf[e], <<>>, sent[e], got[p], current[p], readBuf[p])
        BY <1>5, <1>6, Zenon DEF Buffers
    <2>3. Channel(staging[p], net[e], wbuf[e], DataFrames(w.bytes), sent[e] \o w.bytes,
                  got[p], current[p], readBuf[p])
        BY <1>12, <2>1, <2>2, ChannelData, Zenon
    <2> QED
        BY <1>5, <1>7, <1>8, <2>3, Zenon DEF Buffers, Sets
<1>14. Numbers(p, e)'
    BY <1>5, <1>7, <1>12, Zenon DEF Numbers, Codec, Sets
<1>15. ~eof[p] /\ Ending(p, e)'
    <2>1. ~Past(e)
        BY <1>2, <1>5, <1>6, NotPast, Zenon
    <2>2. ~closed[e] /\ ~eof[p] /\ eof[p] \in BOOLEAN
        BY <1>6, <2>1, Zenon DEF Ending
    <2> QED
        BY <1>5, <2>2, Zenon DEF Ending
<1>16. Sizes(e)'
    BY <1>5, <1>6, <1>9, Zenon DEF Sizes
<1>17. Flows(p, e)
    <2>1. sent[e] \in Seq(Bytes)
        BY <1>6, ChannelType, Zenon DEF Buffers
    <2>2. Follows(sent[e] \o w.bytes, sent[e])
        BY <1>12, <2>1, FollowsCat, Zenon
    <2> QED
        BY <1>5, <1>7, <1>15, <2>2, Zenon DEF Flows, Sets
<1> QED
    BY <1>1, <1>10, <1>11, <1>13, <1>14, <1>15, <1>16, <1>17, Kept, Zenon DEF Way

\* write_all into the BufWriter.
LEMMA BufferKeeps ==
    ASSUME Inv, NEW e \in Ends, Buffer(e)
    PROVE  Keeps
<1>1. PICK p : p = Peer(e)
    BY Zenon
<1>2. Shapes /\ Way(e, p) /\ Way(p, e) /\ p \in Ends /\ p # e
    BY <1>1, BothWays, Zenon
<1>3. /\ todo[e] # <<>> /\ Fits(e)
      /\ wbuf' = [wbuf EXCEPT ![e] = wbuf[e] \o Head(todo[e])]
      /\ todo' = [todo EXCEPT ![e] = Tail(todo[e])]
      /\ UNCHANGED <<progVars, net, closed, ndxOut, wrote, sent, readVars>>
    BY Zenon DEF Buffer
<1>4. Sets(wbuf', wbuf, e, p, wbuf[e] \o Head(todo[e])) /\ Sets(todo', todo, e, p, Tail(todo[e]))
    BY <1>2, <1>3, Updated, Zenon DEF Shapes
<1>5. Shapes'
    BY <1>2, <1>3, <1>4, Zenon DEF Shapes, Sets, readVars, progVars
<1>6. Way(e, p)' /\ Flows(e, p)
    <2>1. SameReader(e) /\ SameWriter(p) /\ SamePlace(p) /\ script' = script
        BY <1>3, <1>4, Zenon DEF SameReader, SameWriter, SamePlace, Sets, readVars, progVars
    <2> QED
        BY <1>2, <2>1, SameWay, Zenon
<1>7. Buffers(p, e)'
    <2>1. Channel(staging[p], net[e], wbuf[e] \o Head(todo[e]), Tail(todo[e]), sent[e],
                  got[p], current[p], readBuf[p])
        BY <1>2, <1>3, ChannelBuffer, Zenon DEF Way, Buffers
    <2> QED
        BY <1>3, <1>4, <2>1, Zenon DEF Buffers, Sets, readVars
<1>8. Sizes(e)'
    <2>1. wbuf[e] \in Seq(Bytes) /\ todo[e] \in Seq(Seq(Bytes))
        BY <1>2, ChannelType, Zenon DEF Way, Buffers
    <2>2. Head(todo[e]) \in Seq(Bytes)
        BY <1>3, <2>1
    <2>3. Len(wbuf[e] \o Head(todo[e])) = Len(wbuf[e]) + Len(Head(todo[e]))
        BY <2>1, <2>2
    <2>4. Len(wbuf'[e]) <= BufSize
        BY <1>3, <1>4, <2>3, Zenon DEF Fits, Sets
    <2> QED
        BY <1>2, <1>3, <2>4, Zenon DEF Way, Sizes, progVars
<1>9. Way(p, e)' /\ Flows(p, e)
    <2>1. script' = script /\ (Past(e) => Past(e)') /\ closed'[e] = closed[e] /\ ~closed[e]
        BY <1>2, <1>3, Zenon DEF progVars, Past, Way, Ending
    <2> QED
        BY <1>2, <1>3, <1>7, <1>8, <2>1, Moved, Zenon DEF readVars
<1> QED
    BY <1>1, <1>5, <1>6, <1>9, Kept, Zenon

\* The lengths after the network took n of the bytes that wait for it.
LEMMA PushedSizes ==
    ASSUME NEW s \in Seq(Bytes), NEW t \in Seq(Bytes), NEW n \in Amounts(Min({Len(s), PipeSize - Len(t)})),
           Len(s) <= BufSize, Len(t) <= PipeSize
    PROVE  /\ n \in 0..Len(s) /\ Len(From(s, n + 1)) <= BufSize
           /\ Len(t \o SubSeq(s, 1, n)) <= PipeSize
<1>1. PICK a \in Nat, b \in Nat : a = Len(s) /\ b = Len(t)
    OBVIOUS
<1>2. PICK c : c = PipeSize - b
    BY Zenon
<1>3. c \in Nat
    BY <1>1, <1>2, MuxAssumption
<1>4. PICK m : m = Min({a, c})
    BY Zenon
<1>5. a \in Int /\ c \in Int
    BY <1>3
<1>6. m = IF a <= c THEN a ELSE c
    BY <1>4, <1>5, MinTwo, Zenon
<1>7. m # 0 /\ (n = 1 \/ n = m)
    BY <1>1, <1>2, <1>4, Zenon DEF Amounts
<1>8. n \in Nat /\ n <= a /\ n <= c
    BY <1>3, <1>6, <1>7
<1>9. n \in 0..Len(s)
    BY <1>1, <1>8
<1>10. Len(From(s, n + 1)) <= BufSize
    <2>1. Len(From(s, n + 1)) = a - n
        BY <1>1, <1>8 DEF From
    <2> QED
        BY <1>1, <1>8, <2>1, MuxAssumption
<1>11. Len(t \o SubSeq(s, 1, n)) <= PipeSize
    <2>1. SubSeq(s, 1, n) \in Seq(Bytes) /\ Len(SubSeq(s, 1, n)) = n
        BY <1>1, <1>8
    <2>2. Len(t \o SubSeq(s, 1, n)) = b + n
        BY <1>1, <2>1
    <2> QED
        BY <1>1, <1>2, <1>8, <2>2, MuxAssumption
<1> QED
    BY <1>9, <1>10, <1>11, Zenon

\* The BufWriter writes to the network.
LEMMA PushBufferKeeps ==
    ASSUME Inv, NEW e \in Ends, PushBuffer(e)
    PROVE  Keeps
<1>1. PICK p : p = Peer(e)
    BY Zenon
<1>2. Shapes /\ Way(e, p) /\ Way(p, e) /\ p \in Ends /\ p # e
    BY <1>1, BothWays, Zenon
<1>3. PICK n \in Amounts(Min({Len(wbuf[e]), PipeSize - Len(net[e])})) :
          /\ net' = [net EXCEPT ![e] = net[e] \o SubSeq(wbuf[e], 1, n)]
          /\ wbuf' = [wbuf EXCEPT ![e] = From(wbuf[e], n + 1)]
    BY Zenon DEF PushBuffer
<1>4. wbuf[e] # <<>> /\ UNCHANGED <<progVars, closed, todo, ndxOut, wrote, sent, readVars>>
    BY Zenon DEF PushBuffer
<1>5. Sets(net', net, e, p, net[e] \o SubSeq(wbuf[e], 1, n)) /\ Sets(wbuf', wbuf, e, p, From(wbuf[e], n + 1))
    BY <1>2, <1>3, Updated, Zenon DEF Shapes
<1>6. Shapes'
    BY <1>2, <1>4, <1>5, Zenon DEF Shapes, Sets, readVars, progVars
<1>7. Way(e, p)' /\ Flows(e, p)
    <2>1. SameReader(e) /\ SameWriter(p) /\ SamePlace(p) /\ script' = script
        BY <1>4, <1>5, Zenon DEF SameReader, SameWriter, SamePlace, Sets, readVars, progVars
    <2> QED
        BY <1>2, <2>1, SameWay, Zenon
<1>8. /\ n \in 0..Len(wbuf[e]) /\ Len(From(wbuf[e], n + 1)) <= BufSize
      /\ Len(net[e] \o SubSeq(wbuf[e], 1, n)) <= PipeSize
    <2>1. wbuf[e] \in Seq(Bytes) /\ net[e] \in Seq(Bytes)
        BY <1>2, ChannelType, Zenon DEF Way, Buffers
    <2>2. Len(wbuf[e]) <= BufSize /\ Len(net[e]) <= PipeSize
        BY <1>2, Zenon DEF Way, Sizes
    <2> QED
        BY <1>3, <2>1, <2>2, PushedSizes, Zenon
<1>9. Buffers(p, e)'
    <2>1. Channel(staging[p], net[e] \o SubSeq(wbuf[e], 1, n), From(wbuf[e], n + 1), todo[e], sent[e],
                  got[p], current[p], readBuf[p])
        BY <1>2, <1>8, ChannelPush, Zenon DEF Way, Buffers
    <2> QED
        BY <1>4, <1>5, <2>1, Zenon DEF Buffers, Sets, readVars
<1>10. Sizes(e)'
    BY <1>2, <1>4, <1>5, <1>8, Zenon DEF Way, Sizes, Sets, progVars
<1>11. Way(p, e)' /\ Flows(p, e)
    <2>1. script' = script /\ (Past(e) => Past(e)') /\ closed'[e] = closed[e] /\ ~closed[e]
        BY <1>2, <1>4, Zenon DEF progVars, Past, Way, Ending
    <2> QED
        BY <1>2, <1>4, <1>9, <1>10, <2>1, Moved, Zenon DEF readVars
<1> QED
    BY <1>1, <1>6, <1>7, <1>11, Kept, Zenon

\* flush returns: only the position changes.
LEMMA FlushReturnsKeeps ==
    ASSUME Inv, NEW e \in Ends, FlushReturns(e)
    PROVE  Keeps
<1>1. PICK p : p = Peer(e)
    BY Zenon
<1>2. Shapes /\ Way(e, p) /\ Way(p, e) /\ p \in Ends /\ p # e
    BY <1>1, BothWays, Zenon
<1>3. Advance(e) /\ UNCHANGED <<script, split, toRead, net, closed, writeVars, readVars>>
    BY Zenon DEF FlushReturns
<1>4. pc[e] \in Nat \ {0}
    BY <1>2, Zenon DEF Way, Sizes
<1>5. OnEnds(pc') /\ pc'[e] \in Nat \ {0} /\ pc'[p] = pc[p] /\ (Past(e) => Past(e)')
    BY <1>2, <1>3, <1>4, Advanced, Zenon
<1>6. Shapes'
    BY <1>2, <1>3, <1>5, Zenon DEF Shapes, readVars, writeVars
<1>7. Way(e, p)' /\ Flows(e, p)
    <2>1. SameReader(e) /\ SameWriter(p) /\ SamePlace(p)
        BY <1>3, <1>5, Zenon DEF SameReader, SameWriter, SamePlace, readVars, writeVars
    <2> QED
        BY <1>2, <1>3, <2>1, SameWay, Zenon
<1>8. Buffers(p, e)' /\ Sizes(e)'
    BY <1>2, <1>3, <1>5, Zenon DEF Way, Buffers, Sizes, readVars, writeVars
<1>9. Way(p, e)' /\ Flows(p, e)
    BY <1>2, <1>3, <1>5, <1>8, Moved, Zenon DEF readVars, writeVars
<1> QED
    BY <1>1, <1>6, <1>7, <1>9, Kept, Zenon

\* into_split: every buffer stays with its half.
LEMMA IntoSplitKeeps ==
    ASSUME Inv, NEW e \in Ends, IntoSplit(e)
    PROVE  Keeps
<1>1. PICK p : p = Peer(e)
    BY Zenon
<1>2. Shapes /\ Way(e, p) /\ Way(p, e) /\ p \in Ends /\ p # e
    BY <1>1, BothWays, Zenon
<1>3. /\ At(e, "split") /\ Advance(e)
      /\ split' = [split EXCEPT ![e] = TRUE] /\ toRead' = [toRead EXCEPT ![e] = Item(e).reads]
      /\ UNCHANGED <<script, net, closed, writeVars, readVars>>
    BY Zenon DEF IntoSplit
<1>4. pc[e] \in Nat \ {0}
    BY <1>2, Zenon DEF Way, Sizes
<1>5. OnEnds(pc') /\ pc'[e] \in Nat \ {0} /\ pc'[p] = pc[p] /\ (Past(e) => Past(e)')
    BY <1>2, <1>3, <1>4, Advanced, Zenon
<1>6. Sets(split', split, e, p, TRUE) /\ Sets(toRead', toRead, e, p, Item(e).reads)
    BY <1>2, <1>3, Updated, Zenon DEF Shapes
<1>7. toRead'[e] \in Nat
    BY <1>2, <1>3, <1>4, <1>6, SplitItem, Zenon DEF Sets
<1>8. Shapes'
    BY <1>2, <1>3, <1>5, <1>6, Zenon DEF Shapes, Sets, readVars, writeVars
<1>9. Way(e, p)' /\ Flows(e, p)
    <2>1. SameReader(e) /\ SameWriter(p) /\ SamePlace(p)
        BY <1>3, <1>5, <1>6, Zenon DEF SameReader, SameWriter, SamePlace, Sets, readVars, writeVars
    <2> QED
        BY <1>2, <1>3, <2>1, SameWay, Zenon
<1>10. Buffers(p, e)' /\ Sizes(e)'
    BY <1>2, <1>3, <1>5, <1>7, Zenon DEF Way, Buffers, Sizes, readVars, writeVars
<1>11. Way(p, e)' /\ Flows(p, e)
    BY <1>2, <1>3, <1>5, <1>10, Moved, Zenon DEF readVars, writeVars
<1> QED
    BY <1>1, <1>8, <1>9, <1>11, Kept, Zenon

\* shutdown: nothing is left to write when the write half is closed.
LEMMA ShutdownKeeps ==
    ASSUME Inv, NEW e \in Ends, Shutdown(e)
    PROVE  Keeps
<1>1. PICK p : p = Peer(e)
    BY Zenon
<1>2. Shapes /\ Way(e, p) /\ Way(p, e) /\ p \in Ends /\ p # e
    BY <1>1, BothWays, Zenon
<1>3. /\ At(e, "shutdown") /\ Flushing(e) /\ wbuf[e] = <<>> /\ Advance(e)
      /\ closed' = [closed EXCEPT ![e] = TRUE]
      /\ UNCHANGED <<script, split, toRead, net, writeVars, readVars>>
    BY Zenon DEF Shutdown
<1>4. pc[e] \in Nat \ {0}
    BY <1>2, Zenon DEF Way, Sizes
<1>5. OnEnds(pc') /\ pc'[e] \in Nat \ {0} /\ pc'[p] = pc[p] /\ pc'[e] = pc[e] + 1
    BY <1>2, <1>3, <1>4, Advanced, Zenon
<1>6. Sets(closed', closed, e, p, TRUE)
    BY <1>2, <1>3, Updated, Zenon DEF Shapes
<1>7. Shapes'
    BY <1>2, <1>3, <1>5, <1>6, Zenon DEF Shapes, Sets, readVars, writeVars
<1>8. Way(e, p)' /\ Flows(e, p)
    <2>1. SameReader(e) /\ SameWriter(p) /\ SamePlace(p)
        BY <1>3, <1>5, <1>6, Zenon DEF SameReader, SameWriter, SamePlace, Sets, readVars, writeVars
    <2> QED
        BY <1>2, <1>3, <2>1, SameWay, Zenon
<1>9. Past(e)'
    <2>1. /\ pc[e] \in DOMAIN script[e] /\ script[e][pc[e]].op = "shutdown"
          /\ DOMAIN script[e] = 1..Len(script[e])
        BY <1>2, <1>3, <1>4, AtItem, Zenon
    <2>2. pc[e] < pc'[e]
        BY <1>4, <1>5
    <2> QED
        BY <1>3, <2>1, <2>2, Zenon DEF Past
<1>10. Ending(p, e)'
    <2>1. todo'[e] = <<>> /\ wbuf'[e] = <<>> /\ closed'[e]
        BY <1>3, <1>6, Zenon DEF Flushing, writeVars, Sets
    <2>2. (eof[p] => got[p] = sent[e]) /\ eof[p] \in BOOLEAN
        BY <1>2, Zenon DEF Way, Ending
    <2> QED
        BY <1>3, <1>9, <2>1, <2>2, Zenon DEF Ending, readVars, writeVars
<1>11. Buffers(p, e)' /\ Numbers(p, e)' /\ Sizes(e)'
    BY <1>2, <1>3, <1>5, Zenon DEF Way, Buffers, Numbers, Sizes, Codec, readVars, writeVars
<1>12. Flows(p, e)
    BY <1>3, Zenon DEF Flows, readVars, writeVars
<1> QED
    BY <1>1, <1>7, <1>8, <1>10, <1>11, <1>12, Kept, Zenon DEF Way

\* The network holds less when the reader takes from it.
LEMMA TakenSizes ==
    ASSUME NEW p, Sizes(p), NEW n \in Nat, net[p] \in Seq(Bytes),
           net'[p] = From(net[p], n + 1), Len(From(net[p], n + 1)) <= Len(net[p]),
           wbuf'[p] = wbuf[p], pc'[p] = pc[p], toRead'[p] = toRead[p]
    PROVE  Sizes(p)'
<1>1. PICK a \in Nat : a = Len(net[p])
    OBVIOUS
<1>2. From(net[p], n + 1) \in Seq(Bytes)
    BY DEF From
<1>3. PICK b \in Nat : b = Len(net'[p])
    BY <1>2
<1>4. b <= a /\ a <= PipeSize
    BY <1>1, <1>3, Zenon DEF Sizes
<1>5. b <= PipeSize
    BY <1>4, MuxAssumption
<1> QED
    BY <1>3, <1>5, Zenon DEF Sizes

\* flush reads while it waits: what the peer has sent goes to the staging buffer.
LEMMA FlushReadsKeeps ==
    ASSUME Inv, NEW e \in Ends, FlushReads(e)
    PROVE  Keeps
<1>1. PICK p : p = Peer(e)
    BY Zenon
<1>2. Shapes /\ Way(e, p) /\ Way(p, e) /\ p \in Ends /\ p # e
    BY <1>1, BothWays, Zenon
<1>3. UNCHANGED <<progVars, closed, writeVars, current, partial, ndxIn, read, got, eof>>
    BY Zenon DEF FlushReads
<1>4. PICK n \in Amounts(Len(net[p])) :
          /\ net' = [net EXCEPT ![p] = From(net[p], n + 1)]
          /\ staging' = [staging EXCEPT ![e] = Parsed(e, SubSeq(net[p], 1, n)).staging]
          /\ readBuf' = [readBuf EXCEPT ![e] = Parsed(e, SubSeq(net[p], 1, n)).queue]
    BY <1>1, Zenon DEF FlushReads
<1>5. PICK q : q = Parsed(e, SubSeq(net[p], 1, n))
    BY Zenon
<1>6. /\ Sets(net', net, p, e, From(net[p], n + 1))
      /\ Sets(staging', staging, e, p, q.staging) /\ Sets(readBuf', readBuf, e, p, q.queue)
    BY <1>2, <1>4, <1>5, Updated, Zenon DEF Shapes
<1>7. Shapes'
    BY <1>2, <1>3, <1>6, Zenon DEF Shapes, Sets, writeVars, progVars
<1>8. Way(p, e)' /\ Flows(p, e)
    <2>1. SameReader(p) /\ SameWriter(e) /\ SamePlace(e) /\ script' = script
        BY <1>3, <1>6, Zenon DEF SameReader, SameWriter, SamePlace, Sets, writeVars, progVars
    <2> QED
        BY <1>2, <2>1, SameWay, Zenon
<1>9. /\ Channel(q.staging, From(net[p], n + 1), wbuf[p], todo[p], sent[p], got[e], current[e], q.queue)
      /\ Len(From(net[p], n + 1)) <= Len(net[p]) /\ n \in Nat /\ net[p] \in Seq(Bytes)
    <2>1. Buffers(e, p)
        BY <1>2, Zenon DEF Way
    <2>2. net[p] \in Seq(Bytes)
        BY <2>1, ChannelType, Zenon DEF Buffers
    <2> QED
        BY <1>4, <1>5, <2>1, <2>2, ParsedMore, Zenon
<1>10. Buffers(e, p)'
    BY <1>3, <1>6, <1>9, Zenon DEF Buffers, Sets, writeVars
<1>11. Sizes(p)'
    <2>1. Sizes(p)
        BY <1>2, Zenon DEF Way
    <2> QED
        BY <1>3, <1>6, <1>9, <2>1, TakenSizes, Zenon DEF Sets, writeVars, progVars
<1>12. Way(e, p)' /\ Flows(e, p)
    <2>1. script' = script /\ (Past(p) => Past(p)')
        BY <1>3, Zenon DEF progVars, Past
    <2> QED
        BY <1>2, <1>3, <1>10, <1>11, <2>1, Moved, Zenon DEF writeVars
<1> QED
    BY <1>1, <1>7, <1>8, <1>12, Kept, Zenon
=============================================================================
