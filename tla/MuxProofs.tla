----------------------------- MODULE MuxProofs -----------------------------
(***************************************************************************)
(* The reader's actions keep the inductive invariant of MuxWriting too, and *)
(* the theorems: each direction is a byte stream, and the two ends read the *)
(* indices that were written.                                               *)
(***************************************************************************)
EXTENDS MuxWriting

USE SMTT(20), ZenonT(20)

-----------------------------------------------------------------------------
\* The reader's actions.

\* What Took does to the reader of e: the bytes are served, and they complete an index
\* or extend the part of one.
Completed(e, s) ==
    /\ partial'[e] = <<>> /\ ndxIn'[e] = read_ndx(s, ndxIn[e], Codec).state
    /\ read'[e] = Append(read[e], read_ndx(s, ndxIn[e], Codec).ndx)
Extended(e, s) == partial'[e] = s /\ ndxIn'[e] = ndxIn[e] /\ read'[e] = read[e]
TookShapes ==
    /\ OnEnds(got') /\ OnEnds(partial') /\ OnEnds(ndxIn') /\ OnEnds(read') /\ OnEnds(pc')
    /\ OnEnds(toRead') /\ OnEnds(eof')
TookElsewhere(p) ==
    /\ got'[p] = got[p] /\ partial'[p] = partial[p] /\ ndxIn'[p] = ndxIn[p] /\ read'[p] = read[p]
    /\ pc'[p] = pc[p] /\ toRead'[p] = toRead[p] /\ eof'[p] = eof[p]

LEMMA TookCases ==
    ASSUME Shapes, NEW e \in Ends, NEW p \in Ends, p # e, NEW bytes, Took(e, bytes),
           NEW s, s = partial[e] \o bytes
    PROVE  /\ TookShapes /\ TookElsewhere(p)
           /\ got'[e] = got[e] \o bytes /\ eof'[e] = (bytes = <<>>)
           /\ Len(s) = NdxLength(s, Codec) => Completed(e, s)
           /\ Len(s) # NdxLength(s, Codec) => Extended(e, s)
           /\ pc'[e] = pc[e] \/ pc'[e] = pc[e] + 1
           /\ toRead'[e] = toRead[e] \/ (split[e] /\ toRead'[e] = toRead[e] - 1)
<1>1. PICK done : done = (Len(s) = NdxLength(s, Codec))
    BY Zenon
<1>2. PICK r : r = read_ndx(s, ndxIn[e], Codec)
    BY Zenon
<1>3. /\ got' = [got EXCEPT ![e] = got[e] \o bytes]
      /\ partial' = [partial EXCEPT ![e] = IF done THEN <<>> ELSE s]
      /\ ndxIn' = IF done THEN [ndxIn EXCEPT ![e] = r.state] ELSE ndxIn
      /\ read' = IF done THEN [read EXCEPT ![e] = Append(read[e], r.ndx)] ELSE read
      /\ pc' = IF done /\ ~split[e] THEN [pc EXCEPT ![e] = pc[e] + 1] ELSE pc
      /\ toRead' = IF done /\ split[e] THEN [toRead EXCEPT ![e] = toRead[e] - 1] ELSE toRead
      /\ eof' = [eof EXCEPT ![e] = bytes = <<>>]
    BY <1>1, <1>2, Zenon DEF Took
<1>4. Sets(got', got, e, p, got[e] \o bytes) /\ Sets(eof', eof, e, p, bytes = <<>>)
    BY <1>3, Updated, Zenon DEF Shapes
<1>5. Sets(partial', partial, e, p, IF done THEN <<>> ELSE s)
    BY <1>3, Updated, Zenon DEF Shapes
<1>6. CASE done
    <2>1. Sets(ndxIn', ndxIn, e, p, r.state) /\ Sets(read', read, e, p, Append(read[e], r.ndx))
        BY <1>3, <1>6, Updated, Zenon DEF Shapes
    <2>2. /\ OnEnds(pc') /\ pc'[p] = pc[p]
          /\ pc'[e] = pc[e] \/ pc'[e] = pc[e] + 1
        <3>1. pc' = pc \/ Sets(pc', pc, e, p, pc[e] + 1)
            BY <1>3, Updated, Zenon DEF Shapes
        <3> QED
            BY <3>1, Zenon DEF Shapes, Sets
    <2>3. /\ OnEnds(toRead') /\ toRead'[p] = toRead[p]
          /\ toRead'[e] = toRead[e] \/ (split[e] /\ toRead'[e] = toRead[e] - 1)
        <3>1. toRead' = toRead \/ (split[e] /\ Sets(toRead', toRead, e, p, toRead[e] - 1))
            BY <1>3, Updated, Zenon DEF Shapes
        <3> QED
            BY <3>1, Zenon DEF Shapes, Sets
    <2>4. Completed(e, s)
        BY <1>2, <1>5, <1>6, <2>1, Zenon DEF Completed, Sets
    <2>5. TookShapes /\ TookElsewhere(p)
        BY <1>4, <1>5, <2>1, <2>2, <2>3, Zenon DEF TookShapes, TookElsewhere, Sets
    <2> QED
        BY <1>1, <1>4, <1>6, <2>2, <2>3, <2>4, <2>5, Zenon DEF Sets
<1>7. CASE ~done
    <2>1. ndxIn' = ndxIn /\ read' = read /\ pc' = pc /\ toRead' = toRead
        BY <1>3, <1>7, Zenon
    <2>2. Extended(e, s)
        BY <1>5, <1>7, <2>1, Zenon DEF Extended, Sets
    <2>3. TookShapes /\ TookElsewhere(p)
        BY <1>4, <1>5, <2>1, Zenon DEF TookShapes, TookElsewhere, Sets, Shapes
    <2> QED
        BY <1>1, <1>4, <1>7, <2>1, <2>2, <2>3, Zenon DEF Sets
<1> QED
    BY <1>6, <1>7, Zenon

\* The position of an end that has read.
LEMMA ReadPlace ==
    ASSUME NEW e, Sizes(e), script' = script, Reading(e), wbuf'[e] = wbuf[e], net'[e] = net[e],
           pc'[e] = pc[e] \/ pc'[e] = pc[e] + 1,
           toRead'[e] = toRead[e] \/ (split[e] /\ toRead'[e] = toRead[e] - 1)
    PROVE  Sizes(e)' /\ (Past(e) => Past(e)')
<1>1. pc[e] \in Nat \ {0} /\ toRead[e] \in Nat
    BY Zenon DEF Sizes
<1>2. pc'[e] \in Nat \ {0} /\ pc[e] <= pc'[e]
    BY <1>1
<1>3. toRead'[e] \in Nat
    <2>1. split[e] => toRead[e] > 0
        BY Zenon DEF Reading
    <2> QED
        BY <1>1, <2>1
<1>4. ASSUME Past(e) PROVE Past(e)'
    <2>1. PICK i \in 1..Len(script[e]) : i < pc[e] /\ script[e][i].op = "shutdown"
        BY <1>4, Zenon DEF Past
    <2>2. i \in Int
        OBVIOUS
    <2>3. i < pc'[e]
        BY <1>1, <1>2, <2>1, <2>2
    <2> QED
        BY <2>1, <2>3, Zenon DEF Past
<1>5. Sizes(e)'
    BY <1>2, <1>3, Zenon DEF Sizes
<1> QED
    BY <1>4, <1>5

\* A prefix of a sequence is followed by it.
LEMMA FollowsSlice ==
    ASSUME NEW t \in Seq(Bytes), NEW s \in Seq(Bytes), NEW m \in Nat, m = Len(s), m <= Len(t), s = Slice(t, 0, m)
    PROVE  Follows(t, s)
<1>1. s = SubSeq(t, 0 + 1, m)
    BY Zenon DEF Slice
<1>2. 0 + 1 = 1
    OBVIOUS
<1>3. s = SubSeq(t, 1, Len(s))
    BY <1>1, <1>2, Zenon
<1> QED
    BY <1>3, Zenon DEF Follows

\* The first bytes of a sequence, and bytes added to one.
LEMMA FrontOf ==
    ASSUME NEW s \in Seq(Bytes), NEW n \in Nat, NEW c \in Nat, c = Len(s), n <= c
    PROVE  SubSeq(s, 1, n) \in Seq(Bytes) /\ Len(SubSeq(s, 1, n)) = n
OBVIOUS

LEMMA LongerBy ==
    ASSUME NEW s \in Seq(Bytes), NEW t \in Seq(Bytes), NEW n \in Nat, n = Len(t), n # 0
    PROVE  t # <<>> /\ Len(s \o t) = Len(s) + n
OBVIOUS

\* The bytes served: the next n of the stream, no more than the reader wants.
Serving(e, p, cur, n, g) ==
    /\ n \in Nat /\ n # 0 /\ n \in 0..Len(cur) /\ g = Len(got[e]) /\ g < Len(sent[p]) /\ g \in Nat
    /\ n <= NdxLength(partial[e], Codec) - Len(partial[e])

LEMMA ServingAmount ==
    ASSUME NEW e, NEW p, Numbers(e, p), NEW stg, NEW nt, NEW queue, NEW cur,
           Channel(stg, nt, wbuf[p], todo[p], sent[p], got[e], cur, queue), cur # <<>>,
           NEW n, n = Min({Wanted(e), Len(cur)}), NEW g, g = Len(got[e])
    PROVE  Serving(e, p, cur, n, g)
<1>1. cur \in Seq(Bytes) /\ got[e] \in Seq(Bytes) /\ sent[p] \in Seq(Bytes)
    BY ChannelType, Zenon
<1>2. PICK c \in Nat : c = Len(cur)
    BY <1>1
<1>3. c # 0
    BY <1>1, <1>2
<1>4. c \in 0..Len(cur)
    BY <1>2
<1>5. g + c \in g..Len(sent[p])
    <2>1. Given(stg, nt, wbuf[p], todo[p], sent[p], got[e], cur, queue, c, SubSeq(cur, 1, c), Len(got[e]))
        BY <1>4, ChannelServe, Zenon
    <2> QED
        BY <2>1, Zenon DEF Given
<1>6. PICK l \in Nat : l = Len(sent[p])
    BY <1>1
<1>7. g \in Nat
    BY <1>1
<1>8. g < l
    <2>1. g + c \in g..l
        BY <1>5, <1>6, Zenon
    <2> QED
        BY <1>3, <1>7, <2>1
<1>9. PICK w : w = NdxLength(partial[e], Codec) - Len(partial[e])
    BY Zenon
<1>10. w \in Nat \ {0}
    <2>1. Len(got[e]) < Len(sent[p])
        BY <1>6, <1>8, Zenon
    <2> QED
        BY <1>9, <2>1, IndexedWanted, Zenon DEF Numbers
<1>11. n = IF w <= c THEN w ELSE c
    <2>1. w \in Int /\ c \in Int
        BY <1>10
    <2> QED
        BY <1>2, <1>9, <2>1, MinTwo, Zenon DEF Wanted
<1>12. n \in Nat /\ n # 0 /\ n <= w /\ n \in 0..c
    BY <1>3, <1>10, <1>11
<1> QED
    BY <1>2, <1>6, <1>7, <1>8, <1>9, <1>12, Zenon DEF Serving

\* A served chunk, in the direction it comes from.
LEMMA ServedWay ==
    ASSUME Shapes, NEW e \in Ends, NEW p \in Ends, p # e, Way(e, p), Reading(e),
           NEW stg, NEW nt, NEW queue, NEW cur, NEW n,
           Channel(stg, nt, wbuf[p], todo[p], sent[p], got[e], cur, queue), cur # <<>>,
           n = Min({Wanted(e), Len(cur)}), Took(e, SubSeq(cur, 1, n)), Len(nt) <= PipeSize,
           staging'[e] = stg, readBuf'[e] = queue, current'[e] = From(cur, n + 1), net'[p] = nt,
           script' = script, UNCHANGED <<closed, writeVars>>
    PROVE  Way(e, p)' /\ Flows(e, p)
<1>1. Numbers(e, p) /\ Ending(e, p) /\ Sizes(p)
    BY Zenon DEF Way
<1>2. PICK g : g = Len(got[e])
    BY Zenon
<1>3. Serving(e, p, cur, n, g)
    BY <1>1, <1>2, ServingAmount, Zenon
<1>4. PICK bytes : bytes = SubSeq(cur, 1, n)
    BY Zenon
<1>5. PICK s : s = partial[e] \o bytes
    BY Zenon
<1>6. Took(e, bytes)
    BY <1>4, Zenon
<1>7. /\ TookElsewhere(p) /\ got'[e] = got[e] \o bytes /\ eof'[e] = (bytes = <<>>)
      /\ Len(s) = NdxLength(s, Codec) => Completed(e, s)
      /\ Len(s) # NdxLength(s, Codec) => Extended(e, s)
    BY <1>5, <1>6, TookCases, Zenon
<1>8. /\ Channel(stg, nt, wbuf[p], todo[p], sent[p], got[e] \o bytes, From(cur, n + 1), queue)
      /\ g + n \in g..Len(sent[p]) /\ bytes = Slice(sent[p], g, g + n)
      /\ got[e] \o bytes = Slice(sent[p], 0, g + n)
    <2>1. n \in 0..Len(cur)
        BY <1>3, Zenon DEF Serving
    <2>2. Given(stg, nt, wbuf[p], todo[p], sent[p], got[e], cur, queue, n, SubSeq(cur, 1, n), Len(got[e]))
        BY <2>1, ChannelServe, Zenon
    <2>3. Given(stg, nt, wbuf[p], todo[p], sent[p], got[e], cur, queue, n, bytes, g)
        BY <1>2, <1>4, <2>2, Zenon
    <2> QED
        BY <2>3, Zenon DEF Given
<1>9. /\ cur \in Seq(Bytes) /\ got[e] \in Seq(Bytes) /\ sent[p] \in Seq(Bytes)
      /\ got[e] \o bytes \in Seq(Bytes)
    BY <1>8, ChannelType, Zenon
<1>10. PICK l \in Nat, c \in Nat : l = Len(sent[p]) /\ c = Len(cur)
    BY <1>9
<1>11. n \in Nat /\ n # 0 /\ n <= c /\ g \in Nat
    <2>1. n \in Nat /\ n # 0 /\ n \in 0..c /\ g \in Nat
        BY <1>3, <1>10, Zenon DEF Serving
    <2> QED
        BY <2>1
<1>12. g + n <= l
    BY <1>8, <1>10, <1>11
<1>13. bytes \in Seq(Bytes) /\ Len(bytes) = n
    BY <1>4, <1>9, <1>10, <1>11, FrontOf, Zenon
<1>14. bytes # <<>> /\ Len(got[e] \o bytes) = g + n
    BY <1>2, <1>9, <1>11, <1>13, LongerBy, Zenon
<1>15. Buffers(e, p)'
    BY <1>7, <1>8, Zenon DEF Buffers, writeVars
<1>16. Numbers(e, p)'
    <2>1. Indexed(wrote[p], ndxOut[p], sent[p], Codec, read[e], ndxIn[e], g, partial[e])
        BY <1>1, <1>2, Zenon DEF Numbers
    <2>2. /\ n \in Nat /\ n # 0 /\ g < Len(sent[p]) /\ g + n <= Len(sent[p])
          /\ n <= NdxLength(partial[e], Codec) - Len(partial[e])
        BY <1>3, <1>10, <1>12, Zenon DEF Serving
    <2>3. s = partial[e] \o Slice(sent[p], g, g + n)
        BY <1>5, <1>8, Zenon
    <2>4. ReadOn(wrote[p], ndxOut[p], sent[p], Codec, read[e], ndxIn[e], g + n, s)
        BY <2>1, <2>2, <2>3, IndexedRead, Zenon
    <2>5. Indexed(wrote[p], ndxOut[p], sent[p], Codec, read'[e], ndxIn'[e], g + n, partial'[e])
        BY <1>7, <2>4, Zenon DEF ReadOn, Completed, Extended
    <2>6. Len(got'[e]) = g + n
        BY <1>7, <1>14, Zenon
    <2> QED
        BY <2>5, <2>6, Zenon DEF Numbers, Codec, writeVars
<1>17. ~eof[e] /\ eof'[e] = FALSE /\ eof[e] = FALSE
    BY <1>1, <1>7, <1>14, Zenon DEF Reading, Ending
<1>18. Ending(e, p)'
    <2>1. Past(p) => Past(p)'
        BY <1>7, Zenon DEF Past, TookElsewhere
    <2> QED
        BY <1>1, <1>17, <2>1, Zenon DEF Ending, writeVars
<1>19. Sizes(p)'
    BY <1>1, <1>7, Zenon DEF Sizes, TookElsewhere, writeVars
<1>20. Flows(e, p)
    <2>1. Follows(got[e] \o bytes, got[e])
        BY <1>9, <1>13, FollowsCat, Zenon
    <2>2. PICK m \in Nat : m = g + n
        BY <1>11
    <2>3. m <= Len(sent[p])
        BY <1>10, <1>12, <2>2, Zenon
    <2>4. Follows(sent[p], got[e] \o bytes)
        BY <1>8, <1>9, <1>14, <2>2, <2>3, FollowsSlice, Zenon
    <2> QED
        BY <1>7, <1>17, <2>1, <2>4, Zenon DEF Flows, writeVars
<1> QED
    BY <1>15, <1>16, <1>18, <1>19, <1>20, Zenon DEF Way

\* A served chunk, in both directions.
LEMMA ServedKeeps ==
    ASSUME Inv, NEW e \in Ends, NEW p, p = Peer(e), Reading(e),
           NEW stg, NEW nt, NEW queue, NEW cur, NEW n,
           Channel(stg, nt, wbuf[p], todo[p], sent[p], got[e], cur, queue), cur # <<>>,
           n = Min({Wanted(e), Len(cur)}), Took(e, SubSeq(cur, 1, n)), Len(nt) <= PipeSize,
           Sets(staging', staging, e, p, stg), Sets(readBuf', readBuf, e, p, queue),
           Sets(current', current, e, p, From(cur, n + 1)), Sets(net', net, p, e, nt),
           UNCHANGED <<script, split, closed, writeVars>>
    PROVE  Keeps
<1>1. Shapes /\ Way(e, p) /\ Way(p, e) /\ p \in Ends /\ p # e
    BY BothWays, Zenon
<1>2. /\ staging'[e] = stg /\ readBuf'[e] = queue /\ current'[e] = From(cur, n + 1) /\ net'[p] = nt
      /\ staging'[p] = staging[p] /\ readBuf'[p] = readBuf[p] /\ current'[p] = current[p] /\ net'[e] = net[e]
      /\ OnEnds(staging') /\ OnEnds(readBuf') /\ OnEnds(current') /\ OnEnds(net')
    BY Zenon DEF Sets
<1>3. Way(e, p)' /\ Flows(e, p)
    BY <1>1, <1>2, ServedWay, Zenon
<1>4. PICK bytes : bytes = SubSeq(cur, 1, n)
    BY Zenon
<1>5. PICK s : s = partial[e] \o bytes
    BY Zenon
<1>6. Took(e, bytes)
    BY <1>4, Zenon
<1>7. /\ TookShapes /\ TookElsewhere(p) /\ (pc'[e] = pc[e] \/ pc'[e] = pc[e] + 1)
      /\ toRead'[e] = toRead[e] \/ (split[e] /\ toRead'[e] = toRead[e] - 1)
    BY <1>1, <1>5, <1>6, TookCases, Zenon
<1>8. Shapes'
    BY <1>1, <1>2, <1>7, Zenon DEF Shapes, TookShapes, writeVars
<1>9. Sizes(e)' /\ (Past(e) => Past(e)')
    <2>1. Sizes(e) /\ wbuf'[e] = wbuf[e] /\ script' = script
        BY <1>1, Zenon DEF Way, writeVars
    <2> QED
        BY <1>2, <1>7, <2>1, ReadPlace, Zenon
<1>10. Buffers(p, e)'
    BY <1>1, <1>2, <1>7, Zenon DEF Way, Buffers, TookElsewhere, writeVars
<1>11. Way(p, e)' /\ Flows(p, e)
    BY <1>1, <1>7, <1>9, <1>10, Moved, Zenon DEF TookElsewhere, writeVars
<1> QED
    BY <1>3, <1>8, <1>11, Kept, Zenon

\* poll_read, step 1.
LEMMA ServeCurrentKeeps ==
    ASSUME Inv, NEW e \in Ends, ServeCurrent(e)
    PROVE  Keeps
<1>1. PICK p : p = Peer(e)
    BY Zenon
<1>2. Shapes /\ Way(e, p) /\ p \in Ends /\ p # e
    BY <1>1, BothWays, Zenon
<1>3. PICK n : n = Min({Wanted(e), Len(current[e])})
    BY Zenon
<1>4. /\ Reading(e) /\ current[e] # <<>> /\ Took(e, SubSeq(current[e], 1, n))
      /\ current' = [current EXCEPT ![e] = From(current[e], n + 1)]
      /\ UNCHANGED <<script, split, net, closed, writeVars, staging, readBuf>>
    BY <1>3, Zenon DEF ServeCurrent
<1>5. Sets(current', current, e, p, From(current[e], n + 1))
    BY <1>2, <1>4, Updated, Zenon DEF Shapes
<1>6. /\ Sets(staging', staging, e, p, staging[e]) /\ Sets(readBuf', readBuf, e, p, readBuf[e])
      /\ Sets(net', net, p, e, net[p])
    BY <1>2, <1>4, Zenon DEF Shapes, Sets
<1>7. Channel(staging[e], net[p], wbuf[p], todo[p], sent[p], got[e], current[e], readBuf[e])
    BY <1>2, Zenon DEF Way, Buffers
<1>8. Len(net[p]) <= PipeSize /\ UNCHANGED <<script, split, closed, writeVars>>
    BY <1>2, <1>4, Zenon DEF Way, Sizes
<1> QED
    BY <1>1, <1>3, <1>4, <1>5, <1>6, <1>7, <1>8, ServedKeeps, Zenon

\* serve_chunk makes the first chunk of the parsed queue the current one.
LEMMA ServeChunkKeeps ==
    ASSUME Inv, NEW e \in Ends, NEW p, p = Peer(e), Reading(e), NEW stg, NEW nt, NEW queue,
           Channel(stg, nt, wbuf[p], todo[p], sent[p], got[e], <<>>, queue), queue # <<>>,
           serve_chunk(e, queue), Len(nt) <= PipeSize,
           Sets(staging', staging, e, p, stg), Sets(net', net, p, e, nt),
           UNCHANGED <<script, split, closed, writeVars>>
    PROVE  Keeps
<1>1. Shapes /\ p \in Ends /\ p # e
    BY BothWays, Zenon
<1>2. PICK cur : cur = queue[1]
    BY Zenon
<1>3. PICK n : n = Min({Wanted(e), Len(cur)})
    BY Zenon
<1>4. /\ Took(e, SubSeq(cur, 1, n)) /\ current' = [current EXCEPT ![e] = From(cur, n + 1)]
      /\ readBuf' = [readBuf EXCEPT ![e] = Tail(queue)]
    BY <1>2, <1>3, Zenon DEF serve_chunk
<1>5. Sets(current', current, e, p, From(cur, n + 1)) /\ Sets(readBuf', readBuf, e, p, Tail(queue))
    BY <1>1, <1>4, Updated, Zenon DEF Shapes
<1>6. Channel(stg, nt, wbuf[p], todo[p], sent[p], got[e], cur, Tail(queue)) /\ cur # <<>>
    BY <1>2, ChannelNext, Zenon
<1> QED
    BY <1>3, <1>4, <1>5, <1>6, ServedKeeps, Zenon

\* poll_read, step 2.
LEMMA ServeBufferedKeeps ==
    ASSUME Inv, NEW e \in Ends, ServeBuffered(e)
    PROVE  Keeps
<1>1. PICK p : p = Peer(e)
    BY Zenon
<1>2. Shapes /\ Way(e, p) /\ p \in Ends /\ p # e
    BY <1>1, BothWays, Zenon
<1>3. PICK q : q = Parsed(e, <<>>)
    BY Zenon
<1>4. /\ Reading(e) /\ current[e] = <<>> /\ q.queue # <<>> /\ serve_chunk(e, q.queue)
      /\ staging' = [staging EXCEPT ![e] = q.staging]
      /\ UNCHANGED <<script, split, net, closed, writeVars>>
    BY <1>3, Zenon DEF ServeBuffered
<1>5. Sets(staging', staging, e, p, q.staging)
    BY <1>2, <1>4, Updated, Zenon DEF Shapes
<1>6. Sets(net', net, p, e, net[p])
    BY <1>2, <1>4, Zenon DEF Shapes, Sets
<1>7. Channel(q.staging, net[p], wbuf[p], todo[p], sent[p], got[e], <<>>, q.queue)
    <2>1. Buffers(e, p)
        BY <1>2, Zenon DEF Way
    <2>2. Channel(q.staging, net[p], wbuf[p], todo[p], sent[p], got[e], current[e], q.queue)
        BY <1>3, <2>1, ParsedAgain, Zenon
    <2> QED
        BY <1>4, <2>2, Zenon
<1>8. Len(net[p]) <= PipeSize /\ UNCHANGED <<script, split, closed, writeVars>>
    BY <1>2, <1>4, Zenon DEF Way, Sizes
<1> QED
    BY <1>1, <1>4, <1>5, <1>6, <1>7, <1>8, ServeChunkKeeps, Zenon

\* poll_read, step 3.
LEMMA ReadWireKeeps ==
    ASSUME Inv, NEW e \in Ends, ReadWire(e)
    PROVE  Keeps
<1>1. PICK p : p = Peer(e)
    BY Zenon
<1>2. Shapes /\ Way(e, p) /\ Way(p, e) /\ p \in Ends /\ p # e
    BY <1>1, BothWays, Zenon
<1>3. Reading(e) /\ current[e] = <<>> /\ UNCHANGED <<script, split, closed, writeVars>>
    BY Zenon DEF ReadWire
<1>4. PICK n \in Amounts(Len(net[p])) :
          LET q == Parsed(e, SubSeq(net[p], 1, n))
          IN /\ net' = [net EXCEPT ![p] = From(net[p], n + 1)]
             /\ staging' = [staging EXCEPT ![e] = q.staging]
             /\ IF q.queue = <<>>
                THEN /\ readBuf' = [readBuf EXCEPT ![e] = <<>>]
                     /\ UNCHANGED <<current, partial, ndxIn, read, got, eof, pc, toRead>>
                ELSE serve_chunk(e, q.queue)
    BY <1>1, Zenon DEF ReadWire
<1>5. PICK q : q = Parsed(e, SubSeq(net[p], 1, n))
    BY Zenon
<1>6. Sets(net', net, p, e, From(net[p], n + 1)) /\ Sets(staging', staging, e, p, q.staging)
    BY <1>2, <1>4, <1>5, Updated, Zenon DEF Shapes
<1>7. Buffers(e, p) /\ Sizes(p) /\ net[p] \in Seq(Bytes)
    BY <1>2, ChannelType, Zenon DEF Way, Buffers
<1>8. /\ Channel(q.staging, From(net[p], n + 1), wbuf[p], todo[p], sent[p], got[e], current[e], q.queue)
      /\ Len(From(net[p], n + 1)) <= Len(net[p]) /\ n \in Nat
    BY <1>4, <1>5, <1>7, ParsedMore, Zenon
<1>9. CASE q.queue = <<>>
    <2>1. /\ readBuf' = [readBuf EXCEPT ![e] = <<>>]
          /\ UNCHANGED <<current, partial, ndxIn, read, got, eof, pc, toRead>>
        BY <1>4, <1>5, <1>9, Zenon
    <2>2. Sets(readBuf', readBuf, e, p, <<>>)
        BY <1>2, <2>1, Updated, Zenon DEF Shapes
    <2>3. Shapes'
        BY <1>2, <1>3, <1>6, <2>1, <2>2, Zenon DEF Shapes, Sets, writeVars
    <2>4. Way(p, e)' /\ Flows(p, e)
        <3>1. SameReader(p) /\ SameWriter(e) /\ SamePlace(e) /\ script' = script
            BY <1>3, <1>6, <2>1, <2>2, Zenon DEF SameReader, SameWriter, SamePlace, Sets, writeVars
        <3> QED
            BY <1>2, <3>1, SameWay, Zenon
    <2>5. Buffers(e, p)'
        BY <1>3, <1>6, <1>8, <1>9, <2>1, <2>2, Zenon DEF Buffers, Sets, writeVars
    <2>6. Sizes(p)' /\ (Past(p) => Past(p)') /\ script' = script
        BY <1>3, <1>6, <1>7, <1>8, <2>1, TakenSizes, Zenon DEF Sets, writeVars, Past
    <2>7. Way(e, p)' /\ Flows(e, p)
        BY <1>2, <1>3, <2>1, <2>5, <2>6, Moved, Zenon DEF writeVars
    <2> QED
        BY <1>1, <2>3, <2>4, <2>7, Kept, Zenon
<1>10. CASE q.queue # <<>>
    <2>1. serve_chunk(e, q.queue)
        BY <1>4, <1>5, <1>10, Zenon
    <2>2. Len(From(net[p], n + 1)) <= PipeSize
        <3>1. PICK a \in Nat : a = Len(net[p])
            BY <1>7
        <3>2. From(net[p], n + 1) \in Seq(Bytes)
            BY <1>8, ChannelType, Zenon
        <3>3. PICK b \in Nat : b = Len(From(net[p], n + 1))
            BY <3>2
        <3>4. b <= a /\ a <= PipeSize
            BY <1>7, <1>8, <3>1, <3>3, Zenon DEF Sizes
        <3>5. b <= PipeSize
            BY <3>4, MuxAssumption
        <3> QED
            BY <3>3, <3>5, Zenon
    <2>3. Channel(q.staging, From(net[p], n + 1), wbuf[p], todo[p], sent[p], got[e], <<>>, q.queue)
        BY <1>3, <1>8, Zenon
    <2> QED
        BY <1>1, <1>3, <1>6, <1>10, <2>1, <2>2, <2>3, ServeChunkKeeps, Zenon
<1> QED
    BY <1>9, <1>10, Zenon

\* poll_read at the end of the wire: everything written has been served.
LEMMA ReadEofKeeps ==
    ASSUME Inv, NEW e \in Ends, ReadEof(e)
    PROVE  Keeps
<1>1. PICK p : p = Peer(e)
    BY Zenon
<1>2. Shapes /\ Way(e, p) /\ Way(p, e) /\ p \in Ends /\ p # e
    BY <1>1, BothWays, Zenon
<1>3. /\ Reading(e) /\ current[e] = <<>> /\ Parsed(e, <<>>).queue = <<>> /\ net[p] = <<>> /\ closed[p]
      /\ eof' = [eof EXCEPT ![e] = TRUE]
      /\ UNCHANGED <<progVars, net, closed, writeVars, staging, readBuf, current, partial, ndxIn, read, got>>
    BY <1>1, Zenon DEF ReadEof
<1>4. Sets(eof', eof, e, p, TRUE)
    BY <1>2, <1>3, Updated, Zenon DEF Shapes
<1>5. Shapes'
    BY <1>2, <1>3, <1>4, Zenon DEF Shapes, Sets, writeVars, progVars
<1>6. Way(p, e)' /\ Flows(p, e)
    <2>1. SameReader(p) /\ SameWriter(e) /\ SamePlace(e) /\ script' = script
        BY <1>3, <1>4, Zenon DEF SameReader, SameWriter, SamePlace, Sets, writeVars, progVars
    <2> QED
        BY <1>2, <2>1, SameWay, Zenon
<1>7. Buffers(e, p) /\ Numbers(e, p) /\ Ending(e, p) /\ Sizes(p)
    BY <1>2, Zenon DEF Way
<1>8. got[e] = sent[p]
    <2>1. todo[p] = <<>> /\ wbuf[p] = <<>>
        BY <1>3, <1>7, Zenon DEF Ending
    <2>2. Channel(staging[e], <<>>, <<>>, <<>>, sent[p], got[e], <<>>, readBuf[e])
        BY <1>3, <1>7, <2>1, Zenon DEF Buffers
    <2>3. parse_frames_from_staging(staging[e], readBuf[e]).queue = <<>>
        BY <1>3, <1>7, ParsedAgain, Zenon
    <2> QED
        BY <2>2, <2>3, ChannelEnd, Zenon
<1>9. Buffers(e, p)' /\ Numbers(e, p)' /\ Sizes(p)'
    BY <1>3, <1>7, Zenon DEF Buffers, Numbers, Sizes, Codec, writeVars, progVars
<1>10. Ending(e, p)'
    <2>1. Past(p) => Past(p)'
        BY <1>3, Zenon DEF Past, progVars
    <2> QED
        BY <1>3, <1>4, <1>7, <1>8, <2>1, Zenon DEF Ending, Sets, writeVars
<1>11. Flows(e, p)
    BY <1>3, <1>4, <1>8, Zenon DEF Flows, Sets, writeVars
<1> QED
    BY <1>1, <1>5, <1>6, <1>9, <1>10, <1>11, Kept, Zenon DEF Way

-----------------------------------------------------------------------------
\* The inductive invariant.

LEMMA InitInv ==
    ASSUME Init
    PROVE  Inv
<1>1. Shapes
    <2>1. script \in Scripts
        BY Zenon DEF Init
    <2>2. \A v : OnEnds([e \in Ends |-> v])
        BY DEF OnEnds
    <2> QED
        BY <2>1, <2>2, Zenon DEF Init, Shapes
<1>2. SUFFICES ASSUME NEW e \in Ends PROVE Way(e, Peer(e))
    BY <1>1, Zenon DEF Inv
<1>3. PICK p \in Ends : p = Peer(e)
    BY TwoEnds, Zenon
<1>4. /\ staging[e] = <<>> /\ net[p] = <<>> /\ wbuf[p] = <<>> /\ todo[p] = <<>> /\ sent[p] = <<>>
      /\ got[e] = <<>> /\ current[e] = <<>> /\ readBuf[e] = <<>> /\ wrote[p] = <<>> /\ read[e] = <<>>
      /\ partial[e] = <<>> /\ ndxOut[p] = NdxState /\ ndxIn[e] = NdxState
      /\ closed[p] = FALSE /\ eof[e] = FALSE /\ pc[p] = 1 /\ toRead[p] = 0
    BY <1>3, Zenon DEF Init
<1>5. Buffers(e, p)
    BY <1>4, ChannelInit, Zenon DEF Buffers
<1>6. Len(<<>>) = 0
    OBVIOUS
<1>7. Numbers(e, p)
    BY <1>4, <1>6, IndexedInit, Zenon DEF Numbers
<1>8. Ending(e, p)
    BY <1>4, Zenon DEF Ending
<1>9. Sizes(p)
    <2>1. 0 <= BufSize /\ 0 <= PipeSize /\ 1 \in Nat \ {0} /\ 0 \in Nat
        BY MuxAssumption, ChunkAssumption
    <2> QED
        BY <1>4, <1>6, <2>1, Zenon DEF Sizes
<1> QED
    BY <1>3, <1>5, <1>7, <1>8, <1>9, Zenon DEF Way

LEMMA NextKeeps ==
    ASSUME Inv, [Next]_vars
    PROVE  Keeps
<1>1. CASE Next
    <2>1. PICK e \in Ends : Writer(e) \/ Reader(e)
        BY <1>1, Zenon DEF Next
    <2>2. CASE WriteIndex(e)
        BY <2>2, WriteIndexKeeps, Zenon
    <2>3. CASE WriteControl(e)
        BY <2>3, WriteControlKeeps, Zenon
    <2>4. CASE Buffer(e)
        BY <2>4, BufferKeeps, Zenon
    <2>5. CASE PushBuffer(e)
        BY <2>5, PushBufferKeeps, Zenon
    <2>6. CASE FlushReturns(e)
        BY <2>6, FlushReturnsKeeps, Zenon
    <2>7. CASE FlushReads(e)
        BY <2>7, FlushReadsKeeps, Zenon
    <2>8. CASE Shutdown(e)
        BY <2>8, ShutdownKeeps, Zenon
    <2>9. CASE IntoSplit(e)
        BY <2>9, IntoSplitKeeps, Zenon
    <2>10. CASE ServeCurrent(e)
        BY <2>10, ServeCurrentKeeps, Zenon
    <2>11. CASE ServeBuffered(e)
        BY <2>11, ServeBufferedKeeps, Zenon
    <2>12. CASE ReadWire(e)
        BY <2>12, ReadWireKeeps, Zenon
    <2>13. CASE ReadEof(e)
        BY <2>13, ReadEofKeeps, Zenon
    <2> QED
        BY <2>1, <2>2, <2>3, <2>4, <2>5, <2>6, <2>7, <2>8, <2>9, <2>10, <2>11, <2>12, <2>13, Zenon
        DEF Writer, Reader
<1>2. CASE UNCHANGED vars
    <2>1. UNCHANGED <<script, split, progVars, writeVars, readVars, net, closed>>
        BY <1>2, Zenon DEF vars, progVars, writeVars, readVars
    <2>2. Shapes'
        BY <2>1, Zenon DEF Inv, Shapes, progVars, writeVars, readVars
    <2>3. ASSUME NEW e \in Ends PROVE Way(e, Peer(e))' /\ Flows(e, Peer(e))
        <3>1. PICK p : p = Peer(e)
            BY Zenon
        <3>2. SameReader(e) /\ SameWriter(p) /\ SamePlace(p) /\ script' = script
            BY <2>1, Zenon DEF SameReader, SameWriter, SamePlace, progVars, writeVars, readVars
        <3>3. Way(e, p)
            BY <3>1, Zenon DEF Inv
        <3> QED
            BY <3>1, <3>2, <3>3, SameWay, Zenon
    <2> QED
        BY <2>2, <2>3, Zenon DEF Keeps, Inv
<1> QED
    BY <1>1, <1>2, Zenon

\* A sequence of bytes has bytes in it.
LEMMA BytesWithin ==
    ASSUME NEW s \in Seq(Bytes)
    PROVE  Range(s) \subseteq Bytes
<1>1. SUFFICES ASSUME NEW x \in Range(s) PROVE x \in Bytes
    BY Zenon
<1>2. PICK i \in DOMAIN s : x = s[i]
    BY Zenon DEF Range
<1>3. s[i] \in Bytes
    OBVIOUS
<1> QED
    BY <1>2, <1>3, Zenon

LEMMA InvType ==
    ASSUME Inv
    PROVE  TypeOK
<1>1. SUFFICES ASSUME NEW e \in Ends
               PROVE  /\ \A s \in {wbuf[e], net[e], staging[e], current[e], partial[e]} : Range(s) \subseteq Bytes
                      /\ Len(wbuf[e]) <= BufSize /\ Len(net[e]) <= PipeSize
                      /\ Len(partial[e]) <= 5 /\ toRead[e] \in Nat
    BY <1>1, Zenon DEF TypeOK
<1>2. PICK p : p = Peer(e)
    BY Zenon
<1>3. Way(e, p) /\ Way(p, e)
    BY <1>2, BothWays, Zenon
<1>4. Sizes(e)
    BY <1>3, Zenon DEF Way
<1>5. wbuf[e] \in Seq(Bytes) /\ net[e] \in Seq(Bytes) /\ staging[e] \in Seq(Bytes) /\ current[e] \in Seq(Bytes)
    BY <1>3, ChannelType, Zenon DEF Way, Buffers
<1>6. partial[e] \in Seq(Bytes) /\ Len(partial[e]) <= 5
    <2>1. InStep(wrote[p], ndxOut[p], read[e], ndxIn[e], partial[e])
        BY <1>3, IndexedFacts, Zenon DEF Way, Numbers
    <2> QED
        BY <2>1, Zenon DEF InStep
<1>7. \A s \in {wbuf[e], net[e], staging[e], current[e], partial[e]} : s \in Seq(Bytes)
    BY <1>5, <1>6, Zenon
<1>8. \A s \in {wbuf[e], net[e], staging[e], current[e], partial[e]} : Range(s) \subseteq Bytes
    <2> TAKE s \in {wbuf[e], net[e], staging[e], current[e], partial[e]}
    <2>1. s \in Seq(Bytes)
        BY <1>7, Zenon
    <2> QED
        BY <2>1, BytesWithin, Zenon
<1> QED
    BY <1>4, <1>6, <1>8, Zenon DEF Sizes

LEMMA InvIndices ==
    ASSUME Inv
    PROVE  IndicesInStep
<1>1. SUFFICES ASSUME NEW e \in Ends, NEW p, p = Peer(e)
               PROVE  /\ Len(read[e]) <= Len(wrote[p]) /\ read[e] = SubSeq(wrote[p], 1, Len(read[e]))
                      /\ (read[e] = wrote[p] => ndxIn[e] = ndxOut[p])
    BY <1>1, Zenon DEF IndicesInStep
<1>2. Indexed(wrote[p], ndxOut[p], sent[p], Codec, read[e], ndxIn[e], Len(got[e]), partial[e])
    BY <1>1, BothWays, Zenon DEF Way, Numbers
<1>3. /\ wrote[p] \in Seq(Indices) /\ read[e] \in Seq(Indices)
      /\ Len(read[e]) <= Len(wrote[p]) /\ read[e] = SubSeq(wrote[p], 1, Len(read[e]))
      /\ read[e] = wrote[p] => ndxIn[e] = ndxOut[p]
    <2>1. InStep(wrote[p], ndxOut[p], read[e], ndxIn[e], partial[e])
        BY <1>2, IndexedFacts, Zenon
    <2> QED
        BY <2>1, Zenon DEF InStep
<1> QED
    BY <1>3, Zenon

-----------------------------------------------------------------------------
\* The results.

\* The inductive invariant holds.
LEMMA Invariant == Spec => []Inv
<1>1. Init => Inv
    BY InitInv, Zenon
<1>2. Inv /\ [Next]_vars => Inv'
    BY NextKeeps, Zenon DEF Keeps
<1> QED
    BY <1>1, <1>2, PTL DEF Spec

\* Type correctness: every buffer holds bytes and no more than its size, and an index
\* being read has at most five bytes.
THEOREM TypeCorrect == Spec => []TypeOK
<1>1. Inv => TypeOK
    BY InvType, Zenon
<1> QED
    BY <1>1, Invariant, PTL

\* The indices read are those written, in order, and once all of them are read the
\* NdxStates of reader and writer are the same.
THEOREM IndicesHold == Spec => []IndicesInStep
<1>1. Inv => IndicesInStep
    BY InvIndices, Zenon
<1> QED
    BY <1>1, Invariant, PTL

\* Each direction of the connection is a byte stream: framing, buffering, the flush that
\* reads and the split lose, repeat and reorder nothing, and the end of the stream is
\* reported after its last byte.
THEOREM Implements == Spec => IsByteStream
<1>1. Init => AtoB!Init /\ BtoA!Init
    BY Zenon DEF Init, Ends, AtoB!Init, BtoA!Init
<1>2. Inv /\ [Next]_vars => [AtoB!Next]_<<sent["A"], got["B"], eof["B"]>>
    <2> SUFFICES ASSUME Inv, [Next]_vars
                 PROVE  AtoB!Next \/ UNCHANGED <<sent["A"], got["B"], eof["B"]>>
        BY Zenon
    <2>1. Flows("B", "A")
        BY NextKeeps, Zenon DEF Keeps, Ends, Peer
    <2> QED
        BY <2>1, Zenon DEF Flows, Follows, AtoB!Next, AtoB!Write, AtoB!Read, AtoB!End, AtoB!Continues
<1>3. Inv /\ [Next]_vars => [BtoA!Next]_<<sent["B"], got["A"], eof["A"]>>
    <2> SUFFICES ASSUME Inv, [Next]_vars
                 PROVE  BtoA!Next \/ UNCHANGED <<sent["B"], got["A"], eof["A"]>>
        BY Zenon
    <2>1. Flows("A", "B")
        BY NextKeeps, Zenon DEF Keeps, Ends, Peer
    <2> QED
        BY <2>1, Zenon DEF Flows, Follows, BtoA!Next, BtoA!Write, BtoA!Read, BtoA!End, BtoA!Continues
<1> QED
    BY <1>1, <1>2, <1>3, Invariant, PTL DEF Spec, IsByteStream, AtoB!Spec, BtoA!Spec
=============================================================================
