---------------------------- MODULE MuxChannels ----------------------------
(***************************************************************************)
(* One direction of a multiplexed connection.  Channel says that some      *)
(* history of frames explains what every buffer between the writer and the *)
(* reader holds, Indexed that the data of those frames is the indices      *)
(* written, read up to some byte.  The lemmas say what each operation of   *)
(* the two ends does to them.                                              *)
(***************************************************************************)
EXTENDS MuxStreams

USE SMTT(20), ZenonT(20)

\* One direction of the connection.

\* What has left the frames parsed so far: the reader's staging buffer, the network,
\* the BufWriter and the buffers given to write_all hold the bytes of wire from a on.
Carries(wire, a, x, y, z, stg, nt, wb, td) ==
    /\ a \in 0..Len(wire) /\ x \in a..Len(wire) /\ y \in x..Len(wire) /\ z \in y..Len(wire)
    /\ stg = Slice(wire, a, x) /\ nt = Slice(wire, x, y) /\ wb = Slice(wire, y, z)
    /\ Pieces(wire, z, Len(wire), td)

\* What has come out of them: the bytes served, the current chunk and the queued ones
\* are the data up to d.
Serves(snt, g, h, d, gt, cur, queue) ==
    /\ g \in 0..Len(snt) /\ h \in g..Len(snt)
    /\ gt = Slice(snt, 0, g) /\ cur = Slice(snt, g, h)
    /\ Pieces(snt, h, d, queue)

\* Some history of frames, r of them parsed, explains all the buffers.
Explains(wire, n, cut, dp, r, x, y, z, g, h, stg, nt, wb, td, snt, gt, cur, queue) ==
    /\ Framed(wire, snt, n, cut, dp) /\ r \in 0..n
    /\ Carries(wire, cut[r], x, y, z, stg, nt, wb, td)
    /\ Serves(snt, g, h, dp[r], gt, cur, queue)

Channel(stg, nt, wb, td, snt, gt, cur, queue) ==
    \E wire, n, cut, dp, r, x, y, z, g, h :
        Explains(wire, n, cut, dp, r, x, y, z, g, h, stg, nt, wb, td, snt, gt, cur, queue)

\* Nothing has been written.
LEMMA ChannelInit == Channel(<<>>, <<>>, <<>>, <<>>, <<>>, <<>>, <<>>, <<>>)
<1> DEFINE e == <<>>
           c == [i \in 0..0 |-> 0]
<1>1. e \in Seq(Bytes) /\ Len(e) = 0 /\ 0 \in 0..Len(e) /\ 0 \in 0..0
    OBVIOUS
<1>2. c \in [0..0 -> 0..Len(e)] /\ c[0] = 0
    BY <1>1
<1> HIDE DEF e, c
<1>3. Slice(e, 0, 0) = e
    BY <1>1, SliceEnds, Zenon DEF e
<1>4. Pieces(e, 0, 0, e)
    BY <1>1, PiecesNone, Zenon DEF e
<1>5. Framed(e, e, 0, c, c)
    <2>1. \A k \in 1..0 : FALSE
        OBVIOUS
    <2> QED
        BY <1>1, <1>2, <2>1 DEF Framed
<1>6. Carries(e, c[0], 0, 0, 0, e, e, e, e) /\ Serves(e, 0, 0, c[0], e, e, e)
    BY <1>1, <1>2, <1>3, <1>4, Zenon DEF Carries, Serves
<1>7. Explains(e, 0, c, c, 0, 0, 0, 0, 0, 0, e, e, e, e, e, e, e, e)
    BY <1>1, <1>5, <1>6, Zenon DEF Explains
<1> QED
    BY <1>7, Zenon DEF Channel, e

\* The parts of a history.
LEMMA Explained ==
    ASSUME NEW wire, NEW n, NEW cut, NEW dp, NEW r, NEW x, NEW y, NEW z, NEW g, NEW h,
           NEW stg, NEW nt, NEW wb, NEW td, NEW snt, NEW gt, NEW cur, NEW queue,
           Explains(wire, n, cut, dp, r, x, y, z, g, h, stg, nt, wb, td, snt, gt, cur, queue)
    PROVE  /\ wire \in Seq(Bytes) /\ snt \in Seq(Bytes) /\ n \in Nat /\ r \in 0..n
           /\ Framed(wire, snt, n, cut, dp)
           /\ Carries(wire, cut[r], x, y, z, stg, nt, wb, td)
           /\ Serves(snt, g, h, dp[r], gt, cur, queue)
           /\ cut[r] \in 0..Len(wire) /\ dp[r] \in 0..Len(snt)
BY Zenon DEF Explains, Framed

\* A buffer goes to the BufWriter.
LEMMA ChannelBuffer ==
    ASSUME NEW stg, NEW nt, NEW wb, NEW td, NEW snt, NEW gt, NEW cur, NEW queue,
           Channel(stg, nt, wb, td, snt, gt, cur, queue), td # <<>>
    PROVE  Channel(stg, nt, wb \o Head(td), Tail(td), snt, gt, cur, queue)
<1>1. PICK wire, n, cut, dp, r, x, y, z, g, h :
          Explains(wire, n, cut, dp, r, x, y, z, g, h, stg, nt, wb, td, snt, gt, cur, queue)
    BY Zenon DEF Channel
<1>2. wire \in Seq(Bytes) /\ Carries(wire, cut[r], x, y, z, stg, nt, wb, td)
    BY <1>1, Explained, Zenon
<1>3. /\ cut[r] \in 0..Len(wire) /\ x \in cut[r]..Len(wire) /\ y \in x..Len(wire) /\ z \in y..Len(wire)
      /\ stg = Slice(wire, cut[r], x) /\ nt = Slice(wire, x, y) /\ wb = Slice(wire, y, z)
      /\ Pieces(wire, z, Len(wire), td)
    BY <1>2, Zenon DEF Carries
<1>4. PICK m \in z..Len(wire) :
          /\ z < m /\ Head(td) = Slice(wire, z, m) /\ td[1] = Head(td)
          /\ Pieces(wire, m, Len(wire), Tail(td))
    BY <1>2, <1>3, PiecesHead
<1>5. y \in 0..Len(wire) /\ m \in y..Len(wire)
    BY <1>3, <1>4
<1>6. wb \o Head(td) = Slice(wire, y, m)
    BY <1>2, <1>3, <1>4, <1>5, SliceCat, Zenon
<1>7. Carries(wire, cut[r], x, y, m, stg, nt, wb \o Head(td), Tail(td))
    BY <1>3, <1>4, <1>5, <1>6, Zenon DEF Carries
<1>8. Explains(wire, n, cut, dp, r, x, y, m, g, h, stg, nt, wb \o Head(td), Tail(td), snt, gt, cur, queue)
    BY <1>1, <1>7, Zenon DEF Explains
<1> QED
    BY <1>8, Zenon DEF Channel

\* The BufWriter gives bytes to the network.
LEMMA ChannelPush ==
    ASSUME NEW stg, NEW nt, NEW wb, NEW td, NEW snt, NEW gt, NEW cur, NEW queue,
           Channel(stg, nt, wb, td, snt, gt, cur, queue), NEW k \in 0..Len(wb)
    PROVE  Channel(stg, nt \o SubSeq(wb, 1, k), From(wb, k + 1), td, snt, gt, cur, queue)
<1>1. PICK wire, n, cut, dp, r, x, y, z, g, h :
          Explains(wire, n, cut, dp, r, x, y, z, g, h, stg, nt, wb, td, snt, gt, cur, queue)
    BY Zenon DEF Channel
<1>2. wire \in Seq(Bytes) /\ Carries(wire, cut[r], x, y, z, stg, nt, wb, td)
    BY <1>1, Explained, Zenon
<1>3. /\ cut[r] \in 0..Len(wire) /\ x \in cut[r]..Len(wire) /\ y \in x..Len(wire) /\ z \in y..Len(wire)
      /\ stg = Slice(wire, cut[r], x) /\ nt = Slice(wire, x, y) /\ wb = Slice(wire, y, z)
      /\ Pieces(wire, z, Len(wire), td)
    BY <1>2, Zenon DEF Carries
<1>4. x \in 0..Len(wire) /\ y \in 0..Len(wire)
    BY <1>3
<1>5. Len(wb) = z - y
    BY <1>2, <1>3, <1>4, SliceFacts, Zenon
<1>6. k \in 0..(z - y)
    BY <1>5
<1>7. y + k \in y..Len(wire) /\ y + k \in x..Len(wire) /\ z \in (y + k)..Len(wire)
    BY <1>3, <1>4, <1>6
<1>8. SubSeq(wb, 1, k) = Slice(wire, y, y + k) /\ From(wb, k + 1) = Slice(wire, y + k, z)
    <2>1. CutAt(wire, y, z, k, wb)
        BY <1>2, <1>3, <1>4, <1>6, SliceCut, Zenon
    <2> QED
        BY <2>1, Zenon DEF CutAt
<1>9. nt \o SubSeq(wb, 1, k) = Slice(wire, x, y + k)
    BY <1>2, <1>3, <1>4, <1>7, <1>8, SliceCat, Zenon
<1>10. Carries(wire, cut[r], x, y + k, z, stg, nt \o SubSeq(wb, 1, k), From(wb, k + 1), td)
    BY <1>3, <1>7, <1>8, <1>9, Zenon DEF Carries
<1>11. Explains(wire, n, cut, dp, r, x, y + k, z, g, h,
                stg, nt \o SubSeq(wb, 1, k), From(wb, k + 1), td, snt, gt, cur, queue)
    BY <1>1, <1>10, Zenon DEF Explains
<1> QED
    BY <1>11, Zenon DEF Channel

\* The reader takes bytes from the network.
LEMMA ChannelTake ==
    ASSUME NEW stg, NEW nt, NEW wb, NEW td, NEW snt, NEW gt, NEW cur, NEW queue,
           Channel(stg, nt, wb, td, snt, gt, cur, queue), NEW k \in 0..Len(nt)
    PROVE  Channel(stg \o SubSeq(nt, 1, k), From(nt, k + 1), wb, td, snt, gt, cur, queue)
<1>1. PICK wire, n, cut, dp, r, x, y, z, g, h :
          Explains(wire, n, cut, dp, r, x, y, z, g, h, stg, nt, wb, td, snt, gt, cur, queue)
    BY Zenon DEF Channel
<1>2. wire \in Seq(Bytes) /\ Carries(wire, cut[r], x, y, z, stg, nt, wb, td)
    BY <1>1, Explained, Zenon
<1> DEFINE a == cut[r]
<1>3. /\ a \in 0..Len(wire) /\ x \in a..Len(wire) /\ y \in x..Len(wire) /\ z \in y..Len(wire)
      /\ stg = Slice(wire, a, x) /\ nt = Slice(wire, x, y) /\ wb = Slice(wire, y, z)
      /\ Pieces(wire, z, Len(wire), td)
    BY <1>2, Zenon DEF Carries
<1> HIDE DEF a
<1>4. x \in 0..Len(wire)
    BY <1>3
<1>5. Len(nt) = y - x
    BY <1>2, <1>3, <1>4, SliceFacts, Zenon
<1>6. k \in 0..(y - x)
    BY <1>5
<1>7. x + k \in x..Len(wire) /\ x + k \in a..Len(wire) /\ y \in (x + k)..Len(wire)
    BY <1>3, <1>4, <1>6
<1>8. SubSeq(nt, 1, k) = Slice(wire, x, x + k) /\ From(nt, k + 1) = Slice(wire, x + k, y)
    <2>1. CutAt(wire, x, y, k, nt)
        BY <1>2, <1>3, <1>4, <1>6, SliceCut, Zenon
    <2> QED
        BY <2>1, Zenon DEF CutAt
<1>9. stg \o SubSeq(nt, 1, k) = Slice(wire, a, x + k)
    BY <1>2, <1>3, <1>4, <1>7, <1>8, SliceCat, Zenon
<1>10. Carries(wire, a, x + k, y, z, stg \o SubSeq(nt, 1, k), From(nt, k + 1), wb, td)
    BY <1>3, <1>7, <1>8, <1>9, Zenon DEF Carries
<1>11. Explains(wire, n, cut, dp, r, x + k, y, z, g, h,
                stg \o SubSeq(nt, 1, k), From(nt, k + 1), wb, td, snt, gt, cur, queue)
    BY <1>1, <1>10, Zenon DEF Explains, a
<1> QED
    BY <1>11, Zenon DEF Channel

\* What write_data or write_message adds behind everything that is under way.
LEMMA ChannelGrows ==
    ASSUME NEW wire, NEW n, NEW cut, NEW dp, NEW r, NEW x, NEW y, NEW z, NEW g, NEW h,
           NEW stg, NEW nt, NEW wb, NEW snt, NEW gt, NEW cur, NEW queue,
           Explains(wire, n, cut, dp, r, x, y, z, g, h, stg, nt, wb, <<>>, snt, gt, cur, queue),
           NEW wire2, NEW snt2, NEW n2, NEW cut2, NEW dp2, NEW td,
           Grown(wire, snt, n, cut, dp, wire2, snt2, n2, cut2, dp2, td)
    PROVE  Channel(stg, nt, wb, td, snt2, gt, cur, queue)
<1>1. /\ wire \in Seq(Bytes) /\ snt \in Seq(Bytes) /\ n \in Nat /\ r \in 0..n
      /\ Carries(wire, cut[r], x, y, z, stg, nt, wb, <<>>) /\ Serves(snt, g, h, dp[r], gt, cur, queue)
      /\ dp[r] \in 0..Len(snt)
    BY Explained, Zenon
<1>2. PICK a : a = cut[r]
    BY Zenon
<1>3. PICK d : d = dp[r]
    BY Zenon
<1>4. /\ a \in 0..Len(wire) /\ x \in a..Len(wire) /\ y \in x..Len(wire) /\ z \in y..Len(wire)
      /\ stg = Slice(wire, a, x) /\ nt = Slice(wire, x, y) /\ wb = Slice(wire, y, z)
      /\ Pieces(wire, z, Len(wire), <<>>)
    BY <1>1, <1>2, Zenon DEF Carries
<1>5. /\ g \in 0..Len(snt) /\ h \in g..Len(snt)
      /\ gt = Slice(snt, 0, g) /\ cur = Slice(snt, g, h)
      /\ Pieces(snt, h, d, queue)
    BY <1>1, <1>3, Zenon DEF Serves
<1>6. /\ Framed(wire2, snt2, n2, cut2, dp2) /\ n <= n2 /\ cut2[r] = cut[r] /\ dp2[r] = dp[r]
      /\ Pieces(wire2, Len(wire), Len(wire2), td)
    BY <1>1, Zenon DEF Grown
<1>7. n2 \in Nat
    BY <1>6, Zenon DEF Framed
<1>8. r \in 0..n2
    BY <1>1, <1>6, <1>7
<1>9. PICK v \in Seq(Bytes) : wire2 = wire \o v
    BY Zenon DEF Grown
<1>10. PICK t \in Seq(Bytes) : snt2 = snt \o t
    BY Zenon DEF Grown
<1>11. Len(wire2) \in Nat /\ Len(wire) \in Nat /\ Len(wire) <= Len(wire2)
    BY <1>1, <1>9, CatFacts
<1>12. Len(snt2) \in Nat /\ Len(snt) \in Nat /\ Len(snt) <= Len(snt2)
    BY <1>1, <1>10, CatFacts
<1>13. x \in 0..Len(wire) /\ y \in 0..Len(wire) /\ 0 \in 0..Len(snt) /\ z \in 0..Len(wire)
    BY <1>4, <1>11, <1>12
<1>14. z = Len(wire)
    BY <1>1, <1>4, <1>13, PiecesNone
<1>15. a \in 0..Len(wire2) /\ x \in a..Len(wire2) /\ y \in x..Len(wire2) /\ z \in y..Len(wire2)
    BY <1>4, <1>11
<1>16. stg = Slice(wire2, a, x)
    BY <1>1, <1>4, <1>9, SliceKept
<1>17. nt = Slice(wire2, x, y)
    BY <1>1, <1>4, <1>9, <1>13, SliceKept
<1>18. wb = Slice(wire2, y, z)
    BY <1>1, <1>4, <1>9, <1>13, SliceKept
<1>19. Carries(wire2, cut2[r], x, y, z, stg, nt, wb, td)
    BY <1>2, <1>6, <1>14, <1>15, <1>16, <1>17, <1>18, Zenon DEF Carries
<1>20. g \in 0..Len(snt2) /\ h \in g..Len(snt2)
    BY <1>5, <1>12
<1>21. gt = Slice(snt2, 0, g)
    BY <1>1, <1>5, <1>10, <1>13, SliceKept
<1>22. cur = Slice(snt2, g, h)
    BY <1>1, <1>5, <1>10, SliceKept
<1>23. Pieces(snt2, h, d, queue)
    BY <1>1, <1>5, <1>10, PiecesKept
<1>24. Serves(snt2, g, h, dp2[r], gt, cur, queue)
    BY <1>3, <1>6, <1>20, <1>21, <1>22, <1>23, Zenon DEF Serves
<1>25. Explains(wire2, n2, cut2, dp2, r, x, y, z, g, h, stg, nt, wb, td, snt2, gt, cur, queue)
    BY <1>6, <1>8, <1>19, <1>24, Zenon DEF Explains
<1> QED
    BY <1>25, Zenon DEF Channel

\* write_data.
LEMMA ChannelData ==
    ASSUME NEW stg, NEW nt, NEW wb, NEW snt, NEW gt, NEW cur, NEW queue,
           Channel(stg, nt, wb, <<>>, snt, gt, cur, queue),
           NEW data \in Seq(Bytes), Len(data) > 0, Len(data) <= MAX_PAYLOAD
    PROVE  Channel(stg, nt, wb, DataFrames(data), snt \o data, gt, cur, queue)
<1>1. PICK wire, n, cut, dp, r, x, y, z, g, h :
          Explains(wire, n, cut, dp, r, x, y, z, g, h, stg, nt, wb, <<>>, snt, gt, cur, queue)
    BY Zenon DEF Channel
<1>2. Framed(wire, snt, n, cut, dp)
    BY <1>1, Zenon DEF Explains
<1>3. PICK wire2, n2, cut2, dp2 :
          Grown(wire, snt, n, cut, dp, wire2, snt \o data, n2, cut2, dp2, DataFrames(data))
    BY <1>2, DataWritten
<1> QED
    BY <1>1, <1>3, ChannelGrows, Zenon

\* write_message with a control code.
LEMMA ChannelControl ==
    ASSUME NEW stg, NEW nt, NEW wb, NEW snt, NEW gt, NEW cur, NEW queue,
           Channel(stg, nt, wb, <<>>, snt, gt, cur, queue),
           NEW payload \in Seq(Bytes), Len(payload) <= MAX_PAYLOAD,
           NEW code \in Int, 0 < code, code <= 248
    PROVE  Channel(stg, nt, wb, Frame(code, payload), snt, gt, cur, queue)
<1>1. PICK wire, n, cut, dp, r, x, y, z, g, h :
          Explains(wire, n, cut, dp, r, x, y, z, g, h, stg, nt, wb, <<>>, snt, gt, cur, queue)
    BY Zenon DEF Channel
<1>2. Framed(wire, snt, n, cut, dp) /\ snt \in Seq(Bytes)
    BY <1>1, Zenon DEF Explains, Framed
<1>3. Grown(wire, snt, n, cut, dp, wire, snt, n, cut, dp, <<>>)
    BY <1>2, GrownNone
<1>4. 0 <= code /\ code # DataCode
    BY DEF DataCode
<1> DEFINE e == <<>>
<1>5. e \in Seq(Bytes) /\ snt \o e = snt
    BY <1>2
<1>6. DataOf(code, payload, e)
    BY <1>4, Zenon DEF DataOf
<1>7. <<>> \o Frame(code, payload) = Frame(code, payload)
    <2>1. Frame(code, payload) \in Seq(Seq(Bytes))
        BY <1>4, FrameBuffers
    <2> QED
        BY <2>1
<1> HIDE DEF e
<1>8. PICK wire2, n2, cut2, dp2 :
          Grown(wire, snt, n, cut, dp, wire2, snt \o e, n2, cut2, dp2, <<>> \o Frame(code, payload))
    BY <1>3, <1>4, <1>5, <1>6, GrownFrame, Zenon
<1>9. Grown(wire, snt, n, cut, dp, wire2, snt, n2, cut2, dp2, Frame(code, payload))
    BY <1>5, <1>7, <1>8, Zenon
<1> QED
    BY <1>1, <1>9, ChannelGrows, Zenon

-----------------------------------------------------------------------------
\* The parse loop.

ParseStates == [staging : Seq(Bytes), queue : Seq(Seq(Bytes))]

\* The length a header announces.
Announced(s) == s[1] + 256 * (s[2] + 256 * s[3])

LEMMA AnnouncedNat ==
    ASSUME NEW s \in Seq(Bytes), Len(s) >= 4
    PROVE  Announced(s) \in Nat
<1>1. s[1] \in Bytes /\ s[2] \in Bytes /\ s[3] \in Bytes
    OBVIOUS
<1>2. s[1] \in Nat /\ s[2] \in Nat /\ s[3] \in Nat
    BY <1>1, ByteRange
<1> QED
    BY <1>2 DEF Announced

\* A round that finds no whole frame, and one that does.
LEMMA TakeFrameCases ==
    ASSUME NEW p \in ParseStates, NEW s, s = p.staging, NEW len, len = Announced(s)
    PROVE  /\ p.staging \in Seq(Bytes) /\ p.queue \in Seq(Seq(Bytes))
           /\ Len(s) < 4 => TakeFrame(p) = p
           /\ Len(s) < 4 + len => TakeFrame(p) = p
           /\ ~(Len(s) < 4) /\ ~(Len(s) < 4 + len) =>
                 /\ TakeFrame(p).staging = From(s, 5 + len)
                 /\ TakeFrame(p).queue = IF s[4] = MPLEX_BASE + DataCode
                                         THEN Append(p.queue, SubSeq(s, 5, 4 + len)) ELSE p.queue
                 /\ TakeFrame(p) = [staging |-> TakeFrame(p).staging, queue |-> TakeFrame(p).queue]
BY Zenon DEF ParseStates, TakeFrame, Announced

\* What is left of a buffer, and a part of it.
LEMMA PartOf ==
    ASSUME NEW s \in Seq(Bytes), NEW len \in Nat, Len(s) >= 4 + len
    PROVE  /\ From(s, 5 + len) \in Seq(Bytes) /\ Len(From(s, 5 + len)) = Len(s) - (4 + len)
           /\ SubSeq(s, 5, 4 + len) \in Seq(Bytes)
BY DEF From

\* A round keeps the types, and changes nothing or takes at least a header.
LEMMA TakeFrameType ==
    ASSUME NEW p \in ParseStates
    PROVE  /\ TakeFrame(p) \in ParseStates
           /\ TakeFrame(p) = p \/ Len(TakeFrame(p).staging) + 4 <= Len(p.staging)
<1>1. PICK s : s = p.staging
    BY Zenon
<1>2. PICK len : len = Announced(s)
    BY Zenon
<1>3. s \in Seq(Bytes) /\ p.queue \in Seq(Seq(Bytes))
    BY <1>1, TakeFrameCases, Zenon
<1>4. CASE Len(s) < 4 \/ Len(s) < 4 + len
    <2>1. TakeFrame(p) = p
        BY <1>1, <1>2, <1>4, TakeFrameCases, Zenon
    <2> QED
        BY <2>1
<1>5. CASE ~(Len(s) < 4) /\ ~(Len(s) < 4 + len)
    <2>1. Len(s) \in Nat /\ Len(s) >= 4
        BY <1>3, <1>5
    <2>2. len \in Nat
        BY <1>2, <1>3, <2>1, AnnouncedNat
    <2>3. Len(s) >= 4 + len
        BY <1>5, <2>1, <2>2
    <2>4. /\ From(s, 5 + len) \in Seq(Bytes) /\ Len(From(s, 5 + len)) = Len(s) - (4 + len)
          /\ SubSeq(s, 5, 4 + len) \in Seq(Bytes)
        BY <1>3, <2>2, <2>3, PartOf
    <2>5. /\ TakeFrame(p).staging = From(s, 5 + len)
          /\ TakeFrame(p).queue = IF s[4] = MPLEX_BASE + DataCode
                                  THEN Append(p.queue, SubSeq(s, 5, 4 + len)) ELSE p.queue
          /\ TakeFrame(p) = [staging |-> TakeFrame(p).staging, queue |-> TakeFrame(p).queue]
        BY <1>1, <1>2, <1>5, TakeFrameCases, Zenon
    <2>6. Append(p.queue, SubSeq(s, 5, 4 + len)) \in Seq(Seq(Bytes))
        BY <1>3, <2>4
    <2>7. TakeFrame(p).staging \in Seq(Bytes) /\ TakeFrame(p).queue \in Seq(Seq(Bytes))
        BY <1>3, <2>4, <2>5, <2>6, Zenon
    <2>8. TakeFrame(p) \in ParseStates
        BY <2>5, <2>7, Zenon DEF ParseStates
    <2>9. Len(TakeFrame(p).staging) = Len(s) - (4 + len)
        BY <2>4, <2>5, Zenon
    <2>10. Len(TakeFrame(p).staging) + 4 <= Len(s)
        BY <2>1, <2>2, <2>9
    <2> QED
        BY <1>1, <2>8, <2>10
<1> QED
    BY <1>4, <1>5, Zenon

\* Rounds is the sequence of the loop's states.
Loop(f, s, queue) ==
    /\ f \in [Nat -> ParseStates] /\ f[0] = [staging |-> s, queue |-> queue]
    /\ \A n \in Nat : f[n + 1] = TakeFrame(f[n])

LEMMA RoundsLoop ==
    ASSUME NEW s \in Seq(Bytes), NEW queue \in Seq(Seq(Bytes))
    PROVE  Loop(Rounds(s, queue), s, queue)
<1> DEFINE b == [staging |-> s, queue |-> queue]
           g == [p \in ParseStates |-> TakeFrame(p)]
           R(f) == f = [n \in Nat |-> IF n = 0 THEN b ELSE TakeFrame(f[n - 1])]
<1>1. b \in ParseStates
    BY Zenon DEF ParseStates
<1>2. g \in [ParseStates -> ParseStates]
    BY TakeFrameType, Zenon
<1>3. PICK f : Iterates(f, ParseStates, b, g)
    <2> HIDE DEF b, g
    <2> QED
        BY <1>1, <1>2, Iteration
<1>4. f \in [Nat -> ParseStates] /\ f[0] = b /\ \A n \in Nat : f[n + 1] = g[f[n]]
    <2> HIDE DEF b, g
    <2> QED
        BY <1>3, Zenon DEF Iterates
<1>5. \A n \in Nat : f[n] \in ParseStates /\ f[n + 1] = TakeFrame(f[n])
    <2> HIDE DEF b
    <2> QED
        BY <1>4, Zenon
<1>6. R(f)
    <2> HIDE DEF b, g
    <2>1. \A n \in Nat : f[n] = IF n = 0 THEN b ELSE TakeFrame(f[n - 1])
        <3> TAKE n \in Nat
        <3>1. CASE n = 0
            BY <1>4, <3>1, Zenon
        <3>2. CASE n # 0
            <4>1. n - 1 \in Nat /\ (n - 1) + 1 = n
                BY <3>2
            <4>2. f[(n - 1) + 1] = TakeFrame(f[n - 1])
                BY <1>5, <4>1, Zenon
            <4> QED
                BY <3>2, <4>1, <4>2, Zenon
        <3> QED
            BY <3>1, <3>2, Zenon
    <2>2. f = [n \in Nat |-> f[n]]
        BY <1>4, Zenon
    <2> QED
        BY <2>1, <2>2, Zenon
<1>7. Rounds(s, queue) = CHOOSE h : R(h)
    BY Zenon DEF Rounds
<1>8. PICK h : h = Rounds(s, queue) /\ R(h)
    <2> HIDE DEF R
    <2> QED
        BY <1>6, <1>7, Zenon
<1>9. h[0] = b /\ \A n \in Nat : h[n + 1] = TakeFrame(h[n])
    <2> HIDE DEF b, g
    <2>1. \A n \in Nat : h[n] = IF n = 0 THEN b ELSE TakeFrame(h[n - 1])
        BY <1>8, Zenon
    <2>2. \A n \in Nat : n + 1 \in Nat /\ n + 1 # 0 /\ (n + 1) - 1 = n
        OBVIOUS
    <2>3. 0 \in Nat
        OBVIOUS
    <2> QED
        BY <2>1, <2>2, <2>3, Zenon
<1>10. \A n \in Nat : h[n] \in ParseStates
    <2> DEFINE T == {n \in Nat : h[n] \in ParseStates}
    <2> HIDE DEF b, g
    <2>1. 0 \in T
        BY <1>1, <1>9
    <2>2. ASSUME NEW n \in Nat, n \in T PROVE n + 1 \in T
        <3>1. TakeFrame(h[n]) \in ParseStates
            BY <2>2, TakeFrameType, Zenon
        <3>2. h[n + 1] \in ParseStates
            BY <1>9, <3>1, Zenon
        <3> QED
            BY <3>2
    <2> HIDE DEF T
    <2>3. Nat \subseteq T
        BY <2>1, <2>2, SetInduction
    <2> QED
        BY <2>3 DEF T
<1>11. h = [n \in Nat |-> h[n]]
    <2>1. h = [n \in Nat |-> IF n = 0 THEN b ELSE TakeFrame(h[n - 1])]
        BY <1>8, Zenon
    <2> HIDE DEF b, g
    <2> QED
        BY <2>1
<1>12. h \in [Nat -> ParseStates]
    BY <1>10, <1>11, Zenon
<1> QED
    BY <1>8, <1>9, <1>12, Zenon DEF Loop

\* The loop ends with nothing but a part of a frame in the buffer, because a frame has
\* at least four bytes.
LEMMA ParseDone ==
    ASSUME NEW s \in Seq(Bytes), NEW queue \in Seq(Seq(Bytes)), NEW p,
           p = parse_frames_from_staging(s, queue)
    PROVE  p \in ParseStates /\ TakeFrame(p) = p
<1>1. PICK f : f = Rounds(s, queue) /\ Loop(f, s, queue)
    BY RoundsLoop
<1>2. PICK len \in Nat : len = Len(s)
    OBVIOUS
<1>3. /\ f[0].staging = s
      /\ \A n \in Nat : f[n] \in ParseStates /\ f[n + 1] = TakeFrame(f[n])
    <2>1. /\ f \in [Nat -> ParseStates] /\ f[0] = [staging |-> s, queue |-> queue]
          /\ \A n \in Nat : f[n + 1] = TakeFrame(f[n])
        BY <1>1, Zenon DEF Loop
    <2>2. f[0].staging = s
        <3>1. f[0] = [staging |-> s, queue |-> queue]
            BY <2>1, Zenon
        <3> QED
            BY <3>1
    <2>3. \A n \in Nat : f[n] \in ParseStates
        BY <2>1, Zenon
    <2> QED
        BY <2>1, <2>2, <2>3, Zenon
<1>4. \A n \in Nat : Len(f[n].staging) \in Nat
    <2> TAKE n \in Nat
    <2>1. f[n].staging \in Seq(Bytes)
        BY <1>3, Zenon DEF ParseStates
    <2> QED
        BY <2>1
<1> DEFINE D(n) == Len(f[n].staging) + 4 * n <= len \/ TakeFrame(f[n]) = f[n]
           T == {n \in Nat : D(n)}
<1>5. 0 \in T
    <2>1. Len(f[0].staging) = len
        BY <1>2, <1>3, Zenon
    <2>2. D(0)
        BY <2>1
    <2> QED
        BY <2>2
<1>6. \A n \in Nat : n \in T => n + 1 \in T
    <2> SUFFICES ASSUME NEW n \in Nat, D(n) PROVE D(n + 1)
        <3> HIDE DEF D
        <3> QED
            OBVIOUS
    <2>1. f[n + 1] = TakeFrame(f[n])
        BY <1>3, Zenon
    <2>2. CASE TakeFrame(f[n]) = f[n]
        <3>1. f[n + 1] = f[n]
            BY <2>1, <2>2, Zenon
        <3>2. TakeFrame(f[n + 1]) = f[n + 1]
            BY <2>2, <3>1, Zenon
        <3> QED
            BY <3>2
    <2>3. CASE Len(f[n].staging) + 4 * n <= len /\ TakeFrame(f[n]) # f[n]
        <3>1. Len(f[n + 1].staging) + 4 <= Len(f[n].staging)
            BY <1>3, <2>1, <2>3, TakeFrameType, Zenon
        <3>2. PICK i \in Nat : i = Len(f[n].staging)
            BY <1>4, Zenon
        <3>3. PICK j \in Nat : j = Len(f[n + 1].staging)
            BY <1>4
        <3>4. i + 4 * n <= len /\ j + 4 <= i
            BY <2>3, <3>1, <3>2, <3>3, Zenon
        <3>5. j + 4 * (n + 1) <= len
            BY <3>4
        <3> QED
            BY <3>3, <3>5, Zenon
    <2> QED
        BY <2>2, <2>3, Zenon
<1>7. PICK k \in Nat : k = len \div 4 /\ len < 4 * k + 4
    <2>1. len \div 4 \in Nat /\ len < 4 * (len \div 4) + 4
        OBVIOUS
    <2> QED
        BY <2>1
<1>8. p = f[k]
    BY <1>1, <1>2, <1>7, Zenon DEF parse_frames_from_staging
<1>9. D(k)
    <2> HIDE DEF T
    <2>1. Nat \subseteq T
        BY <1>5, <1>6, SetInduction, Zenon
    <2> QED
        BY <2>1, Zenon DEF T
<1>10. CASE Len(f[k].staging) + 4 * k <= len
    <2>1. PICK i \in Nat : i = Len(f[k].staging)
        BY <1>4, Zenon
    <2>2. i < 4
        <3>1. i + 4 * k <= len /\ len < 4 * k + 4
            BY <1>7, <1>10, <2>1, Zenon
        <3>2. \A j \in Nat : i + j <= len /\ len < j + 4 => i < 4
            OBVIOUS
        <3>3. 4 * k \in Nat
            OBVIOUS
        <3> QED
            BY <3>1, <3>2, <3>3, Zenon
    <2>3. TakeFrame(p) = p
        BY <1>3, <1>8, <2>1, <2>2, TakeFrameCases, Zenon
    <2> QED
        BY <1>3, <1>8, <2>3, Zenon
<1> QED
    BY <1>3, <1>8, <1>9, <1>10, Zenon

\* A round takes the frame from a to b, whose data goes from c to d.
Takes(p, wire, snt, a, b, c, d, x) ==
    /\ TakeFrame(p).staging = Slice(wire, b, x) /\ TakeFrame(p) # p
    /\ TakeFrame(p).queue = IF wire[a + 4] = MPLEX_BASE + DataCode
                            THEN Append(p.queue, Slice(snt, c, d)) ELSE p.queue

\* The first frame of a stream, when all of it has arrived, and when it has not.
LEMMA FrameTaken ==
    ASSUME NEW wire \in Seq(Bytes), NEW snt \in Seq(Bytes),
           NEW a \in 0..Len(wire), NEW x \in a..Len(wire), NEW b \in 0..Len(wire), NEW c, NEW d,
           FrameAt(wire, snt, a, b, c, d),
           NEW p \in ParseStates, p.staging = Slice(wire, a, x)
    PROVE  /\ x < b => TakeFrame(p) = p
           /\ b <= x => Takes(p, wire, snt, a, b, c, d, x)
<1>1. PICK w \in Nat : w = Len(wire)
    OBVIOUS
<1>2. a \in Nat /\ x \in Nat /\ b \in Nat /\ a <= x /\ x <= w /\ b <= w
    BY <1>1
<1>3. PICK s \in Seq(Bytes) : s = p.staging
    BY TakeFrameCases, Zenon
<1>4. Len(s) = x - a /\ \A i \in 1..(x - a) : s[i] = wire[a + i]
    BY <1>3, SliceFacts, Zenon
<1>5. PICK len : len = Announced(s)
    BY Zenon
<1>6. a + 4 <= b /\ wire[a + 1] + 256 * (wire[a + 2] + 256 * wire[a + 3]) = b - (a + 4)
    BY Zenon DEF FrameAt
<1>7. ASSUME x - a >= 4
      PROVE  s[1] = wire[a + 1] /\ s[2] = wire[a + 2] /\ s[3] = wire[a + 3] /\ s[4] = wire[a + 4]
             /\ len = b - (a + 4)
    <2>1. 1 \in 1..(x - a) /\ 2 \in 1..(x - a) /\ 3 \in 1..(x - a) /\ 4 \in 1..(x - a)
        BY <1>2, <1>7
    <2>2. s[1] = wire[a + 1] /\ s[2] = wire[a + 2] /\ s[3] = wire[a + 3] /\ s[4] = wire[a + 4]
        BY <1>4, <2>1, Zenon
    <2> QED
        BY <1>5, <1>6, <2>2, Zenon DEF Announced
<1>8. ASSUME x < b PROVE TakeFrame(p) = p
    <2>1. CASE x - a < 4
        <3>1. Len(s) < 4
            BY <1>4, <2>1, Zenon
        <3> QED
            BY <1>3, <3>1, TakeFrameCases, Zenon
    <2>2. CASE x - a >= 4
        <3>1. len = b - (a + 4)
            BY <1>7, <2>2, Zenon
        <3>2. x - a < 4 + len
            BY <1>2, <1>8, <3>1
        <3>3. Len(s) < 4 + len
            BY <1>4, <3>2, Zenon
        <3> QED
            BY <1>3, <1>5, <3>3, TakeFrameCases, Zenon
    <2> QED
        BY <1>2, <2>1, <2>2
<1>9. ASSUME b <= x
      PROVE  Takes(p, wire, snt, a, b, c, d, x)
    <2>1. x - a >= 4
        BY <1>2, <1>6, <1>9
    <2>2. len = b - (a + 4) /\ s[4] = wire[a + 4]
        BY <1>7, <2>1, Zenon
    <2>3. PICK m \in Nat : m = b - a
        BY <1>2, <1>6
    <2>4. /\ m \in 0..(x - a) /\ 4 \in 0..(x - a) /\ m \in 4..(x - a) /\ a + m = b
          /\ 4 + len = m /\ 5 + len = m + 1 /\ len \in Nat /\ ~(x - a < 4) /\ ~(x - a < 4 + len)
        BY <1>2, <1>6, <1>9, <2>1, <2>2, <2>3
    <2>5. /\ TakeFrame(p).staging = From(s, 5 + len)
          /\ TakeFrame(p).queue = IF s[4] = MPLEX_BASE + DataCode
                                  THEN Append(p.queue, SubSeq(s, 5, 4 + len)) ELSE p.queue
        <3>1. ~(Len(s) < 4) /\ ~(Len(s) < 4 + len)
            BY <1>4, <2>4, Zenon
        <3> QED
            BY <1>3, <1>5, <3>1, TakeFrameCases, Zenon
    <2>6. From(Slice(wire, a, x), m + 1) = Slice(wire, a + m, x)
        <3>1. m \in 0..(x - a)
            BY <2>4, Zenon
        <3>2. CutAt(wire, a, x, m, s)
            BY <1>3, <3>1, SliceCut, Zenon
        <3> QED
            BY <1>3, <3>2, Zenon DEF CutAt
    <2>7. From(s, 5 + len) = Slice(wire, b, x)
        BY <1>3, <2>4, <2>6, Zenon
    <2>8. Slice(Slice(wire, a, x), 4, m) = Slice(wire, a + 4, a + m)
        BY <2>4, SliceOfSlice
    <2>9. SubSeq(s, 5, 4 + len) = Slice(wire, a + 4, b)
        <3>1. 4 + 1 = 5
            OBVIOUS
        <3> QED
            BY <1>3, <2>4, <2>8, <3>1, Zenon DEF Slice
    <2>10. wire[a + 4] = MPLEX_BASE + DataCode => Slice(wire, a + 4, b) = Slice(snt, c, d)
        BY Zenon DEF FrameAt
    <2>11. b \in 0..Len(wire) /\ x \in b..Len(wire)
        BY <1>1, <1>2, <1>9
    <2>12. Len(Slice(wire, b, x)) = x - b
        BY <2>11, SliceFacts
    <2>13. x - b # x - a
        BY <1>2, <1>6
    <2>14. TakeFrame(p) # p
        BY <1>3, <1>4, <2>5, <2>7, <2>12, <2>13, Zenon
    <2> QED
        BY <2>2, <2>5, <2>7, <2>9, <2>10, <2>14, Zenon DEF Takes
<1> QED
    BY <1>8, <1>9, Zenon

\* Appending is concatenation with a sequence of one.
LEMMA AppendCat ==
    ASSUME NEW S, NEW s \in Seq(S), NEW x \in S
    PROVE  Append(s, x) = s \o <<x>>
OBVIOUS

\* One round of the loop keeps the history: a frame that leaves the staging buffer is
\* the next one, and its data goes behind the queued data.
LEMMA ChannelRound ==
    ASSUME NEW p \in ParseStates, NEW nt, NEW wb, NEW td, NEW snt, NEW gt, NEW cur,
           Channel(p.staging, nt, wb, td, snt, gt, cur, p.queue)
    PROVE  Channel(TakeFrame(p).staging, nt, wb, td, snt, gt, cur, TakeFrame(p).queue)
<1>1. PICK wire, n, cut, dp, r, x, y, z, g, h :
          Explains(wire, n, cut, dp, r, x, y, z, g, h, p.staging, nt, wb, td, snt, gt, cur, p.queue)
    BY Zenon DEF Channel
<1>2. /\ wire \in Seq(Bytes) /\ snt \in Seq(Bytes) /\ n \in Nat /\ r \in 0..n
      /\ Framed(wire, snt, n, cut, dp)
      /\ Carries(wire, cut[r], x, y, z, p.staging, nt, wb, td)
      /\ Serves(snt, g, h, dp[r], gt, cur, p.queue)
    BY <1>1, Explained, Zenon
<1>3. /\ cut[r] \in 0..Len(wire) /\ x \in cut[r]..Len(wire) /\ y \in x..Len(wire) /\ z \in y..Len(wire)
      /\ p.staging = Slice(wire, cut[r], x) /\ nt = Slice(wire, x, y) /\ wb = Slice(wire, y, z)
      /\ Pieces(wire, z, Len(wire), td)
    BY <1>2, Zenon DEF Carries
<1>4. CASE TakeFrame(p) = p
    BY <1>4, Zenon
<1>5. CASE TakeFrame(p) # p
    <2>1. r < n
        <3>1. SUFFICES ASSUME r = n PROVE FALSE
            BY <1>2
        <3>2. cut[r] = Len(wire)
            BY <1>2, <3>1, Zenon DEF Framed
        <3>3. x = cut[r]
            BY <1>2, <1>3, <3>2
        <3>4. p.staging = <<>>
            BY <1>2, <1>3, <3>3, SliceEnds, Zenon
        <3>5. Len(p.staging) < 4
            BY <3>4
        <3> QED
            BY <1>5, <3>5, TakeFrameCases, Zenon
    <2>2. r + 1 \in 1..n /\ (r + 1) - 1 = r /\ r + 1 \in 0..n
        BY <1>2, <2>1
    <2>3. PICK a : a = cut[r]
        BY Zenon
    <2>4. PICK b : b = cut[r + 1]
        BY Zenon
    <2>5. PICK c : c = dp[r]
        BY Zenon
    <2>6. PICK d : d = dp[r + 1]
        BY Zenon
    <2>7. /\ FrameAt(wire, snt, a, b, c, d) /\ b \in 0..Len(wire) /\ c \in 0..Len(snt) /\ d \in 0..Len(snt)
          /\ a \in 0..Len(wire) /\ x \in a..Len(wire) /\ p.staging = Slice(wire, a, x)
        BY <1>2, <1>3, <2>2, <2>3, <2>4, <2>5, <2>6, Zenon DEF Framed
    <2>8. b <= x
        <3>1. ~(x < b)
            BY <1>2, <1>5, <2>7, FrameTaken, Zenon
        <3> QED
            BY <1>2, <2>7, <3>1
    <2>9. /\ TakeFrame(p).staging = Slice(wire, b, x)
          /\ TakeFrame(p).queue = IF wire[a + 4] = MPLEX_BASE + DataCode
                                  THEN Append(p.queue, Slice(snt, c, d)) ELSE p.queue
        <3>1. Takes(p, wire, snt, a, b, c, d, x)
            BY <1>2, <2>7, <2>8, FrameTaken, Zenon
        <3> QED
            BY <3>1, Zenon DEF Takes
    <2>10. x \in b..Len(wire)
        BY <1>2, <2>7, <2>8
    <2>11. Carries(wire, b, x, y, z, TakeFrame(p).staging, nt, wb, td)
        BY <1>3, <2>7, <2>9, <2>10, Zenon DEF Carries
    <2>12. /\ g \in 0..Len(snt) /\ h \in g..Len(snt)
           /\ gt = Slice(snt, 0, g) /\ cur = Slice(snt, g, h)
           /\ Pieces(snt, h, c, p.queue)
        BY <1>2, <2>5, Zenon DEF Serves
    <2>13. Pieces(snt, h, d, TakeFrame(p).queue)
        <3>1. CASE wire[a + 4] = MPLEX_BASE + DataCode
            <4>1. c < d
                BY <2>7, <3>1, Zenon DEF FrameAt
            <4>2. d \in c..Len(snt)
                BY <1>2, <2>7, <4>1
            <4>3. Pieces(snt, c, d, <<Slice(snt, c, d)>>)
                BY <1>2, <2>7, <4>1, <4>2, PiecesOne
            <4>4. Pieces(snt, h, d, p.queue \o <<Slice(snt, c, d)>>)
                BY <1>2, <2>12, <4>3, PiecesCat
            <4>5. p.queue \in Seq(Seq(Bytes)) /\ Slice(snt, c, d) \in Seq(Bytes)
                BY <1>2, <2>7, <2>12, <4>2, SliceFacts DEF Pieces
            <4>6. Append(p.queue, Slice(snt, c, d)) = p.queue \o <<Slice(snt, c, d)>>
                BY <4>5, AppendCat, Zenon
            <4> QED
                BY <2>9, <3>1, <4>4, <4>6, Zenon
        <3>2. CASE wire[a + 4] # MPLEX_BASE + DataCode
            <4>1. d = c
                BY <2>7, <3>2, Zenon DEF FrameAt
            <4> QED
                BY <2>9, <2>12, <3>2, <4>1, Zenon
        <3> QED
            BY <3>1, <3>2, Zenon
    <2>14. Serves(snt, g, h, d, gt, cur, TakeFrame(p).queue)
        BY <2>12, <2>13, Zenon DEF Serves
    <2>15. Explains(wire, n, cut, dp, r + 1, x, y, z, g, h,
                    TakeFrame(p).staging, nt, wb, td, snt, gt, cur, TakeFrame(p).queue)
        BY <1>2, <2>2, <2>4, <2>6, <2>11, <2>14, Zenon DEF Explains
    <2> QED
        BY <2>15, Zenon DEF Channel
<1> QED
    BY <1>4, <1>5, Zenon

\* A channel's buffers hold bytes, and no chunk is empty.
LEMMA ChannelType ==
    ASSUME NEW stg, NEW nt, NEW wb, NEW td, NEW snt, NEW gt, NEW cur, NEW queue,
           Channel(stg, nt, wb, td, snt, gt, cur, queue)
    PROVE  /\ stg \in Seq(Bytes) /\ nt \in Seq(Bytes) /\ wb \in Seq(Bytes) /\ td \in Seq(Seq(Bytes))
           /\ snt \in Seq(Bytes) /\ gt \in Seq(Bytes) /\ cur \in Seq(Bytes) /\ queue \in Seq(Seq(Bytes))
<1>1. PICK wire, n, cut, dp, r, x, y, z, g, h :
          Explains(wire, n, cut, dp, r, x, y, z, g, h, stg, nt, wb, td, snt, gt, cur, queue)
    BY Zenon DEF Channel
<1>2. /\ wire \in Seq(Bytes) /\ snt \in Seq(Bytes)
      /\ Carries(wire, cut[r], x, y, z, stg, nt, wb, td) /\ Serves(snt, g, h, dp[r], gt, cur, queue)
    BY <1>1, Explained, Zenon
<1>3. PICK a : a = cut[r]
    BY Zenon
<1>4. /\ a \in 0..Len(wire) /\ x \in a..Len(wire) /\ y \in x..Len(wire) /\ z \in y..Len(wire)
      /\ stg = Slice(wire, a, x) /\ nt = Slice(wire, x, y) /\ wb = Slice(wire, y, z)
      /\ td \in Seq(Seq(Bytes))
    BY <1>2, <1>3, Zenon DEF Carries, Pieces
<1>5. /\ g \in 0..Len(snt) /\ h \in g..Len(snt)
      /\ gt = Slice(snt, 0, g) /\ cur = Slice(snt, g, h) /\ queue \in Seq(Seq(Bytes))
    BY <1>2, Zenon DEF Serves, Pieces
<1>6. x \in 0..Len(wire) /\ y \in 0..Len(wire) /\ 0 \in 0..Len(snt)
    BY <1>2, <1>4
<1>7. stg \in Seq(Bytes)
    BY <1>2, <1>4, SliceFacts, Zenon
<1>8. nt \in Seq(Bytes)
    BY <1>2, <1>4, <1>6, SliceFacts
<1>9. wb \in Seq(Bytes)
    BY <1>2, <1>4, <1>6, SliceFacts
<1>10. gt \in Seq(Bytes)
    BY <1>2, <1>5, <1>6, SliceFacts
<1>11. cur \in Seq(Bytes)
    BY <1>2, <1>5, SliceFacts
<1> QED
    BY <1>2, <1>4, <1>5, <1>7, <1>8, <1>9, <1>10, <1>11, Zenon

\* The whole loop.
LEMMA ChannelParse ==
    ASSUME NEW stg, NEW nt, NEW wb, NEW td, NEW snt, NEW gt, NEW cur, NEW queue,
           Channel(stg, nt, wb, td, snt, gt, cur, queue),
           NEW p, p = parse_frames_from_staging(stg, queue)
    PROVE  /\ Channel(p.staging, nt, wb, td, snt, gt, cur, p.queue)
           /\ p \in ParseStates /\ TakeFrame(p) = p
<1>1. stg \in Seq(Bytes) /\ queue \in Seq(Seq(Bytes))
    BY ChannelType, Zenon
<1>2. PICK f : f = Rounds(stg, queue) /\ Loop(f, stg, queue)
    BY <1>1, RoundsLoop
<1>3. /\ f \in [Nat -> ParseStates] /\ f[0] = [staging |-> stg, queue |-> queue]
      /\ \A n \in Nat : f[n + 1] = TakeFrame(f[n])
    BY <1>2, Zenon DEF Loop
<1> DEFINE C(n) == Channel(f[n].staging, nt, wb, td, snt, gt, cur, f[n].queue)
           T == {n \in Nat : C(n)}
<1>4. 0 \in T
    <2>1. f[0] = [staging |-> stg, queue |-> queue]
        BY <1>3, Zenon
    <2>2. f[0].staging = stg /\ f[0].queue = queue
        BY <2>1
    <2>3. C(0)
        BY <2>2, Zenon
    <2> HIDE DEF C
    <2> QED
        BY <2>3
<1>5. ASSUME NEW n \in Nat, n \in T PROVE n + 1 \in T
    <2>1. C(n)
        BY <1>5, Zenon
    <2>2. f[n] \in ParseStates
        BY <1>3, Zenon
    <2>3. Channel(TakeFrame(f[n]).staging, nt, wb, td, snt, gt, cur, TakeFrame(f[n]).queue)
        BY <2>1, <2>2, ChannelRound, Zenon
    <2>4. C(n + 1)
        BY <1>3, <2>3, Zenon
    <2> HIDE DEF C
    <2> QED
        BY <2>4
<1>6. Nat \subseteq T
    <2> HIDE DEF T
    <2> QED
        BY <1>4, <1>5, SetInduction
<1>7. Len(stg) \div 4 \in Nat
    BY <1>1
<1>8. C(Len(stg) \div 4)
    <2> HIDE DEF C
    <2> QED
        BY <1>6, <1>7, Zenon
<1>9. p = f[Len(stg) \div 4]
    BY <1>2, Zenon DEF parse_frames_from_staging
<1>10. p \in ParseStates /\ TakeFrame(p) = p
    BY <1>1, ParseDone
<1> QED
    BY <1>8, <1>9, <1>10, Zenon

\* An empty slice has no length.
LEMMA SliceEmpty ==
    ASSUME NEW s \in Seq(Bytes), NEW a \in 0..Len(s), NEW b \in a..Len(s), Slice(s, a, b) = <<>>
    PROVE  a = b
<1>1. Len(Slice(s, a, b)) = b - a
    BY SliceFacts
<1>2. Len(Slice(s, a, b)) = 0
    OBVIOUS
<1> QED
    BY <1>1, <1>2

\* Nothing is under way and nothing is left in the reader: everything was served.
LEMMA ChannelEnd ==
    ASSUME NEW stg, NEW snt, NEW gt, NEW queue, Channel(stg, <<>>, <<>>, <<>>, snt, gt, <<>>, queue),
           parse_frames_from_staging(stg, queue).queue = <<>>
    PROVE  gt = snt
<1>1. PICK p : p = parse_frames_from_staging(stg, queue)
    BY Zenon
<1>2. /\ Channel(p.staging, <<>>, <<>>, <<>>, snt, gt, <<>>, p.queue)
      /\ p \in ParseStates /\ TakeFrame(p) = p
    BY <1>1, ChannelParse, Zenon
<1>3. p.queue = <<>>
    BY <1>1
<1>4. PICK wire, n, cut, dp, r, x, y, z, g, h :
          Explains(wire, n, cut, dp, r, x, y, z, g, h,
                   p.staging, <<>>, <<>>, <<>>, snt, gt, <<>>, p.queue)
    BY <1>2, Zenon DEF Channel
<1>5. /\ wire \in Seq(Bytes) /\ snt \in Seq(Bytes) /\ n \in Nat /\ r \in 0..n
      /\ Framed(wire, snt, n, cut, dp)
      /\ Carries(wire, cut[r], x, y, z, p.staging, <<>>, <<>>, <<>>)
      /\ Serves(snt, g, h, dp[r], gt, <<>>, p.queue)
    BY <1>4, Explained, Zenon
<1>6. PICK a : a = cut[r]
    BY Zenon
<1>7. /\ a \in 0..Len(wire) /\ x \in a..Len(wire) /\ y \in x..Len(wire) /\ z \in y..Len(wire)
      /\ p.staging = Slice(wire, a, x) /\ Slice(wire, x, y) = <<>> /\ Slice(wire, y, z) = <<>>
      /\ Pieces(wire, z, Len(wire), <<>>)
    BY <1>5, <1>6, Zenon DEF Carries
<1>8. x \in 0..Len(wire) /\ y \in 0..Len(wire) /\ z \in 0..Len(wire)
    BY <1>5, <1>7
<1>9. x = y /\ y = z
    BY <1>5, <1>7, <1>8, SliceEmpty, Zenon
<1>10. x = Len(wire)
    BY <1>5, <1>7, <1>8, <1>9, PiecesNone, Zenon
<1>11. r = n
    <2>1. SUFFICES ASSUME r < n PROVE FALSE
        BY <1>5
    <2>2. r + 1 \in 1..n /\ (r + 1) - 1 = r /\ r + 1 \in 0..n
        BY <1>5, <2>1
    <2>3. PICK b : b = cut[r + 1]
        BY Zenon
    <2>4. /\ FrameAt(wire, snt, a, b, dp[r], dp[r + 1]) /\ b \in 0..Len(wire)
        BY <1>5, <1>6, <2>2, <2>3, Zenon DEF Framed
    <2>5. b <= x
        BY <1>5, <1>10, <2>4
    <2>6. Takes(p, wire, snt, a, b, dp[r], dp[r + 1], x)
        BY <1>2, <1>5, <1>7, <2>4, <2>5, FrameTaken, Zenon
    <2> QED
        BY <1>2, <2>6, Zenon DEF Takes
<1>12. dp[r] = Len(snt)
    BY <1>5, <1>11, Zenon DEF Framed
<1>13. /\ g \in 0..Len(snt) /\ h \in g..Len(snt) /\ gt = Slice(snt, 0, g)
       /\ Slice(snt, g, h) = <<>> /\ Pieces(snt, h, Len(snt), <<>>)
    BY <1>3, <1>5, <1>12, Zenon DEF Serves
<1>14. h \in 0..Len(snt)
    BY <1>5, <1>13
<1>15. g = h
    BY <1>5, <1>13, SliceEmpty, Zenon
<1>16. g = Len(snt)
    BY <1>5, <1>13, <1>14, <1>15, PiecesNone, Zenon
<1> QED
    BY <1>5, <1>13, <1>16, SliceEnds, Zenon

\* The first k bytes of the current chunk, given out at the place g of the stream.
Given(stg, nt, wb, td, snt, gt, cur, queue, k, bytes, g) ==
    /\ Channel(stg, nt, wb, td, snt, gt \o bytes, From(cur, k + 1), queue)
    /\ g + k \in g..Len(snt) /\ bytes = Slice(snt, g, g + k)
    /\ gt \o bytes = Slice(snt, 0, g + k)

\* poll_read gives out the first k bytes of the current chunk: the next k of the stream.
LEMMA ChannelServe ==
    ASSUME NEW stg, NEW nt, NEW wb, NEW td, NEW snt, NEW gt, NEW cur, NEW queue,
           Channel(stg, nt, wb, td, snt, gt, cur, queue), NEW k \in 0..Len(cur)
    PROVE  Given(stg, nt, wb, td, snt, gt, cur, queue, k, SubSeq(cur, 1, k), Len(gt))
<1>1. PICK wire, n, cut, dp, r, x, y, z, g, h :
          Explains(wire, n, cut, dp, r, x, y, z, g, h, stg, nt, wb, td, snt, gt, cur, queue)
    BY Zenon DEF Channel
<1>2. snt \in Seq(Bytes) /\ Serves(snt, g, h, dp[r], gt, cur, queue)
    BY <1>1, Explained, Zenon
<1>3. /\ g \in 0..Len(snt) /\ h \in g..Len(snt)
      /\ gt = Slice(snt, 0, g) /\ cur = Slice(snt, g, h) /\ Pieces(snt, h, dp[r], queue)
    BY <1>2, Zenon DEF Serves
<1>4. 0 \in 0..Len(snt) /\ Len(snt) \in Nat
    BY <1>2
<1>5. Len(gt) = g - 0
    BY <1>2, <1>3, <1>4, SliceFacts
<1>6. Len(gt) = g
    BY <1>3, <1>4, <1>5
<1>7. Len(cur) = h - g
    BY <1>2, <1>3, SliceFacts, Zenon
<1>8. k \in 0..(h - g)
    BY <1>7
<1>9. g + k \in g..Len(snt) /\ g + k \in 0..Len(snt) /\ h \in (g + k)..Len(snt)
    BY <1>3, <1>4, <1>8
<1>10. SubSeq(cur, 1, k) = Slice(snt, g, g + k) /\ From(cur, k + 1) = Slice(snt, g + k, h)
    <2>1. CutAt(snt, g, h, k, cur)
        BY <1>2, <1>3, <1>8, SliceCut, Zenon
    <2> QED
        BY <2>1, Zenon DEF CutAt
<1>11. gt \o SubSeq(cur, 1, k) = Slice(snt, 0, g + k)
    BY <1>2, <1>3, <1>4, <1>9, <1>10, SliceCat, Zenon
<1>12. Serves(snt, g + k, h, dp[r], gt \o SubSeq(cur, 1, k), From(cur, k + 1), queue)
    BY <1>3, <1>9, <1>10, <1>11, Zenon DEF Serves
<1>13. Explains(wire, n, cut, dp, r, x, y, z, g + k, h, stg, nt, wb, td, snt,
                gt \o SubSeq(cur, 1, k), From(cur, k + 1), queue)
    BY <1>1, <1>12, Zenon DEF Explains
<1>14. Channel(stg, nt, wb, td, snt, gt \o SubSeq(cur, 1, k), From(cur, k + 1), queue)
    BY <1>13, Zenon DEF Channel
<1> QED
    BY <1>6, <1>9, <1>10, <1>11, <1>14, Zenon DEF Given

\* poll_read makes the first chunk of the queue the current one.
LEMMA ChannelNext ==
    ASSUME NEW stg, NEW nt, NEW wb, NEW td, NEW snt, NEW gt, NEW queue,
           Channel(stg, nt, wb, td, snt, gt, <<>>, queue), queue # <<>>
    PROVE  Channel(stg, nt, wb, td, snt, gt, queue[1], Tail(queue)) /\ queue[1] # <<>>
<1>1. PICK wire, n, cut, dp, r, x, y, z, g, h :
          Explains(wire, n, cut, dp, r, x, y, z, g, h, stg, nt, wb, td, snt, gt, <<>>, queue)
    BY Zenon DEF Channel
<1>2. snt \in Seq(Bytes) /\ Serves(snt, g, h, dp[r], gt, <<>>, queue)
    BY <1>1, Explained, Zenon
<1>3. /\ g \in 0..Len(snt) /\ h \in g..Len(snt)
      /\ gt = Slice(snt, 0, g) /\ Slice(snt, g, h) = <<>> /\ Pieces(snt, h, dp[r], queue)
    BY <1>2, Zenon DEF Serves
<1>4. g = h
    BY <1>2, <1>3, SliceEmpty, Zenon
<1>5. PICK d : d = dp[r]
    BY Zenon
<1>6. PICK m \in g..d : g < m /\ queue[1] = Slice(snt, g, m) /\ Pieces(snt, m, d, Tail(queue))
    BY <1>2, <1>3, <1>4, <1>5, PiecesHead, Zenon
<1>7. d \in g..Len(snt)
    BY <1>3, <1>4, <1>5, Zenon DEF Pieces
<1>8. m \in g..Len(snt)
    BY <1>2, <1>3, <1>6, <1>7
<1>9. Serves(snt, g, m, dp[r], gt, queue[1], Tail(queue))
    BY <1>3, <1>5, <1>6, <1>8, Zenon DEF Serves
<1>10. Explains(wire, n, cut, dp, r, x, y, z, g, m, stg, nt, wb, td, snt, gt, queue[1], Tail(queue))
    BY <1>1, <1>9, Zenon DEF Explains
<1>11. Channel(stg, nt, wb, td, snt, gt, queue[1], Tail(queue))
    BY <1>10, Zenon DEF Channel
<1>12. queue[1] # <<>>
    <2>1. SUFFICES ASSUME queue[1] = <<>> PROVE FALSE
        OBVIOUS
    <2>2. g = m
        BY <1>2, <1>3, <1>6, <1>8, <2>1, SliceEmpty, Zenon
    <2> QED
        BY <1>3, <1>6, <2>2
<1> QED
    BY <1>11, <1>12

-----------------------------------------------------------------------------
\* The indices of one direction.

\* An index written from the state s0, as the bytes from a to b of the data.
IndexAt(ndx, s0, s1, snt, a, b, codec) ==
    /\ a < b
    /\ write_ndx(ndx, s0, codec).bytes = Slice(snt, a, b)
    /\ write_ndx(ndx, s0, codec).state = s1

\* The data is the indices written, one behind the other; st has the writer's states.
Ledger(wr, out, snt, codec, wc, st) ==
    /\ wr \in Seq(Indices) /\ snt \in Seq(Bytes)
    /\ wc \in [0..Len(wr) -> 0..Len(snt)] /\ st \in [0..Len(wr) -> NdxStates]
    /\ wc[0] = 0 /\ wc[Len(wr)] = Len(snt) /\ st[0] = NdxState /\ st[Len(wr)] = out
    /\ \A k \in 1..Len(wr) : IndexAt(wr[k], st[k - 1], st[k], snt, wc[k - 1], wc[k], codec)

\* The reader has taken g bytes: the indices rd, and the part of the next one.
Reads(wr, snt, wc, st, rd, in, g, part) ==
    /\ rd \in Seq(Indices) /\ Len(rd) <= Len(wr) /\ rd = Slice(wr, 0, Len(rd))
    /\ in = st[Len(rd)]
    /\ g \in wc[Len(rd)]..Len(snt) /\ part = Slice(snt, wc[Len(rd)], g)
    /\ Len(rd) < Len(wr) => g < wc[Len(rd) + 1]

Indexed(wr, out, snt, codec, rd, in, g, part) ==
    \E wc, st : Ledger(wr, out, snt, codec, wc, st) /\ Reads(wr, snt, wc, st, rd, in, g, part)

\* Nothing has been written.
LEMMA IndexedInit == ASSUME NEW codec
                     PROVE  Indexed(<<>>, NdxState, <<>>, codec, <<>>, NdxState, 0, <<>>)
<1> DEFINE e == <<>>
           c == [i \in 0..0 |-> 0]
           q == [i \in 0..0 |-> NdxState]
<1>1. NdxState \in NdxStates
    BY DEF NdxState, NdxStates
<1>2. e \in Seq(Bytes) /\ e \in Seq(Indices) /\ Len(e) = 0 /\ ~(Len(e) < Len(e)) /\ Len(e) <= Len(e) /\ 0 \in 0..Len(e)
    OBVIOUS
<1>3. c \in [0..0 -> 0..Len(e)] /\ c[0] = 0
    BY <1>2
<1>4. q \in [0..0 -> NdxStates] /\ q[0] = NdxState
    <2> HIDE DEF e
    <2> QED
        BY <1>1
<1> HIDE DEF e, c, q
<1>5. Slice(e, 0, 0) = e
    BY <1>2, SliceEnds, Zenon DEF e
<1>6. \A k \in 1..Len(e) : FALSE
    BY <1>2
<1>7. Ledger(e, NdxState, e, codec, c, q)
    BY <1>2, <1>3, <1>4, <1>6, Zenon DEF Ledger
<1>8. Reads(e, e, c, q, e, NdxState, 0, e)
    BY <1>2, <1>3, <1>4, <1>5, Zenon DEF Reads
<1> QED
    BY <1>7, <1>8, Zenon DEF Indexed, e

\* The marks of a longer ledger go on from the old ones.
Entered(wr, snt, b, wc, st, wc2, st2) ==
    /\ \A k \in 0..Len(wr) : wc2[k] = wc[k] /\ st2[k] = st[k]
    /\ wc2[Len(wr) + 1] = Len(snt) + Len(b)

\* write_ndx adds one index.
LEMMA LedgerWrite ==
    ASSUME NEW wr, NEW out, NEW snt, NEW codec, NEW wc, NEW st, Ledger(wr, out, snt, codec, wc, st),
           NEW ndx \in Indices, NEW w, w = write_ndx(ndx, out, codec)
    PROVE  /\ w.bytes \in Seq(Bytes) /\ Len(w.bytes) >= 1 /\ Len(w.bytes) <= 6
           /\ \E wc2, st2 :
                 /\ Ledger(Append(wr, ndx), w.state, snt \o w.bytes, codec, wc2, st2)
                 /\ Entered(wr, snt, w.bytes, wc, st, wc2, st2)
<1>1. PICK n \in Nat : n = Len(wr)
    BY DEF Ledger
<1>2. /\ wr \in Seq(Indices) /\ snt \in Seq(Bytes)
      /\ wc \in [0..n -> 0..Len(snt)] /\ st \in [0..n -> NdxStates]
      /\ wc[0] = 0 /\ wc[n] = Len(snt) /\ st[0] = NdxState /\ st[n] = out
      /\ \A k \in 1..n : IndexAt(wr[k], st[k - 1], st[k], snt, wc[k - 1], wc[k], codec)
    BY <1>1, Zenon DEF Ledger
<1>3. n \in 0..n /\ 0 \in 0..n
    OBVIOUS
<1>4. out \in NdxStates
    BY <1>2, <1>3, Zenon
<1>5. PICK b \in Seq(Bytes) : b = w.bytes /\ Len(b) >= 1 /\ Len(b) <= 6 /\ w.state \in NdxStates
    <2>1. Decodes(ndx, out, codec, w)
        BY <1>4, NdxRoundTrip, Zenon
    <2> QED
        BY <2>1, Zenon DEF Decodes
<1>6. PICK m \in Nat : m = Len(b) /\ m >= 1
    BY <1>5
<1>7. PICK l \in Nat : l = Len(snt)
    BY <1>2
<1>8. snt \o b \in Seq(Bytes) /\ Len(snt \o b) = l + m
    BY <1>2, <1>6, <1>7, CatFacts
<1>9. /\ Append(wr, ndx) \in Seq(Indices) /\ Len(Append(wr, ndx)) = n + 1
      /\ Append(wr, ndx)[n + 1] = ndx /\ \A k \in 1..n : Append(wr, ndx)[k] = wr[k]
    BY <1>1, <1>2
<1> DEFINE wc2 == [k \in 0..(n + 1) |-> IF k <= n THEN wc[k] ELSE l + m]
           st2 == [k \in 0..(n + 1) |-> IF k <= n THEN st[k] ELSE w.state]
<1>10. \A k \in 0..n : k \in 0..(n + 1) /\ k <= n
    OBVIOUS
<1>11. n + 1 \in 0..(n + 1) /\ ~(n + 1 <= n) /\ n + 1 \in 1..(n + 1)
    OBVIOUS
<1>12. \A k \in 0..n : wc2[k] = wc[k] /\ st2[k] = st[k]
    BY <1>10, Zenon
<1>13. wc2[n + 1] = l + m /\ st2[n + 1] = w.state
    BY <1>11, Zenon
<1>14. wc2 \in [0..(n + 1) -> 0..(l + m)]
    <2>1. \A k \in 0..(n + 1) : k <= n => wc[k] \in 0..(l + m)
        <3> TAKE k \in 0..(n + 1)
        <3> HAVE k <= n
        <3>1. k \in 0..n
            OBVIOUS
        <3>2. wc[k] \in 0..l
            BY <1>2, <1>7, <3>1, Zenon
        <3> QED
            BY <3>2
    <2>2. l + m \in 0..(l + m)
        OBVIOUS
    <2> QED
        BY <2>1, <2>2, Zenon
<1>15. st2 \in [0..(n + 1) -> NdxStates]
    <2>1. \A k \in 0..(n + 1) : k <= n => k \in 0..n
        OBVIOUS
    <2> QED
        BY <1>2, <1>5, <2>1, Zenon
<1> HIDE DEF wc2, st2
<1>16. ASSUME NEW k \in 1..(n + 1)
       PROVE  IndexAt(Append(wr, ndx)[k], st2[k - 1], st2[k], snt \o b, wc2[k - 1], wc2[k], codec)
    <2>1. CASE k \in 1..n
        <3>1. k \in 0..n /\ k - 1 \in 0..n
            BY <2>1
        <3>2. IndexAt(wr[k], st[k - 1], st[k], snt, wc[k - 1], wc[k], codec)
            BY <1>2, <2>1, Zenon
        <3>3. PICK i : i = wc[k - 1]
            BY Zenon
        <3>4. PICK j : j = wc[k]
            BY Zenon
        <3>5. i \in 0..Len(snt) /\ j \in 0..Len(snt) /\ i < j
            BY <1>2, <3>1, <3>2, <3>3, <3>4, Zenon DEF IndexAt
        <3>6. j \in i..Len(snt)
            BY <1>7, <3>5
        <3>7. Slice(snt \o b, i, j) = Slice(snt, i, j)
            BY <1>2, <3>5, <3>6, SliceKept
        <3>8. IndexAt(wr[k], st[k - 1], st[k], snt \o b, wc[k - 1], wc[k], codec)
            BY <3>2, <3>3, <3>4, <3>7, Zenon DEF IndexAt
        <3> QED
            BY <1>9, <1>12, <2>1, <3>1, <3>8, Zenon
    <2>2. CASE k = n + 1
        <3>1. k - 1 = n
            BY <2>2
        <3>2. l < l + m
            BY <1>6
        <3>3. Slice(snt \o b, l, l + m) = b
            BY <1>2, <1>6, <1>7, SliceNew
        <3>4. IndexAt(ndx, out, w.state, snt \o b, l, l + m, codec)
            BY <1>5, <3>2, <3>3, Zenon DEF IndexAt
        <3>5. wc2[k - 1] = l /\ st2[k - 1] = out
            BY <1>2, <1>3, <1>7, <1>12, <3>1, Zenon
        <3> QED
            BY <1>9, <1>13, <2>2, <3>4, <3>5, Zenon
    <2>3. k \in 1..n \/ k = n + 1
        OBVIOUS
    <2> QED
        BY <2>1, <2>2, <2>3, Zenon
<1>17. wc2[0] = 0 /\ st2[0] = NdxState
    BY <1>2, <1>3, <1>12, Zenon
<1>18. Ledger(Append(wr, ndx), w.state, snt \o b, codec, wc2, st2)
    BY <1>8, <1>9, <1>13, <1>14, <1>15, <1>16, <1>17, Zenon DEF Ledger
<1>19. Entered(wr, snt, b, wc, st, wc2, st2)
    BY <1>1, <1>6, <1>7, <1>12, <1>13, Zenon DEF Entered
<1> QED
    BY <1>5, <1>18, <1>19, Zenon

LEMMA IndexedWrite ==
    ASSUME NEW wr, NEW out, NEW snt, NEW codec, NEW rd, NEW in, NEW g, NEW part,
           Indexed(wr, out, snt, codec, rd, in, g, part),
           NEW ndx \in Indices, NEW w, w = write_ndx(ndx, out, codec)
    PROVE  /\ w.bytes \in Seq(Bytes) /\ Len(w.bytes) >= 1 /\ Len(w.bytes) <= 6
           /\ Indexed(Append(wr, ndx), w.state, snt \o w.bytes, codec, rd, in, g, part)
<1>1. PICK wc, st : Ledger(wr, out, snt, codec, wc, st) /\ Reads(wr, snt, wc, st, rd, in, g, part)
    BY Zenon DEF Indexed
<1>2. PICK b \in Seq(Bytes) : b = w.bytes /\ Len(b) >= 1 /\ Len(b) <= 6
    BY <1>1, LedgerWrite, Zenon
<1>3. PICK wc2, st2 :
          /\ Ledger(Append(wr, ndx), w.state, snt \o b, codec, wc2, st2)
          /\ \A k \in 0..Len(wr) : wc2[k] = wc[k] /\ st2[k] = st[k]
          /\ wc2[Len(wr) + 1] = Len(snt) + Len(b)
    <2>1. PICK wc2, st2 :
              /\ Ledger(Append(wr, ndx), w.state, snt \o w.bytes, codec, wc2, st2)
              /\ Entered(wr, snt, w.bytes, wc, st, wc2, st2)
        BY <1>1, LedgerWrite, Zenon
    <2>2. /\ Ledger(Append(wr, ndx), w.state, snt \o b, codec, wc2, st2)
          /\ Entered(wr, snt, b, wc, st, wc2, st2)
        BY <1>2, <2>1, Zenon
    <2> QED
        BY <2>2, Zenon DEF Entered
<1>4. /\ wr \in Seq(Indices) /\ snt \in Seq(Bytes)
      /\ wc \in [0..Len(wr) -> 0..Len(snt)] /\ wc[Len(wr)] = Len(snt)
    BY <1>1, Zenon DEF Ledger
<1>5. /\ rd \in Seq(Indices) /\ Len(rd) <= Len(wr) /\ rd = Slice(wr, 0, Len(rd))
      /\ in = st[Len(rd)]
      /\ g \in wc[Len(rd)]..Len(snt) /\ part = Slice(snt, wc[Len(rd)], g)
      /\ Len(rd) < Len(wr) => g < wc[Len(rd) + 1]
    BY <1>1, Zenon DEF Reads
<1>6. PICK n \in Nat : n = Len(wr)
    BY <1>4
<1>7. PICK l \in Nat : l = Len(snt)
    BY <1>4
<1>8. PICK m \in Nat : m = Len(b) /\ m >= 1
    BY <1>2
<1>9. PICK j \in Nat : j = Len(rd)
    BY <1>5
<1>10. j \in 0..n /\ 0 \in 0..n /\ (j < n => j + 1 \in 0..n)
    BY <1>5, <1>6, <1>9
<1>11. PICK a : a = wc[j] /\ a = wc2[j]
    BY <1>3, <1>6, <1>10, Zenon
<1>12. a \in 0..l /\ g \in a..l
    BY <1>4, <1>5, <1>6, <1>7, <1>9, <1>10, <1>11, Zenon
<1>13. Len(snt \o b) = l + m /\ g \in a..(l + m)
    BY <1>4, <1>7, <1>8, <1>12, CatFacts
<1>14. Slice(snt \o b, a, g) = Slice(snt, a, g)
    BY <1>2, <1>4, <1>7, <1>12, SliceKept
<1>15. <<ndx>> \in Seq(Indices) /\ Append(wr, ndx) = wr \o <<ndx>>
    BY <1>4, AppendCat
<1>16. Slice(wr \o <<ndx>>, 0, j) = Slice(wr, 0, j)
    BY <1>4, <1>6, <1>10, <1>15, SliceKept, Zenon
<1>17. Len(Append(wr, ndx)) = n + 1 /\ j <= n + 1
    BY <1>4, <1>6, <1>10
<1>18. g < wc2[j + 1]
    <2>1. CASE j < n
        BY <1>3, <1>5, <1>6, <1>9, <1>10, <2>1, Zenon
    <2>2. CASE j = n
        <3>1. wc2[j + 1] = l + m
            BY <1>3, <1>6, <1>7, <1>8, <2>2, Zenon
        <3>2. g < l + m
            BY <1>8, <1>12
        <3> QED
            BY <3>1, <3>2, Zenon
    <2>3. j < n \/ j = n
        BY <1>10
    <2> QED
        BY <2>1, <2>2, <2>3, Zenon
<1>19. in = st2[j]
    BY <1>3, <1>5, <1>6, <1>9, <1>10, Zenon
<1>20. Reads(Append(wr, ndx), snt \o b, wc2, st2, rd, in, g, part)
    BY <1>5, <1>9, <1>11, <1>13, <1>14, <1>15, <1>16, <1>17, <1>18, <1>19, Zenon DEF Reads
<1> QED
    BY <1>2, <1>3, <1>20, Zenon DEF Indexed

\* What is known of the index being read, from a to b of the data.
Pending(wr, snt, codec, wc, st, rd, in, g, part, a, b) ==
    /\ Len(rd) + 1 \in 1..Len(wr) /\ in \in NdxStates
    /\ a \in 0..Len(snt) /\ b \in a..Len(snt) /\ g \in a..b /\ g < b
    /\ a = wc[Len(rd)] /\ b = wc[Len(rd) + 1] /\ part = Slice(snt, a, g)
    /\ IndexAt(wr[Len(rd) + 1], in, st[Len(rd) + 1], snt, a, b, codec)
    /\ wr[Len(rd) + 1] \in Indices

\* As long as there is data to come, an index is pending.
LEMMA IndexPending ==
    ASSUME NEW wr, NEW out, NEW snt, NEW codec, NEW rd, NEW in, NEW g, NEW part, NEW wc, NEW st,
           Ledger(wr, out, snt, codec, wc, st), Reads(wr, snt, wc, st, rd, in, g, part), g < Len(snt)
    PROVE  \E a, b : Pending(wr, snt, codec, wc, st, rd, in, g, part, a, b)
<1>1. PICK n \in Nat : n = Len(wr)
    BY DEF Ledger
<1>2. PICK l \in Nat : l = Len(snt)
    BY DEF Ledger
<1>3. PICK j \in Nat : j = Len(rd)
    BY DEF Reads
<1>4. /\ wr \in Seq(Indices) /\ snt \in Seq(Bytes)
      /\ wc \in [0..n -> 0..l] /\ st \in [0..n -> NdxStates] /\ wc[n] = l
      /\ \A k \in 1..n : IndexAt(wr[k], st[k - 1], st[k], snt, wc[k - 1], wc[k], codec)
    BY <1>1, <1>2, Zenon DEF Ledger
<1>5. /\ j <= n /\ in = st[j] /\ g \in wc[j]..l /\ part = Slice(snt, wc[j], g)
      /\ j < n => g < wc[j + 1]
    BY <1>1, <1>2, <1>3, Zenon DEF Reads
<1>6. j # n
    <2>1. SUFFICES ASSUME j = n PROVE FALSE
        OBVIOUS
    <2>2. g \in l..l /\ g < l
        BY <1>2, <1>4, <1>5, <2>1, Zenon
    <2> QED
        BY <2>2
<1>7. j < n /\ j \in 0..n /\ j + 1 \in 0..n /\ j + 1 \in 1..n /\ (j + 1) - 1 = j
    BY <1>5, <1>6
<1>8. PICK a : a = wc[j]
    BY Zenon
<1>9. PICK b : b = wc[j + 1]
    BY Zenon
<1>10. a \in 0..l /\ b \in 0..l /\ g \in a..l /\ g < b /\ in \in NdxStates
    BY <1>4, <1>5, <1>7, <1>8, <1>9, Zenon
<1>11. b \in a..l /\ g \in a..b
    BY <1>10
<1>12. IndexAt(wr[j + 1], in, st[j + 1], snt, a, b, codec)
    BY <1>4, <1>5, <1>7, <1>8, <1>9, Zenon
<1>13. wr[j + 1] \in Indices
    BY <1>1, <1>4, <1>7
<1>14. Pending(wr, snt, codec, wc, st, rd, in, g, part, a, b)
    BY <1>1, <1>2, <1>3, <1>5, <1>7, <1>8, <1>9, <1>10, <1>11, <1>12, <1>13, Zenon DEF Pending
<1> QED
    BY <1>14, Zenon

\* The reader's length of a pending index, from the part up to h: more than the part,
\* and no more than the index.
PartLength(snt, a, b, h, codec) ==
    /\ Slice(snt, a, h) \in Seq(Bytes) /\ Len(Slice(snt, a, h)) = h - a
    /\ h < b => NdxLength(Slice(snt, a, h), codec) \in (h - a + 1)..(b - a)
    /\ h = b => NdxLength(Slice(snt, a, h), codec) = b - a
    /\ b - a <= 6

LEMMA PendingLength ==
    ASSUME NEW wr, NEW snt \in Seq(Bytes), NEW codec, NEW wc, NEW st, NEW rd, NEW in, NEW g, NEW part, NEW a, NEW b,
           Pending(wr, snt, codec, wc, st, rd, in, g, part, a, b), NEW h \in a..b
    PROVE  PartLength(snt, a, b, h, codec)
<1>1. PICK ndx \in Indices : ndx = wr[Len(rd) + 1]
    BY Zenon DEF Pending
<1>2. PICK w : w = write_ndx(ndx, in, codec)
    BY Zenon
<1>3. a \in 0..Len(snt) /\ b \in a..Len(snt) /\ in \in NdxStates /\ w.bytes = Slice(snt, a, b)
    BY <1>1, <1>2, Zenon DEF Pending, IndexAt
<1>4. PICK l \in Nat : l = Len(snt)
    OBVIOUS
<1>5. h \in a..Len(snt)
    BY <1>3, <1>4
<1>6. PICK t \in Seq(Bytes) : t = Slice(snt, a, b) /\ Len(t) <= 6 /\ NdxLength(t, codec) = Len(t)
    <2>1. w.bytes \in Seq(Bytes) /\ Len(w.bytes) <= 6 /\ NdxLength(w.bytes, codec) = Len(w.bytes)
        <3>1. Decodes(ndx, in, codec, w)
            BY <1>2, <1>3, NdxRoundTrip, Zenon
        <3> QED
            BY <3>1, Zenon DEF Decodes
    <2> QED
        BY <1>3, <2>1, Zenon
<1>7. Len(t) = b - a
    BY <1>3, <1>6, SliceFacts
<1>8. Slice(snt, a, h) \in Seq(Bytes) /\ Len(Slice(snt, a, h)) = h - a
    BY <1>3, <1>5, SliceFacts
<1>9. ASSUME h < b PROVE NdxLength(Slice(snt, a, h), codec) \in (h - a + 1)..(b - a)
    <2>1. PICK m \in Nat : m = h - a
        BY <1>3, <1>4
    <2>2. m \in 0..(b - a) /\ a + m = h /\ m \in 0..((b - a) - 1)
        BY <1>3, <1>4, <1>9, <2>1
    <2>3. SubSeq(t, 1, m) = Slice(snt, a, h)
        <3>1. CutAt(snt, a, b, m, t)
            BY <1>3, <1>6, <2>2, SliceCut, Zenon
        <3> QED
            BY <2>2, <3>1, Zenon DEF CutAt
    <2>4. m \in 0..(Len(t) - 1)
        BY <1>7, <2>2, Zenon
    <2>5. NdxLength(SubSeq(t, 1, m), codec) \in (m + 1)..Len(t)
        BY <1>6, <2>4, NdxPrefix
    <2> QED
        BY <1>7, <2>1, <2>3, <2>5, Zenon
<1>10. ASSUME h = b PROVE NdxLength(Slice(snt, a, h), codec) = b - a
    BY <1>6, <1>7, <1>10, Zenon
<1> QED
    BY <1>6, <1>7, <1>8, <1>9, <1>10, Zenon DEF PartLength

\* A slice with the element behind it.
LEMMA SliceAppend ==
    ASSUME NEW S, NEW s \in Seq(S), NEW t \in Seq(S), NEW j \in 0..Len(s), j + 1 \in j..Len(s),
           t = Slice(s, 0, j), NEW x, x = s[j + 1]
    PROVE  Append(t, x) = Slice(s, 0, j + 1)
BY DEF Slice

\* While there is data to come, the reader wants at least one byte.
LEMMA IndexedWanted ==
    ASSUME NEW wr, NEW out, NEW snt, NEW codec, NEW rd, NEW in, NEW g, NEW part,
           Indexed(wr, out, snt, codec, rd, in, g, part), g < Len(snt)
    PROVE  NdxLength(part, codec) - Len(part) \in Nat \ {0}
<1>1. PICK wc, st : Ledger(wr, out, snt, codec, wc, st) /\ Reads(wr, snt, wc, st, rd, in, g, part)
    BY Zenon DEF Indexed
<1>2. PICK a, b : Pending(wr, snt, codec, wc, st, rd, in, g, part, a, b)
    BY <1>1, IndexPending, Zenon
<1>3. snt \in Seq(Bytes)
    BY <1>1, Zenon DEF Ledger
<1>4. g \in a..b /\ g < b /\ part = Slice(snt, a, g) /\ a \in 0..Len(snt) /\ b \in a..Len(snt)
    BY <1>2, Zenon DEF Pending
<1>5. Len(part) = g - a /\ NdxLength(part, codec) \in (g - a + 1)..(b - a)
    <2>1. PartLength(snt, a, b, g, codec)
        BY <1>2, <1>3, <1>4, PendingLength, Zenon
    <2> QED
        BY <1>4, <2>1, Zenon DEF PartLength
<1>6. a \in Int /\ b \in Int /\ g \in Int
    BY <1>3, <1>4
<1> QED
    BY <1>4, <1>5, <1>6

\* The bytes s up to h are an index, or still a part of one.
ReadOn(wr, out, snt, codec, rd, in, h, s) ==
    /\ Len(s) = NdxLength(s, codec) =>
           /\ read_ndx(s, in, codec).ndx \in Indices /\ read_ndx(s, in, codec).state \in NdxStates
           /\ Indexed(wr, out, snt, codec, Append(rd, read_ndx(s, in, codec).ndx),
                      read_ndx(s, in, codec).state, h, <<>>)
    /\ Len(s) # NdxLength(s, codec) => Indexed(wr, out, snt, codec, rd, in, h, s)

\* read_ndx takes k more bytes, no more than it wants: it completes the index that was
\* written, in the writer's state, or keeps a longer part of it.
LEMMA IndexedRead ==
    ASSUME NEW wr, NEW out, NEW snt, NEW codec, NEW rd, NEW in, NEW g, NEW part,
           Indexed(wr, out, snt, codec, rd, in, g, part), g < Len(snt),
           NEW k \in Nat, k # 0, g + k <= Len(snt), k <= NdxLength(part, codec) - Len(part),
           NEW s, s = part \o Slice(snt, g, g + k)
    PROVE  ReadOn(wr, out, snt, codec, rd, in, g + k, s)
<1>1. PICK wc, st : Ledger(wr, out, snt, codec, wc, st) /\ Reads(wr, snt, wc, st, rd, in, g, part)
    BY Zenon DEF Indexed
<1>2. PICK a, b : Pending(wr, snt, codec, wc, st, rd, in, g, part, a, b)
    BY <1>1, IndexPending, Zenon
<1>3. snt \in Seq(Bytes) /\ wr \in Seq(Indices) /\ rd \in Seq(Indices)
    BY <1>1, Zenon DEF Ledger, Reads
<1>4. PICK j \in Nat : j = Len(rd)
    BY <1>3
<1>5. PICK n \in Nat : n = Len(wr)
    BY <1>3
<1>6. PICK l \in Nat : l = Len(snt)
    BY <1>3
<1>7. /\ j + 1 \in 1..n /\ in \in NdxStates
      /\ a \in 0..l /\ b \in a..l /\ g \in a..b /\ g < b
      /\ a = wc[j] /\ b = wc[j + 1] /\ part = Slice(snt, a, g)
      /\ IndexAt(wr[j + 1], in, st[j + 1], snt, a, b, codec)
      /\ wr[j + 1] \in Indices
    BY <1>2, <1>4, <1>5, <1>6, Zenon DEF Pending
<1>8. Len(part) = g - a /\ NdxLength(part, codec) \in (g - a + 1)..(b - a)
    <2>1. PartLength(snt, a, b, g, codec)
        BY <1>2, <1>3, <1>7, PendingLength, Zenon
    <2> QED
        BY <1>7, <2>1, Zenon DEF PartLength
<1>9. k <= NdxLength(part, codec) - (g - a)
    BY <1>8, Zenon
<1>10. PICK h \in Nat : h = g + k /\ h \in a..b /\ g < h
    <2>1. \A v \in (g - a + 1)..(b - a) : k <= v - (g - a) => g + k <= b
        BY <1>7
    <2>2. g + k <= b
        BY <1>8, <1>9, <2>1, Zenon
    <2> QED
        BY <1>7, <2>2
<1>11. g \in a..l /\ h \in g..l /\ h \in a..l /\ g \in 0..l
    BY <1>7, <1>10
<1>12. s = Slice(snt, a, h)
    BY <1>3, <1>6, <1>7, <1>10, <1>11, SliceCat
<1>13. /\ s \in Seq(Bytes) /\ Len(s) = h - a
       /\ h < b => NdxLength(s, codec) \in (h - a + 1)..(b - a)
       /\ h = b => NdxLength(s, codec) = b - a
    <2>1. PartLength(snt, a, b, h, codec)
        BY <1>2, <1>3, <1>10, PendingLength, Zenon
    <2> QED
        BY <1>12, <2>1, Zenon DEF PartLength
<1>14. /\ Len(rd) <= Len(wr) /\ rd = Slice(wr, 0, Len(rd)) /\ in = st[Len(rd)]
    BY <1>1, Zenon DEF Reads
<1>15. CASE h = b
    <2>1. Len(s) = NdxLength(s, codec)
        BY <1>13, <1>15, Zenon
    <2>2. PICK ndx \in Indices : ndx = wr[j + 1]
        BY <1>7, Zenon
    <2>3. PICK w : w = write_ndx(ndx, in, codec)
        BY Zenon
    <2>4. w.bytes = s /\ w.state = st[j + 1]
        BY <1>7, <1>12, <1>15, <2>2, <2>3, Zenon DEF IndexAt
    <2>5. read_ndx(s, in, codec).ndx = ndx /\ read_ndx(s, in, codec).state = st[j + 1] /\ w.state \in NdxStates
        <3>1. Decodes(ndx, in, codec, w)
            BY <1>7, <2>3, NdxRoundTrip, Zenon
        <3> QED
            BY <2>4, <3>1, Zenon DEF Decodes
    <2>6. Append(rd, ndx) \in Seq(Indices) /\ Len(Append(rd, ndx)) = j + 1 /\ j + 1 <= n
        BY <1>3, <1>4, <1>7
    <2>7. 0 \in 0..n /\ j \in 0..n /\ j + 1 \in j..n
        BY <1>7
    <2>8. Append(rd, ndx) = Slice(wr, 0, j + 1)
        <3>1. rd \in Seq(Indices) /\ rd = Slice(wr, 0, j) /\ Len(rd) = j
            BY <1>3, <1>4, <1>14, Zenon
        <3> QED
            BY <1>3, <1>5, <2>2, <2>6, <2>7, <3>1, SliceAppend
    <2>9. h \in h..l /\ h \in 0..l
        BY <1>11
    <2>10. Slice(snt, h, h) = <<>>
        BY <1>3, <1>6, <2>9, SliceEnds
    <2>11. j + 1 < n => h < wc[(j + 1) + 1]
        <3> HAVE j + 1 < n
        <3>1. (j + 1) + 1 \in 1..n /\ ((j + 1) + 1) - 1 = j + 1
            BY <1>7
        <3>2. wc[j + 1] < wc[(j + 1) + 1]
            BY <1>1, <1>5, <3>1, Zenon DEF Ledger, IndexAt
        <3> QED
            BY <1>7, <1>15, <3>2, Zenon
    <2>12. Reads(wr, snt, wc, st, Append(rd, ndx), st[j + 1], h, <<>>)
        BY <1>5, <1>6, <1>7, <1>15, <2>6, <2>8, <2>9, <2>10, <2>11, Zenon DEF Reads
    <2>13. Indexed(wr, out, snt, codec, Append(rd, ndx), st[j + 1], g + k, <<>>)
        BY <1>1, <1>10, <2>12, Zenon DEF Indexed
    <2>14. read_ndx(s, in, codec).state \in NdxStates
        BY <2>4, <2>5, Zenon
    <2> QED
        BY <2>1, <2>5, <2>13, <2>14, Zenon DEF ReadOn
<1>16. CASE h < b
    <2>1. Len(s) # NdxLength(s, codec)
        <3>1. \A v \in (h - a + 1)..(b - a) : v # h - a
            BY <1>7
        <3> QED
            BY <1>13, <1>16, <3>1, Zenon
    <2>2. Reads(wr, snt, wc, st, rd, in, h, s)
        BY <1>3, <1>4, <1>6, <1>7, <1>11, <1>12, <1>14, <1>16, Zenon DEF Reads
    <2>3. Indexed(wr, out, snt, codec, rd, in, g + k, s)
        BY <1>1, <1>10, <2>2, Zenon DEF Indexed
    <2> QED
        BY <2>1, <2>3, Zenon DEF ReadOn
<1>17. h = b \/ h < b
    <2>1. \A u \in 0..l : \A v \in u..l : \A y \in u..v : y = v \/ y < v
        OBVIOUS
    <2> QED
        BY <1>7, <1>10, <2>1, Zenon
<1> QED
    BY <1>15, <1>16, <1>17, Zenon

\* What the invariant says of the indices themselves.
InStep(wr, out, rd, in, part) ==
    /\ wr \in Seq(Indices) /\ rd \in Seq(Indices) /\ out \in NdxStates /\ in \in NdxStates
    /\ Len(rd) <= Len(wr) /\ rd = SubSeq(wr, 1, Len(rd)) /\ (rd = wr => in = out)
    /\ part \in Seq(Bytes) /\ Len(part) <= 5

LEMMA IndexedFacts ==
    ASSUME NEW wr, NEW out, NEW snt, NEW codec, NEW rd, NEW in, NEW g, NEW part,
           Indexed(wr, out, snt, codec, rd, in, g, part)
    PROVE  InStep(wr, out, rd, in, part)
<1>1. PICK wc, st : Ledger(wr, out, snt, codec, wc, st) /\ Reads(wr, snt, wc, st, rd, in, g, part)
    BY Zenon DEF Indexed
<1>2. /\ wr \in Seq(Indices) /\ snt \in Seq(Bytes) /\ st[Len(wr)] = out
      /\ wc \in [0..Len(wr) -> 0..Len(snt)] /\ st \in [0..Len(wr) -> NdxStates]
    BY <1>1, Zenon DEF Ledger
<1>3. /\ rd \in Seq(Indices) /\ Len(rd) <= Len(wr) /\ rd = Slice(wr, 0, Len(rd)) /\ in = st[Len(rd)]
      /\ g \in wc[Len(rd)]..Len(snt) /\ part = Slice(snt, wc[Len(rd)], g)
    BY <1>1, Zenon DEF Reads
<1>4. Len(rd) \in 0..Len(wr) /\ Len(wr) \in 0..Len(wr) /\ 0 + 1 = 1
    BY <1>2, <1>3
<1>5. out \in NdxStates /\ in \in NdxStates
    BY <1>2, <1>3, <1>4, Zenon
<1>6. rd = SubSeq(wr, 1, Len(rd))
    BY <1>3, <1>4, Zenon DEF Slice
<1>7. PICK a \in 0..Len(snt) : a = wc[Len(rd)]
    BY <1>2, <1>4, Zenon
<1>8. g \in a..Len(snt) /\ part = Slice(snt, a, g)
    BY <1>3, <1>7, Zenon
<1>9. part \in Seq(Bytes) /\ Len(part) = g - a
    BY <1>2, <1>7, <1>8, SliceFacts
<1>10. Len(part) <= 5
    <2>1. CASE g < Len(snt)
        <3>1. PICK c, b : Pending(wr, snt, codec, wc, st, rd, in, g, part, c, b)
            BY <1>1, <2>1, IndexPending, Zenon
        <3>2. c = a /\ b \in a..Len(snt) /\ g < b /\ g \in a..b
            BY <1>7, <3>1, Zenon DEF Pending
        <3>3. b - a <= 6
            <4>1. PartLength(snt, a, b, g, codec)
                BY <1>2, <3>1, <3>2, PendingLength, Zenon
            <4> QED
                BY <4>1, Zenon DEF PartLength
        <3> QED
            BY <1>2, <1>7, <1>8, <1>9, <3>2, <3>3
    <2>2. CASE g = Len(snt) /\ Len(rd) = Len(wr)
        <3>1. a = Len(snt)
            BY <1>1, <1>7, <2>2, Zenon DEF Ledger
        <3> QED
            BY <1>2, <1>9, <2>2, <3>1
    <2>3. CASE g = Len(snt) /\ Len(rd) < Len(wr)
        <3>1. Len(rd) + 1 \in 0..Len(wr)
            BY <1>2, <1>4, <2>3
        <3>2. g < wc[Len(rd) + 1] /\ wc[Len(rd) + 1] \in 0..Len(snt)
            BY <1>1, <1>2, <2>3, <3>1, Zenon DEF Reads
        <3> QED
            BY <1>2, <2>3, <3>2
    <2>4. g < Len(snt) \/ g = Len(snt)
        BY <1>2, <1>7, <1>8
    <2>5. Len(rd) < Len(wr) \/ Len(rd) = Len(wr)
        BY <1>2, <1>4
    <2> QED
        BY <2>1, <2>2, <2>3, <2>4, <2>5, Zenon
<1> QED
    BY <1>2, <1>3, <1>5, <1>6, <1>9, <1>10, Zenon DEF InStep
=============================================================================
