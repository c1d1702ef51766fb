------------------------- MODULE WireTransferProofs -------------------------
(***************************************************************************)
(* The properties of WireTransfer for every number of entries, every       *)
(* capacity, every number of phases and every combination of faults: the   *)
(* receiver, the generator and the sender keep the queues in the order of  *)
(* the requests, so QueueOrder is inductive, and the properties follow.    *)
(***************************************************************************)
EXTENDS WireTransfer, TLAPS

USE SMTT(20), ZenonT(20)

-----------------------------------------------------------------------------
\* Sequence facts used by many steps.

\* What a queue holds after a write to its end.
LEMMA AppendFacts ==
    ASSUME NEW S, NEW q \in Seq(S), NEW e \in S
    PROVE  /\ Append(q, e) \in Seq(S)
           /\ Len(Append(q, e)) = Len(q) + 1
           /\ \A i \in 1..Len(q) : Append(q, e)[i] = q[i]
           /\ Append(q, e)[Len(q) + 1] = e
  OBVIOUS

\* What a queue holds after a read from its front.
LEMMA TailFacts ==
    ASSUME NEW S, NEW q \in Seq(S), q # <<>>
    PROVE  /\ Tail(q) \in Seq(S)
           /\ Len(q) >= 1
           /\ Len(Tail(q)) = Len(q) - 1
           /\ \A i \in 1..(Len(q) - 1) : Tail(q)[i] = q[i + 1]
           /\ Head(q) = q[1] /\ Head(q) \in S
  <1>1. Len(q) \in Nat /\ Len(q) # 0
    OBVIOUS
  <1> QED
    BY <1>1

\* What a queue holds after its last elements are lost.
LEMMA PrefixFacts ==
    ASSUME NEW S, NEW q \in Seq(S), NEW n \in 0..Len(q)
    PROVE  /\ SubSeq(q, 1, n) \in Seq(S)
           /\ Len(SubSeq(q, 1, n)) = n
           /\ \A i \in 1..n : SubSeq(q, 1, n)[i] = q[i]
  OBVIOUS

-----------------------------------------------------------------------------
\* Items and frames.

\* What an item is made of.
LEMMA ItemFields ==
    ASSUME NEW item \in Items
    PROVE  /\ item.type \in {"transfer", "handled", "deferred", "done"}
           /\ item.idx \in 0..N /\ item.k \in Nat
           /\ item.type = "transfer" => item.idx \in Entries
  BY WireAssumption DEF Items, Entries

\* The items the generator makes are items.
LEMMA ItemMade ==
    ASSUME NEW k \in Nat
    PROVE  /\ \A idx \in Entries : Item("transfer", idx, k) \in Items
           /\ \A type \in {"handled", "deferred", "done"}, idx \in 0..N :
                  Item(type, idx, k) \in Items
  BY DEF Items, Item

\* What a frame to the sender, and one to the receiver, is made of.
LEMMA FrameFields ==
    /\ \A f \in ReqFrames :
          f.type \in {"req", "success", "done"} /\ f.ndx \in 0..N /\ f.k \in Nat
    /\ \A f \in RespFrames :
          f.type \in {"hdr", "tok", "eof", "done"} /\ f.ndx \in 0..N /\ f.k \in Nat
  BY DEF ReqFrames, RespFrames

\* The frames the actions make are frames.
LEMMA FrameMade ==
    ASSUME NEW ndx \in 0..N, NEW k \in Nat
    PROVE  /\ \A type \in {"req", "success", "done"} : Frame(type, ndx, k) \in ReqFrames
           /\ \A type \in {"hdr", "tok", "eof", "done"} : Frame(type, ndx, k) \in RespFrames
  BY DEF ReqFrames, RespFrames, Frame

-----------------------------------------------------------------------------
\* Type correctness.

\* The type invariant holds at the start.
LEMMA TypeInit == Init => TypeOK
  BY WireAssumption DEF Init, TypeOK, GenType, ChanType, RecvType, SendType, ReqType, RespType,
     NoItem, Item, Items, Frame, ReqFrames, RespFrames, Entries, OnWire

\* Every step preserves the type invariant.
LEMMA TypeStep == TypeOK /\ [Next]_vars => TypeOK'
  <1> SUFFICES ASSUME TypeOK, [Next]_vars PROVE TypeOK'
    OBVIOUS
  <1>0. GenType /\ ChanType /\ RecvType /\ SendType /\ ReqType /\ RespType
    BY DEF TypeOK
  <1> USE <1>0 DEF genVars, recvVars, sendVars
  <1>1. CASE GenDispatch
    <2>1. gIdx \in Entries /\ gIdx \in 0..N /\ gIdx + 1 \in 1..(N + 1) /\ Len(reqs) \in Nat
      BY <1>1, WireAssumption DEF GenDispatch, GenType, Entries
    <2>2. \A kind \in {"handled", "deferred"} : Item(kind, gIdx, Len(reqs)) \in Items
      BY <2>1, ItemMade
    <2>3. Item("transfer", gIdx, Len(reqs) + 1) \in Items
      BY <2>1, ItemMade
    <2>4. pcG' = "write" => gItem'.type = "transfer"
      BY <1>1 DEF GenDispatch, Item, GenType
    <2>5. GenType'
      BY <1>1, <2>1, <2>2, <2>3, <2>4 DEF GenDispatch, GenType
    <2>6. ChanType' /\ RecvType' /\ SendType' /\ ReqType' /\ RespType'
      BY <1>1 DEF GenDispatch, ChanType, RecvType, SendType, ReqType, RespType, OnWire
    <2> QED
      BY <2>5, <2>6 DEF TypeOK
  <1>2. CASE GenDone
    <2>1. Item("done", 0, Len(reqs)) \in Items
      BY ItemMade, WireAssumption DEF GenType
    <2>2. GenType'
      BY <1>2, <2>1 DEF GenDone, GenType
    <2>3. ChanType' /\ RecvType' /\ SendType' /\ ReqType' /\ RespType'
      BY <1>2 DEF GenDone, ChanType, RecvType, SendType, ReqType, RespType, OnWire
    <2> QED
      BY <2>2, <2>3 DEF TypeOK
  <1>3. CASE GenWrite
    <2>1. gItem.idx \in Entries /\ gItem.idx \in 0..N /\ gItem.k \in Nat
      BY <1>3, ItemFields DEF GenWrite, GenType
    <2>2. Frame("req", gItem.idx, gItem.k) \in ReqFrames
      BY <2>1, FrameMade
    <2>3. r2s' \in Seq(ReqFrames) /\ Len(r2s') = Len(r2s) + 1
      BY <1>3, <2>2, AppendFacts DEF GenWrite, ReqType
    <2>4. reqs' \in Seq(Entries)
      BY <1>3, <2>1, AppendFacts DEF GenWrite, GenType
    <2>5. GenType'
      BY <1>3, <2>4 DEF GenWrite, GenType
    <2>6. ReqType'
      BY <1>3, <2>3, Len(r2s) \in Nat, WireAssumption DEF GenWrite, ReqType, ReqRoom
    <2>7. ChanType' /\ RecvType' /\ SendType' /\ RespType'
      BY <1>3 DEF GenWrite, ChanType, RecvType, SendType, RespType, OnWire
    <2> QED
      BY <2>5, <2>6, <2>7 DEF TypeOK
  <1>4. CASE GenWriteErr
    <2>1. GenType'
      BY <1>4 DEF GenWriteErr, GenType
    <2>2. ChanType' /\ RecvType' /\ SendType' /\ ReqType' /\ RespType'
      BY <1>4 DEF GenWriteErr, ChanType, RecvType, SendType, ReqType, RespType, OnWire
    <2> QED
      BY <2>1, <2>2 DEF TypeOK
  <1>5. CASE GenSend
    <2>1. chan' \in Seq(Items) /\ Len(chan') = Len(chan) + 1
      BY <1>5, AppendFacts DEF GenSend, GenType, ChanType
    <2>2. GenType'
      BY <1>5 DEF GenSend, GenType
    <2>3. ChanType'
      BY <1>5, <2>1, WireAssumption DEF GenSend, ChanType
    <2>4. RecvType' /\ SendType' /\ ReqType' /\ RespType'
      BY <1>5 DEF GenSend, RecvType, SendType, ReqType, RespType, OnWire
    <2> QED
      BY <2>2, <2>3, <2>4 DEF TypeOK
  <1>6. CASE GenSendErr
    <2>1. GenType'
      BY <1>6 DEF GenSendErr, GenType
    <2>2. ChanType' /\ RecvType' /\ SendType' /\ ReqType' /\ RespType'
      BY <1>6 DEF GenSendErr, ChanType, RecvType, SendType, ReqType, RespType, OnWire
    <2> QED
      BY <2>1, <2>2 DEF TypeOK
  <1>7. CASE RecvItem
    <2>1. chan' \in Seq(Items) /\ Len(chan') = Len(chan) - 1 /\ Head(chan) \in Items
      BY <1>7, TailFacts DEF RecvItem, ChanType
    <2>2. ChanType'
      BY <2>1, WireAssumption DEF ChanType
    <2>3. RecvType'
      BY <1>7, <2>1, ItemFields DEF RecvItem, RecvType
    <2>4. GenType' /\ SendType' /\ ReqType' /\ RespType'
      BY <1>7 DEF RecvItem, GenType, SendType, ReqType, RespType, OnWire
    <2> QED
      BY <2>2, <2>3, <2>4 DEF TypeOK
  <1>8. CASE RecvClosed
    <2>1. RecvType'
      BY <1>8 DEF RecvClosed, RecvType
    <2>2. GenType' /\ ChanType' /\ SendType' /\ ReqType' /\ RespType'
      BY <1>8 DEF RecvClosed, GenType, ChanType, SendType, ReqType, RespType, OnWire
    <2> QED
      BY <2>1, <2>2 DEF TypeOK
  <1>9. CASE RecvHdr
    <2>1. s2r # <<>> /\ Len(s2r) \in Nat
      BY <1>9 DEF RecvHdr, RespType, OnWire
    <2>2. s2r' \in Seq(RespFrames) /\ Len(s2r') = Len(s2r) - 1
      BY <1>9, <2>1, TailFacts DEF RecvHdr, RespType
    <2>3. RecvType'
      BY <1>9 DEF RecvHdr, RecvType
    <2>4. RespType'
      BY <1>9, <2>1, <2>2, WireAssumption DEF RecvHdr, RespType, OnWire
    <2>5. GenType' /\ ChanType' /\ SendType' /\ ReqType'
      BY <1>9 DEF RecvHdr, GenType, ChanType, SendType, ReqType
    <2> QED
      BY <2>3, <2>4, <2>5 DEF TypeOK
  <1>10. CASE RecvBody
    <2>1. s2r # <<>> /\ Len(s2r) \in Nat
      BY <1>10 DEF RecvBody, RespType, OnWire
    <2>2. s2r' \in Seq(RespFrames) /\ Len(s2r') = Len(s2r) - 1
      BY <1>10, <2>1, TailFacts DEF RecvBody, RespType
    <2>3. rItem.idx \in Entries
      BY <1>10, ItemFields DEF RecvBody, RecvType
    <2>4. Append(written, rItem.idx) \in Seq(Entries) /\ Len(Append(written, rItem.idx)) = Len(written) + 1
      BY <2>3, AppendFacts DEF RecvType
    <2>4a. Len(written) \in Nat /\ acked \in 0..Len(written) /\ acked \in 0..(Len(written) + 1)
      BY DEF RecvType
    <2>5. RecvType'
      <3>1. CASE Head(s2r).type = "eof"
        BY <1>10, <2>4, <2>4a, <3>1 DEF RecvBody, RecvType
      <3>2. CASE Head(s2r).type # "eof"
        BY <1>10, <3>2 DEF RecvBody, RecvType
      <3> QED
        BY <3>1, <3>2
    <2>6. RespType'
      BY <1>10, <2>1, <2>2, WireAssumption DEF RecvBody, RespType, OnWire
    <2>7. GenType' /\ ChanType' /\ SendType' /\ ReqType'
      BY <1>10 DEF RecvBody, GenType, ChanType, SendType, ReqType
    <2> QED
      BY <2>5, <2>6, <2>7 DEF TypeOK
  <1>11. CASE RecvFault
    <2>1. RecvType'
      BY <1>11 DEF RecvFault, RecvType
    <2>2. GenType' /\ ChanType' /\ SendType' /\ ReqType' /\ RespType'
      BY <1>11 DEF RecvFault, GenType, ChanType, SendType, ReqType, RespType, OnWire
    <2> QED
      BY <2>1, <2>2 DEF TypeOK
  <1>12. CASE RecvEof
    <2>1. RecvType'
      BY <1>12 DEF RecvEof, RecvType
    <2>2. GenType' /\ ChanType' /\ SendType' /\ ReqType' /\ RespType'
      BY <1>12 DEF RecvEof, GenType, ChanType, SendType, ReqType, RespType, OnWire
    <2> QED
      BY <2>1, <2>2 DEF TypeOK
  <1>13. CASE RecvJoin
    <2>1. RecvType'
      BY <1>13 DEF RecvJoin, RecvType
    <2>2. GenType' /\ ChanType' /\ SendType' /\ ReqType' /\ RespType'
      BY <1>13 DEF RecvJoin, GenType, ChanType, SendType, ReqType, RespType, OnWire
    <2> QED
      BY <2>1, <2>2 DEF TypeOK
  <1>14. CASE RecvAck
    <2>1. Len(written) \in Nat /\ Len(r2s) \in Nat
      BY DEF RecvType, ReqType
    <2>2. acked + 1 \in 1..Len(written)
      BY <1>14, <2>1 DEF RecvAck, RecvType
    <2>3. written[acked + 1] \in 0..N
      BY <2>2, WireAssumption DEF RecvType, Entries
    <2>4. Frame("success", written[acked + 1], Len(reqs)) \in ReqFrames
      BY <2>3, FrameMade DEF GenType
    <2>5. r2s' \in Seq(ReqFrames) /\ Len(r2s') = Len(r2s) + 1
      BY <1>14, <2>4, AppendFacts DEF RecvAck, ReqType
    <2>6. RecvType'
      BY <1>14, <2>1, <2>2 DEF RecvAck, RecvType
    <2>7. ReqType'
      BY <1>14, <2>1, <2>5, WireAssumption DEF RecvAck, ReqRoom, ReqType
    <2>8. GenType' /\ ChanType' /\ SendType' /\ RespType'
      BY <1>14 DEF RecvAck, GenType, ChanType, SendType, RespType, OnWire
    <2> QED
      BY <2>6, <2>7, <2>8 DEF TypeOK
  <1>15. CASE PhaseWrite
    <2>1. Frame("done", 0, Len(reqs)) \in ReqFrames
      BY FrameMade, WireAssumption DEF GenType
    <2>2. r2s' \in Seq(ReqFrames) /\ Len(r2s') = Len(r2s) + 1 /\ Len(r2s) \in Nat
      BY <1>15, <2>1, AppendFacts DEF PhaseWrite, ReqType
    <2>3. RecvType'
      BY <1>15 DEF PhaseWrite, RecvType
    <2>4. ReqType'
      BY <1>15, <2>2, WireAssumption DEF PhaseWrite, ReqRoom, ReqType
    <2>5. GenType' /\ ChanType' /\ SendType' /\ RespType'
      BY <1>15 DEF PhaseWrite, GenType, ChanType, SendType, RespType, OnWire
    <2> QED
      BY <2>3, <2>4, <2>5 DEF TypeOK
  <1>16. CASE PhaseRead
    <2>1. s2r # <<>> /\ Len(s2r) \in Nat
      BY <1>16 DEF PhaseRead, RespType, OnWire
    <2>2. s2r' \in Seq(RespFrames) /\ Len(s2r') = Len(s2r) - 1
      BY <1>16, <2>1, TailFacts DEF PhaseRead, RespType
    <2>3. RecvType'
      BY <1>16, WireAssumption DEF PhaseRead, RecvType
    <2>4. RespType'
      BY <1>16, <2>1, <2>2, WireAssumption DEF PhaseRead, RespType, OnWire
    <2>5. GenType' /\ ChanType' /\ SendType' /\ ReqType'
      BY <1>16 DEF PhaseRead, GenType, ChanType, SendType, ReqType
    <2> QED
      BY <2>3, <2>4, <2>5 DEF TypeOK
  <1>17. CASE RecvWriteErr
    <2>1. RecvType'
      BY <1>17 DEF RecvWriteErr, RecvType
    <2>2. GenType' /\ ChanType' /\ SendType' /\ ReqType' /\ RespType'
      BY <1>17 DEF RecvWriteErr, GenType, ChanType, SendType, ReqType, RespType, OnWire
    <2> QED
      BY <2>1, <2>2 DEF TypeOK
  <1>18. CASE SenderReadSuccess
    <2>1. r2s' \in Seq(ReqFrames) /\ Len(r2s') = Len(r2s) - 1 /\ Len(r2s) \in Nat /\ Head(r2s) \in ReqFrames
      BY <1>18, TailFacts DEF SenderReadSuccess, TakeReq, ReqType
    <2>2. ReqType'
      BY <1>18, <2>1, WireAssumption DEF SenderReadSuccess, TakeReq, ReqType
    <2>3. GenType' /\ ChanType' /\ RecvType' /\ SendType' /\ RespType'
      BY <1>18 DEF SenderReadSuccess, TakeReq, GenType, ChanType, RecvType, SendType, RespType, OnWire
    <2> QED
      BY <2>2, <2>3 DEF TypeOK
  <1>19. CASE SenderReadDone
    <2>1. r2s' \in Seq(ReqFrames) /\ Len(r2s') = Len(r2s) - 1 /\ Len(r2s) \in Nat /\ Head(r2s) \in ReqFrames
      BY <1>19, TailFacts DEF SenderReadDone, TakeReq, ReqType
    <2>2. Frame("done", 0, sCur.k) \in RespFrames
      BY FrameMade, WireAssumption DEF SendType
    <2>3. s2r' \in Seq(RespFrames) /\ Len(s2r') = Len(s2r) + 1 /\ Len(s2r) \in Nat
      BY <1>19, <2>2, AppendFacts DEF SenderReadDone, RespType
    <2>4. SendType'
      BY <1>19, WireAssumption DEF SenderReadDone, TakeReq, SendType
    <2>5. ReqType'
      BY <1>19, <2>1, WireAssumption DEF SenderReadDone, TakeReq, ReqType
    <2>6. RespType'
      BY <1>19, <2>3, WireAssumption DEF SenderReadDone, TakeReq, RespType, OnWire
    <2>7. GenType' /\ ChanType' /\ RecvType'
      BY <1>19 DEF SenderReadDone, TakeReq, GenType, ChanType, RecvType
    <2> QED
      BY <2>4, <2>5, <2>6, <2>7 DEF TypeOK
  <1>20. CASE SenderReadReq
    <2>1. r2s' \in Seq(ReqFrames) /\ Len(r2s') = Len(r2s) - 1 /\ Len(r2s) \in Nat /\ Head(r2s) \in ReqFrames
      BY <1>20, TailFacts DEF SenderReadReq, TakeReq, ReqType
    <2>2. sCur' \in [type : {"req"}, ndx : 0..N, k : Nat]
      BY <1>20, <2>1 DEF SenderReadReq, TakeReq, ReqFrames
    <2>3. Frame("hdr", sCur'.ndx, sCur'.k) \in RespFrames
      BY <2>2, FrameMade
    <2>4. s2r' \in Seq(RespFrames) /\ Len(s2r') = Len(s2r) + 1 /\ Len(s2r) \in Nat
      BY <1>20, <2>3, AppendFacts DEF SenderReadReq, RespType
    <2>5. SendType'
      BY <1>20, <2>2, WireAssumption DEF SenderReadReq, TakeReq, SendType
    <2>6. ReqType'
      BY <1>20, <2>1, WireAssumption DEF SenderReadReq, TakeReq, ReqType
    <2>7. RespType'
      BY <1>20, <2>4, WireAssumption DEF SenderReadReq, TakeReq, RespType, OnWire
    <2>8. GenType' /\ ChanType' /\ RecvType'
      BY <1>20 DEF SenderReadReq, TakeReq, GenType, ChanType, RecvType
    <2> QED
      BY <2>5, <2>6, <2>7, <2>8 DEF TypeOK
  <1>21. CASE SenderToken
    <2>1. Frame("tok", sCur.ndx, sCur.k) \in RespFrames
      BY FrameMade DEF SendType
    <2>2. s2r' \in Seq(RespFrames) /\ Len(s2r') = Len(s2r) + 1 /\ Len(s2r) \in Nat
      BY <1>21, <2>1, AppendFacts DEF SenderToken, RespType
    <2>3. SendType'
      BY <1>21, WireAssumption DEF SenderToken, SendType
    <2>4. RespType'
      BY <1>21, <2>2, WireAssumption DEF SenderToken, RespType, OnWire
    <2>5. GenType' /\ ChanType' /\ RecvType' /\ ReqType'
      BY <1>21 DEF SenderToken, GenType, ChanType, RecvType, ReqType
    <2> QED
      BY <2>3, <2>4, <2>5 DEF TypeOK
  <1>22. CASE SenderEof
    <2>1. Frame("eof", sCur.ndx, sCur.k) \in RespFrames
      BY FrameMade DEF SendType
    <2>2. s2r' \in Seq(RespFrames) /\ Len(s2r') = Len(s2r) + 1 /\ Len(s2r) \in Nat
      BY <1>22, <2>1, AppendFacts DEF SenderEof, RespType
    <2>3. SendType'
      BY <1>22, WireAssumption DEF SenderEof, SendType
    <2>4. RespType'
      BY <1>22, <2>2, WireAssumption DEF SenderEof, RespType, OnWire
    <2>5. GenType' /\ ChanType' /\ RecvType' /\ ReqType'
      BY <1>22 DEF SenderEof, GenType, ChanType, RecvType, ReqType
    <2> QED
      BY <2>3, <2>4, <2>5 DEF TypeOK
  <1>23. CASE SenderOverflow
    <2>1. RespType'
      BY <1>23, Len(s2r) \in Nat, WireAssumption DEF SenderOverflow, RespRoom, RespType, OnWire
    <2>2. GenType' /\ ChanType' /\ RecvType' /\ SendType' /\ ReqType'
      BY <1>23 DEF SenderOverflow, GenType, ChanType, RecvType, SendType, ReqType
    <2> QED
      BY <2>1, <2>2 DEF TypeOK
  <1>24. CASE SenderFlush
    <2>1. SendType'
      BY <1>24, WireAssumption DEF SenderFlush, SendType
    <2>2. RespType'
      BY <1>24, Len(s2r) \in Nat, WireAssumption DEF SenderFlush, RespRoom, RespType, SendType, OnWire
    <2>3. GenType' /\ ChanType' /\ RecvType' /\ ReqType'
      BY <1>24 DEF SenderFlush, GenType, ChanType, RecvType, ReqType
    <2> QED
      BY <2>1, <2>2, <2>3 DEF TypeOK
  <1>25. CASE SenderDrain
    <2>1. ReqType'
      BY <1>25, Len(r2s) \in Nat, WireAssumption DEF SenderDrain, ReqType
    <2>2. GenType' /\ ChanType' /\ RecvType' /\ SendType' /\ RespType'
      BY <1>25 DEF SenderDrain, GenType, ChanType, RecvType, SendType, RespType, OnWire
    <2> QED
      BY <2>1, <2>2 DEF TypeOK
  <1>26. CASE SenderStop
    <2>1. OnWire \in 0..Len(s2r)
      BY <1>0 DEF RespType, OnWire
    <2>2. \A n \in 0..Len(s2r) :
             SubSeq(s2r, 1, n) \in Seq(RespFrames) /\ Len(SubSeq(s2r, 1, n)) = n
      BY PrefixFacts DEF RespType
    <2>3. s2r' \in Seq(RespFrames) /\ Len(s2r') = OnWire
      BY <1>26, <2>1, <2>2 DEF SenderStop
    <2>4. SendType'
      BY <1>26 DEF SenderStop, SendType
    <2>5. RespType'
      BY <1>26, <2>1, <2>3, WireAssumption DEF SenderStop, RespType, OnWire
    <2>6. GenType' /\ ChanType' /\ RecvType' /\ ReqType'
      BY <1>26 DEF SenderStop, GenType, ChanType, RecvType, ReqType
    <2> QED
      BY <2>4, <2>5, <2>6 DEF TypeOK
  <1>27. CASE UNCHANGED vars
    BY <1>27 DEF vars, TypeOK, GenType, ChanType, RecvType, SendType, ReqType, RespType, OnWire
  <1> QED
    BY <1>1, <1>2, <1>3, <1>4, <1>5, <1>6, <1>7, <1>8, <1>9, <1>10, <1>11, <1>12, <1>13, <1>14, <1>15, <1>16, <1>17, <1>18, <1>19, <1>20, <1>21, <1>22, <1>23, <1>24, <1>25, <1>26, <1>27 DEF Next, GenNext, RecvNext, SendNext

\* The type invariant holds of every execution.
THEOREM TypeCorrect == Spec => []TypeOK
  <1>1. Init => TypeOK
    BY TypeInit
  <1>2. TypeOK /\ [Next]_vars => TypeOK'
    BY TypeStep
  <1> QED
    BY <1>1, <1>2, PTL DEF Spec

-----------------------------------------------------------------------------
\* Queues, their elements, ends and chains.

\* A write to the end of a queue.
LEMMA AppendQueue ==
    ASSUME NEW S, NEW q \in Seq(S), NEW e \in S
    PROVE  /\ Len(Append(q, e)) = Len(q) + 1
           /\ \A i \in 1..Len(Append(q, e)) :
                 Append(q, e)[i] = e \/ \E j \in 1..Len(q) : Append(q, e)[i] = q[j]
           /\ Append(q, e)[Len(Append(q, e))] = e
           /\ Append(q, e)[1] = IF Len(q) = 0 THEN e ELSE q[1]
  <1>1. Len(q) \in Nat /\ 1..Len(Append(q, e)) = 1..Len(q) \cup {Len(q) + 1}
    BY AppendFacts
  <1> QED
    BY <1>1, AppendFacts

\* A read from the front of a queue.
LEMMA TailQueue ==
    ASSUME NEW S, NEW q \in Seq(S), q # <<>>
    PROVE  /\ Head(q) = q[1]
           /\ Len(q) >= 1 /\ Len(Tail(q)) = Len(q) - 1
           /\ \A i \in 1..Len(Tail(q)) : \E j \in 1..Len(q) : Tail(q)[i] = q[j]
           /\ Len(q) > 1 => Tail(q)[1] = q[2] /\ Tail(q)[Len(q) - 1] = q[Len(q)]
  <1>1. Len(q) \in Nat /\ \A i \in 1..(Len(q) - 1) : i + 1 \in 1..Len(q)
    OBVIOUS
  <1>2. Len(q) > 1 => 1 \in 1..(Len(q) - 1) /\ Len(q) - 1 \in 1..(Len(q) - 1)
    BY <1>1
  <1> QED
    BY <1>1, <1>2, TailFacts

\* The chain of the channel.
LEMMA ItemChainAppend ==
    ASSUME NEW q \in Seq(Items), NEW e \in Items, ItemChain(q),
           Len(q) > 0 => e.k = q[Len(q)].k + ItemStep(e)
    PROVE  ItemChain(Append(q, e))
  <1> DEFINE r == Append(q, e)
  <1>1. /\ Len(q) \in Nat /\ Len(r) = Len(q) + 1 /\ r[Len(q) + 1] = e
        /\ \A i \in 1..Len(q) : r[i] = q[i] /\ q[i].k \in Nat
    BY AppendFacts, ItemFields
  <1>2. e.k \in Nat
    BY ItemFields
  <1> HIDE DEF r
  <1>3. ASSUME NEW i \in 1..(Len(r) - 1) PROVE r[i + 1].k = r[i].k + ItemStep(r[i + 1])
    <2>1. CASE i = Len(q)
      BY <1>1, <2>1
    <2>2. CASE i \in 1..(Len(q) - 1)
      <3>1. r[i] = q[i] /\ r[i + 1] = q[i + 1]
        BY <1>1, <2>2
      <3> QED
        BY <2>2, <3>1 DEF ItemChain
    <2> QED
      BY <1>1, <2>1, <2>2
  <1>4. ASSUME NEW i \in 1..Len(r), NEW j \in 1..Len(r), i <= j
        PROVE  r[j].k <= r[i].k + (j - i)
    <2>1. CASE j \in 1..Len(q)
      <3>1. i \in 1..Len(q) /\ r[i] = q[i] /\ r[j] = q[j]
        BY <1>1, <1>4, <2>1
      <3> QED
        BY <1>4, <2>1, <3>1 DEF ItemChain
    <2>2. CASE j = Len(q) + 1 /\ i = j
      BY <1>1, <1>2, <2>2
    <2>3. CASE j = Len(q) + 1 /\ i \in 1..Len(q)
      <3>1. q[Len(q)].k <= q[i].k + (Len(q) - i)
        BY <1>1, <2>3 DEF ItemChain
      <3>2. e.k <= q[Len(q)].k + 1
        BY <1>1, <2>3 DEF ItemStep
      <3>3. r[j] = e /\ r[i] = q[i] /\ q[i].k \in Nat /\ q[Len(q)].k \in Nat
        BY <1>1, <2>3
      <3>4. \A a, b, c, m, n \in Int :
               a <= b + 1 /\ b <= c + (m - n) => a <= c + ((m + 1) - n)
        OBVIOUS
      <3>5. e.k \in Int /\ q[Len(q)].k \in Int /\ q[i].k \in Int /\ Len(q) \in Int /\ i \in Int
        BY <1>1, <1>2, <3>3
      <3>6. e.k <= q[i].k + ((Len(q) + 1) - i)
        BY <3>1, <3>2, <3>4, <3>5, Zenon
      <3> QED
        BY <2>3, <3>3, <3>6
    <2> QED
      BY <1>1, <1>4, <2>1, <2>2, <2>3
  <1> QED
    BY <1>3, <1>4, Zenon DEF ItemChain, r

\* A read from the channel keeps the chain and moves its start to the item read.
LEMMA ItemChainTail ==
    ASSUME NEW q \in Seq(Items), q # <<>>, ItemChain(q)
    PROVE  /\ ItemChain(Tail(q))
           /\ Len(q) > 1 => q[2].k = q[1].k + ItemStep(q[2])
  <1> DEFINE r == Tail(q)
  <1>1. /\ Len(q) \in Nat /\ Len(q) >= 1 /\ Len(r) = Len(q) - 1
        /\ \A i \in 1..Len(r) : r[i] = q[i + 1]
        /\ \A i \in 1..Len(q) : q[i].k \in Nat
    BY TailFacts, ItemFields
  <1> HIDE DEF r
  <1>2. ASSUME NEW i \in 1..(Len(r) - 1) PROVE r[i + 1].k = r[i].k + ItemStep(r[i + 1])
    <2>1. i + 1 \in 1..(Len(q) - 1) /\ r[i] = q[i + 1] /\ r[i + 1] = q[(i + 1) + 1]
      BY <1>1
    <2> QED
      BY <2>1 DEF ItemChain
  <1>3. ASSUME NEW i \in 1..Len(r), NEW j \in 1..Len(r), i <= j
        PROVE  r[j].k <= r[i].k + (j - i)
    <2>1. /\ i + 1 \in 1..Len(q) /\ j + 1 \in 1..Len(q) /\ i + 1 <= j + 1
          /\ (j + 1) - (i + 1) = j - i
          /\ r[i] = q[i + 1] /\ r[j] = q[j + 1]
      BY <1>1, <1>3
    <2>2. q[j + 1].k <= q[i + 1].k + ((j + 1) - (i + 1))
      BY <2>1 DEF ItemChain
    <2> QED
      BY <2>1, <2>2
  <1>4. Len(q) > 1 => q[2].k = q[1].k + ItemStep(q[2])
    <2> HAVE Len(q) > 1
    <2>1. 1 \in 1..(Len(q) - 1) /\ 1 + 1 = 2
      BY <1>1
    <2> QED
      BY <2>1 DEF ItemChain
  <1> QED
    BY <1>2, <1>3, <1>4, Zenon DEF ItemChain, r

\* The chain of the frames to the sender.
LEMMA ReqChainAppend ==
    ASSUME NEW q \in Seq(ReqFrames), NEW e \in ReqFrames, ReqChain(q),
           Len(q) > 0 => e.k = q[Len(q)].k + ReqStep(e)
    PROVE  ReqChain(Append(q, e))
  <1> DEFINE r == Append(q, e)
  <1>1. /\ Len(q) \in Nat /\ Len(r) = Len(q) + 1 /\ r[Len(q) + 1] = e
        /\ \A i \in 1..Len(q) : r[i] = q[i]
    BY AppendFacts
  <1> HIDE DEF r
  <1>2. ASSUME NEW i \in 1..(Len(r) - 1) PROVE r[i + 1].k = r[i].k + ReqStep(r[i + 1])
    <2>1. CASE i = Len(q)
      BY <1>1, <2>1
    <2>2. CASE i \in 1..(Len(q) - 1)
      BY <1>1, <2>2 DEF ReqChain
    <2> QED
      BY <1>1, <2>1, <2>2
  <1> QED
    BY <1>2 DEF ReqChain, r

\* A read by the sender keeps the chain and moves its start to the frame read.
LEMMA ReqChainTail ==
    ASSUME NEW q \in Seq(ReqFrames), q # <<>>, ReqChain(q)
    PROVE  /\ ReqChain(Tail(q))
           /\ Len(q) > 1 => q[2].k = q[1].k + ReqStep(q[2])
  <1> DEFINE r == Tail(q)
  <1>1. /\ Len(q) \in Nat /\ Len(q) >= 1 /\ Len(r) = Len(q) - 1
        /\ \A i \in 1..Len(r) : r[i] = q[i + 1]
    BY TailFacts
  <1> HIDE DEF r
  <1>2. ASSUME NEW i \in 1..(Len(r) - 1) PROVE r[i + 1].k = r[i].k + ReqStep(r[i + 1])
    <2>1. i + 1 \in 1..(Len(q) - 1) /\ r[i] = q[i + 1] /\ r[i + 1] = q[(i + 1) + 1]
      BY <1>1
    <2> QED
      BY <2>1 DEF ReqChain
  <1>3. Len(q) > 1 => q[2].k = q[1].k + ReqStep(q[2])
    <2> HAVE Len(q) > 1
    <2>1. 1 \in 1..(Len(q) - 1) /\ 1 + 1 = 2
      BY <1>1
    <2> QED
      BY <2>1 DEF ReqChain
  <1> QED
    BY <1>2, <1>3 DEF ReqChain, r

\* The chain of the frames to the receiver.
LEMMA RespChainAppend ==
    ASSUME NEW q \in Seq(RespFrames), NEW e \in RespFrames, RespChain(q),
           Len(q) > 0 => Follows(q[Len(q)], e)
    PROVE  RespChain(Append(q, e))
  <1> DEFINE r == Append(q, e)
  <1>1. /\ Len(q) \in Nat /\ Len(r) = Len(q) + 1 /\ r[Len(q) + 1] = e
        /\ \A i \in 1..Len(q) : r[i] = q[i]
    BY AppendFacts
  <1> HIDE DEF r
  <1>2. ASSUME NEW i \in 1..(Len(r) - 1) PROVE Follows(r[i], r[i + 1])
    <2>1. CASE i = Len(q)
      BY <1>1, <2>1
    <2>2. CASE i \in 1..(Len(q) - 1)
      BY <1>1, <2>2 DEF RespChain
    <2> QED
      BY <1>1, <2>1, <2>2
  <1> QED
    BY <1>2 DEF RespChain, r

\* A read by the receiver keeps the chain.
LEMMA RespChainTail ==
    ASSUME NEW q \in Seq(RespFrames), q # <<>>, RespChain(q)
    PROVE  /\ RespChain(Tail(q))
           /\ Len(q) > 1 => Follows(q[1], q[2])
  <1> DEFINE r == Tail(q)
  <1>1. /\ Len(q) \in Nat /\ Len(q) >= 1 /\ Len(r) = Len(q) - 1
        /\ \A i \in 1..Len(r) : r[i] = q[i + 1]
    BY TailFacts
  <1> HIDE DEF r
  <1>2. ASSUME NEW i \in 1..(Len(r) - 1) PROVE Follows(r[i], r[i + 1])
    <2>1. i + 1 \in 1..(Len(q) - 1) /\ r[i] = q[i + 1] /\ r[i + 1] = q[(i + 1) + 1]
      BY <1>1
    <2> QED
      BY <2>1 DEF RespChain
  <1>3. Len(q) > 1 => Follows(q[1], q[2])
    <2> HAVE Len(q) > 1
    <2>1. 1 \in 1..(Len(q) - 1) /\ 1 + 1 = 2
      BY <1>1
    <2> QED
      BY <2>1 DEF RespChain
  <1> QED
    BY <1>2, <1>3 DEF RespChain, r

\* Losing the end of the frames to the receiver keeps the chain.
LEMMA RespChainPrefix ==
    ASSUME NEW q \in Seq(RespFrames), NEW n \in 0..Len(q), RespChain(q)
    PROVE  RespChain(SubSeq(q, 1, n))
  <1> DEFINE r == SubSeq(q, 1, n)
  <1>1. /\ Len(q) \in Nat /\ n \in Nat /\ n <= Len(q)
        /\ Len(r) = n /\ \A i \in 1..n : r[i] = q[i]
    BY PrefixFacts
  <1> HIDE DEF r
  <1>2. ASSUME NEW i \in 1..(Len(r) - 1) PROVE Follows(r[i], r[i + 1])
    <2>1. i \in 1..(Len(q) - 1) /\ r[i] = q[i] /\ r[i + 1] = q[i + 1]
      BY <1>1
    <2> QED
      BY <2>1 DEF RespChain
  <1> QED
    BY <1>2 DEF RespChain, r

\* A longer log of requests says no less about the requests in it.
LEMMA AboutGrows ==
    ASSUME NEW log \in Seq(Entries), NEW e \in Entries, NEW k, NEW ndx, About(k, ndx, log)
    PROVE  About(k, ndx, Append(log, e))
  BY AppendFacts DEF About

-----------------------------------------------------------------------------
\* The order of the queues.

\* The numbers the invariant is about are natural numbers.
LEMMA Numbers ==
    ASSUME TypeOK
    PROVE  /\ Len(chan) \in Nat /\ Len(r2s) \in Nat /\ Len(s2r) \in Nat
           /\ Len(reqs) \in Nat /\ Len(written) \in Nat
           /\ gItem.k \in Nat /\ rItem.k \in Nat /\ sCur.k \in Nat
  <1>1. Len(chan) \in Nat
    BY DEF TypeOK, ChanType
  <1>2. Len(r2s) \in Nat
    BY DEF TypeOK, ReqType
  <1>3. Len(s2r) \in Nat
    BY DEF TypeOK, RespType
  <1>4. Len(reqs) \in Nat /\ gItem.k \in Nat
    BY ItemFields DEF TypeOK, GenType
  <1>5. Len(written) \in Nat /\ rItem.k \in Nat
    BY ItemFields DEF TypeOK, RecvType
  <1>6. sCur.k \in Nat
    BY DEF TypeOK, SendType
  <1> QED
    BY <1>1, <1>2, <1>3, <1>4, <1>5, <1>6

\* The queues are empty and nothing is numbered at the start.
LEMMA OrderInit == Init => QueueOrder
  BY DEF Init, QueueOrder, GenInv, ChanItems, ChanOrder, ItemChain, ChanEnd, LastItemK,
     RecvInv, AllReceived, ReqItems, ReqOrder, ReqChain, ReqEnd, LastReqK,
     RespItems, RespOrder, RespChain, RespHead, RespEnd, RespNone, NoItem, Item, Frame

-----------------------------------------------------------------------------
\* The queues stay in the order of the requests.

\* The receiver keeps the queues in order.
LEMMA RecvOrder == TypeOK /\ QueueOrder /\ (RecvNext \/ RecvFault) => QueueOrder'
  <1> SUFFICES ASSUME TypeOK, QueueOrder, (RecvNext \/ RecvFault) PROVE QueueOrder'
    OBVIOUS
  <1> USE DEF TypeOK, QueueOrder, genVars, recvVars, sendVars
  <1>0. /\ Len(chan) \in Nat /\ Len(r2s) \in Nat /\ Len(s2r) \in Nat
        /\ Len(reqs) \in Nat /\ Len(written) \in Nat
        /\ gItem.k \in Nat /\ rItem.k \in Nat /\ sCur.k \in Nat
    BY Numbers
  <1>1. CASE RecvItem
    <2>1. chan # <<>> /\ chan' = Tail(chan)
      BY <1>1 DEF RecvItem
    <2>2. /\ Len(chan) >= 1 /\ Len(chan') = Len(chan) - 1 /\ Head(chan) = chan[1]
          /\ \A i \in 1..Len(chan') : \E j \in 1..Len(chan) : chan'[i] = chan[j]
          /\ Len(chan) > 1 => chan'[1] = chan[2] /\ chan'[Len(chan')] = chan[Len(chan)]
          /\ Len(chan) = 1 => chan[Len(chan)] = chan[1]
      BY <2>1, TailQueue DEF ChanType
    <2>2e. /\ Len(chan) >= 1 /\ Len(chan') = Len(chan) - 1 /\ Head(chan) = chan[1]
           /\ Len(chan) > 1 => chan'[1] = chan[2] /\ chan'[Len(chan')] = chan[Len(chan)]
           /\ Len(chan) = 1 => chan[Len(chan)] = chan[1]
      BY <2>2
    <2>3. /\ pcR = "item" /\ rItem' = chan[1]
          /\ \/ rItem'.type = "transfer" /\ pcR' = "hdr"
             \/ rItem'.type = "done" /\ pcR' = "join"
             \/ rItem'.type \notin {"transfer", "done"} /\ pcR' = "item"
          /\ UNCHANGED <<pcG, gItem, written, pcS, sCur, r2s, s2r, reqs>>
      BY <1>1, <2>2e DEF RecvItem
    <2>4. /\ ItemChain(chan')
          /\ Len(chan) > 1 => chan[2].k = chan[1].k + ItemStep(chan[2])
      BY <2>1, ItemChainTail DEF ChanOrder, ChanType
    <2>5. /\ chan[1].k = rItem.k + ItemStep(chan[1])
          /\ ItemOK(chan[1], reqs, GenGone)
      BY <1>0, <2>2 DEF ChanOrder, ChanItems
    <2>6. \A j \in 1..Len(chan) : ItemOK(chan[j], reqs', GenGone')
      BY <2>3 DEF ChanItems, GenGone
    <2>7. ChanItems'
      BY <2>2, <2>6 DEF ChanItems
    <2>8. ChanOrder'
      BY <1>0, <2>3, <2>2e, <2>4 DEF ChanOrder
    <2>9. LastItemK' = LastItemK
      BY <1>0, <2>3, <2>2e DEF LastItemK
    <2>10. ChanEnd'
      BY <1>0, <2>3, <2>9 DEF ChanEnd
    <2>11. RecvInv'
      BY <1>0, <2>3, <2>5 DEF RecvInv, ItemOK, ItemStep, GenGone
    <2>12. AllReceived'
      BY <1>0, <2>3 DEF AllReceived
    <2>13. ReqItems'
      BY <1>0, <2>3 DEF ReqItems, InPhase, ReqOK
    <2>14. RespItems'
      BY <1>0, <2>3 DEF RespItems, InPhase, RespOK
    <2>15. RespHead'
      BY <1>0, <2>3 DEF RespHead
    <2>16. RespNone'
      BY <1>0, <2>3 DEF RespNone
    <2>17. GenInv'
      BY <2>3 DEF GenInv
    <2>18. ReqOrder' /\ ReqEnd'
      BY <2>3 DEF ReqOrder, ReqEnd, LastReqK
    <2>19. RespOrder' /\ RespEnd'
      BY <2>3 DEF RespOrder, RespEnd
    <2> QED
      BY <2>7, <2>8, <2>10, <2>11, <2>12, <2>13, <2>14, <2>15, <2>16, <2>17, <2>18, <2>19
  <1>2. CASE RecvClosed
    <2>1. /\ pcR = "item" /\ Len(chan) = 0 /\ pcG \in {"exited", "failed"} /\ pcR' = "join"
          /\ UNCHANGED <<pcG, gItem, chan, rItem, written, pcS, sCur, r2s, s2r, reqs>>
      BY <1>2 DEF RecvClosed
    <2>2. ChanEnd'
      BY <1>0, <2>1 DEF ChanEnd, LastItemK, ItemStep
    <2>3. RecvInv'
      BY <1>0, <2>1 DEF RecvInv, ChanEnd, LastItemK
    <2>4. AllReceived'
      BY <1>0, <2>1 DEF AllReceived
    <2>5. ReqItems'
      BY <1>0, <2>1 DEF ReqItems, InPhase, ReqOK
    <2>6. RespItems'
      BY <1>0, <2>1 DEF RespItems, InPhase, RespOK
    <2>7. RespHead'
      BY <1>0, <2>1 DEF RespHead
    <2>8. RespNone'
      BY <1>0, <2>1 DEF RespNone
    <2>9. GenInv' /\ ChanItems' /\ ChanOrder'
      BY <2>1 DEF GenInv, ChanItems, ChanOrder, GenGone
    <2>10. ReqOrder' /\ ReqEnd'
      BY <2>1 DEF ReqOrder, ReqEnd, LastReqK
    <2>11. RespOrder' /\ RespEnd'
      BY <2>1 DEF RespOrder, RespEnd
    <2> QED
      BY <2>2, <2>3, <2>4, <2>5, <2>6, <2>7, <2>8, <2>9, <2>10, <2>11
  <1>3. CASE RecvHdr
    <2>1. s2r # <<>>
      BY <1>3 DEF RecvHdr, RespType, OnWire
    <2>2. s2r # <<>> /\ s2r' = Tail(s2r)
      BY <1>3, <2>1 DEF RecvHdr
    <2>3. /\ Len(s2r) >= 1 /\ Len(s2r') = Len(s2r) - 1 /\ Head(s2r) = s2r[1]
          /\ \A i \in 1..Len(s2r') : \E j \in 1..Len(s2r) : s2r'[i] = s2r[j]
          /\ Len(s2r) > 1 => s2r'[1] = s2r[2] /\ s2r'[Len(s2r')] = s2r[Len(s2r)]
          /\ Len(s2r) = 1 => s2r[Len(s2r)] = s2r[1]
      BY <2>2, TailQueue DEF RespType
    <2>3e. /\ Len(s2r) >= 1 /\ Len(s2r') = Len(s2r) - 1 /\ Head(s2r) = s2r[1]
           /\ Len(s2r) > 1 => s2r'[1] = s2r[2] /\ s2r'[Len(s2r')] = s2r[Len(s2r)]
           /\ Len(s2r) = 1 => s2r[Len(s2r)] = s2r[1]
      BY <2>3
    <2>4. /\ pcR = "hdr" /\ pcR' = "body"
          /\ UNCHANGED <<pcG, gItem, chan, rItem, written, pcS, sCur, r2s, reqs>>
      BY <1>3 DEF RecvHdr
    <2>5. /\ RespChain(s2r')
          /\ Len(s2r) > 1 => Follows(s2r[1], s2r[2])
      BY <2>2, RespChainTail DEF RespOrder, RespType
    <2>6. ChanEnd'
      BY <1>0, <2>4 DEF ChanEnd, LastItemK, ItemStep
    <2>7. RecvInv'
      BY <1>0, <2>4 DEF RecvInv
    <2>8. AllReceived'
      BY <1>0, <2>4 DEF AllReceived
    <2>9. ReqItems'
      BY <1>0, <2>4 DEF ReqItems, InPhase, ReqOK
    <2>10. \A j \in 1..Len(s2r) : RespOK(s2r[j], reqs', InPhase')
      BY <1>0, <2>4 DEF RespItems, RespOK, InPhase
    <2>11. RespItems'
      BY <2>3, <2>10 DEF RespItems
    <2>12. RespOrder'
      BY <2>5 DEF RespOrder
    <2>13. s2r[1].type = "hdr" /\ s2r[1].k = Len(written) + 1
      BY <1>0, <2>4, <2>3e DEF RespHead, RespItems, RespOK, InPhase
    <2>14. RespHead'
      <3>1. ASSUME Len(s2r') > 0
            PROVE  s2r'[1].type \in {"tok", "eof"} /\ s2r'[1].k = s2r[1].k
        <4>1. s2r'[1] = s2r[2] /\ Follows(s2r[1], s2r[2])
          BY <1>0, <2>3e, <2>5, <3>1
        <4> QED
          BY <2>13, <4>1 DEF Follows
      <3> QED
        BY <2>4, <2>13, <3>1 DEF RespHead
    <2>15. RespEnd'
      BY <1>0, <2>4, <2>3e DEF RespEnd
    <2>16. RespNone'
      BY <1>0, <2>4, <2>3e, <2>13 DEF RespNone, RespEnd
    <2>17. GenInv' /\ ChanItems' /\ ChanOrder'
      BY <2>4 DEF GenInv, ChanItems, ChanOrder, GenGone
    <2>18. ReqOrder' /\ ReqEnd'
      BY <2>4 DEF ReqOrder, ReqEnd, LastReqK
    <2> QED
      BY <2>6, <2>7, <2>8, <2>9, <2>11, <2>12, <2>14, <2>15, <2>16, <2>17, <2>18
  <1>4. CASE RecvBody
    <2>1. s2r # <<>>
      BY <1>4 DEF RecvBody, RespType, OnWire
    <2>2. s2r # <<>> /\ s2r' = Tail(s2r)
      BY <1>4, <2>1 DEF RecvBody
    <2>3. /\ Len(s2r) >= 1 /\ Len(s2r') = Len(s2r) - 1 /\ Head(s2r) = s2r[1]
          /\ \A i \in 1..Len(s2r') : \E j \in 1..Len(s2r) : s2r'[i] = s2r[j]
          /\ Len(s2r) > 1 => s2r'[1] = s2r[2] /\ s2r'[Len(s2r')] = s2r[Len(s2r)]
          /\ Len(s2r) = 1 => s2r[Len(s2r)] = s2r[1]
      BY <2>2, TailQueue DEF RespType
    <2>3e. /\ Len(s2r) >= 1 /\ Len(s2r') = Len(s2r) - 1 /\ Head(s2r) = s2r[1]
           /\ Len(s2r) > 1 => s2r'[1] = s2r[2] /\ s2r'[Len(s2r')] = s2r[Len(s2r)]
           /\ Len(s2r) = 1 => s2r[Len(s2r)] = s2r[1]
      BY <2>3
    <2>4. /\ pcR = "body"
          /\ \/ s2r[1].type = "eof" /\ pcR' = "item"
             \/ s2r[1].type # "eof" /\ pcR' = "body" /\ written' = written
          /\ UNCHANGED <<pcG, gItem, chan, rItem, pcS, sCur, r2s, reqs>>
      BY <1>4, <2>3e DEF RecvBody
    <2>5. /\ RespChain(s2r')
          /\ Len(s2r) > 1 => Follows(s2r[1], s2r[2])
      BY <2>2, RespChainTail DEF RespOrder, RespType
    <2>6. rItem.idx \in Entries
      BY <2>4, ItemFields DEF RecvType
    <2>7. s2r[1].type = "eof" =>
             /\ Len(written') = Len(written) + 1 /\ written'[Len(written) + 1] = rItem.idx
             /\ \A i \in 1..Len(written) : written'[i] = written[i]
      <3>1. written \in Seq(Entries)
        BY DEF RecvType
      <3>2. s2r[1].type = "eof" => written' = Append(written, rItem.idx)
        BY <1>4, <2>3e DEF RecvBody
      <3>3. /\ Len(Append(written, rItem.idx)) = Len(written) + 1
            /\ \A i \in 1..Len(written) : Append(written, rItem.idx)[i] = written[i]
            /\ Append(written, rItem.idx)[Len(written) + 1] = rItem.idx
        BY <2>6, <3>1, AppendFacts
      <3> QED
        BY <3>2, <3>3
    <2>8. s2r[1].type \in {"tok", "eof"} /\ s2r[1].k = Len(written) + 1
      BY <1>0, <2>4, <2>3e DEF RespHead
    <2>9. ChanEnd'
      BY <1>0, <2>4 DEF ChanEnd, LastItemK, ItemStep
    <2>10. RecvInv'
      BY <1>0, <2>4, <2>7 DEF RecvInv
    <2>11. s2r[1].type = "eof" => \A i \in 1..Len(written') : written'[i] = reqs[i]
      BY <1>0, <2>4, <2>7 DEF AllReceived, RecvInv, About
    <2>12. AllReceived'
      BY <1>0, <2>4, <2>7, <2>11 DEF AllReceived, RecvInv, About
    <2>13. ReqItems'
      BY <1>0, <2>4 DEF ReqItems, InPhase, ReqOK
    <2>14. \A j \in 1..Len(s2r) : RespOK(s2r[j], reqs', InPhase')
      BY <1>0, <2>4 DEF RespItems, RespOK, InPhase
    <2>15. RespItems'
      BY <2>3, <2>14 DEF RespItems
    <2>16. RespOrder'
      BY <2>5 DEF RespOrder
    <2>17. RespHead'
      <3>1. ASSUME Len(s2r') > 0 PROVE s2r'[1] = s2r[2] /\ Follows(s2r[1], s2r[2])
        BY <1>0, <2>3e, <2>5, <3>1
      <3>2. CASE s2r[1].type = "eof"
        <4>1. pcR' = "item" /\ Len(written') = s2r[1].k
          BY <2>4, <2>7, <2>8, <3>2
        <4>2. ASSUME Len(s2r') > 0
              PROVE  \/ s2r'[1].type = "hdr" /\ s2r'[1].k = s2r[1].k + 1
                     \/ s2r'[1].type = "done" /\ s2r'[1].k = s2r[1].k
          BY <3>1, <3>2, <4>2 DEF Follows
        <4> QED
          BY <4>1, <4>2 DEF RespHead
      <3>3. CASE s2r[1].type = "tok"
        <4>1. pcR' = "body" /\ written' = written
          BY <2>4, <3>3
        <4>2. ASSUME Len(s2r') > 0
              PROVE  s2r'[1].type \in {"tok", "eof"} /\ s2r'[1].k = s2r[1].k
          BY <3>1, <3>3, <4>2 DEF Follows
        <4> QED
          BY <2>8, <4>1, <4>2 DEF RespHead
      <3> QED
        BY <2>8, <3>2, <3>3
    <2>18. RespEnd'
      BY <1>0, <2>4, <2>3e DEF RespEnd
    <2>19. RespNone'
      <3>1. ASSUME Len(s2r') = 0, pcS # "failed"
            PROVE  /\ s2r[1].k = sCur.k
                   /\ s2r[1].type \in IF pcS = "body" THEN {"hdr", "tok"} ELSE {"eof", "done"}
        BY <1>0, <2>3e, <3>1 DEF RespEnd
      <3>2. CASE s2r[1].type = "eof"
        <4>1. pcR' = "item" /\ Len(written') = s2r[1].k /\ pcS' = pcS /\ sCur' = sCur
          BY <2>4, <2>7, <2>8, <3>2
        <4> QED
          BY <3>1, <3>2, <4>1 DEF RespNone
      <3>3. CASE s2r[1].type = "tok"
        <4>1. pcR' = "body" /\ s2r[1].k = Len(written') + 1 /\ pcS' = pcS /\ sCur' = sCur
          BY <2>4, <2>8, <3>3
        <4> QED
          BY <3>1, <3>3, <4>1 DEF RespNone
      <3> QED
        BY <2>8, <3>2, <3>3
    <2>20. GenInv' /\ ChanItems' /\ ChanOrder'
      BY <2>4 DEF GenInv, ChanItems, ChanOrder, GenGone
    <2>21. ReqOrder' /\ ReqEnd'
      BY <2>4 DEF ReqOrder, ReqEnd, LastReqK
    <2> QED
      BY <2>9, <2>10, <2>12, <2>13, <2>15, <2>16, <2>17, <2>18, <2>19, <2>20, <2>21
  <1>5. CASE RecvFault
    <2>1. /\ pcR = "body" /\ pcR' = "failed"
          /\ UNCHANGED <<pcG, gItem, chan, rItem, written, pcS, sCur, r2s, s2r, reqs>>
      BY <1>5 DEF RecvFault
    <2>2. ChanEnd'
      BY <1>0, <2>1 DEF ChanEnd, LastItemK, ItemStep
    <2>3. RecvInv'
      BY <1>0, <2>1 DEF RecvInv
    <2>4. AllReceived'
      BY <1>0, <2>1 DEF AllReceived
    <2>5. ReqItems'
      BY <1>0, <2>1 DEF ReqItems, InPhase, ReqOK
    <2>6. RespItems'
      BY <1>0, <2>1 DEF RespItems, InPhase, RespOK
    <2>7. RespHead'
      BY <1>0, <2>1 DEF RespHead
    <2>8. RespNone'
      BY <1>0, <2>1 DEF RespNone
    <2>9. GenInv' /\ ChanItems' /\ ChanOrder'
      BY <2>1 DEF GenInv, ChanItems, ChanOrder, GenGone
    <2>10. ReqOrder' /\ ReqEnd'
      BY <2>1 DEF ReqOrder, ReqEnd, LastReqK
    <2>11. RespOrder' /\ RespEnd'
      BY <2>1 DEF RespOrder, RespEnd
    <2> QED
      BY <2>2, <2>3, <2>4, <2>5, <2>6, <2>7, <2>8, <2>9, <2>10, <2>11
  <1>6. CASE RecvEof
    <2>1. /\ pcR \in {"hdr", "body", "phase_read"} /\ pcR' = "failed"
          /\ UNCHANGED <<pcG, gItem, chan, rItem, written, pcS, sCur, r2s, s2r, reqs>>
      BY <1>6 DEF RecvEof
    <2>2. ChanEnd'
      BY <1>0, <2>1 DEF ChanEnd, LastItemK, ItemStep
    <2>3. RecvInv'
      BY <1>0, <2>1 DEF RecvInv
    <2>4. AllReceived'
      BY <1>0, <2>1 DEF AllReceived
    <2>5. ReqItems'
      BY <1>0, <2>1 DEF ReqItems, InPhase, ReqOK
    <2>6. RespItems'
      BY <1>0, <2>1 DEF RespItems, InPhase, RespOK
    <2>7. RespHead'
      BY <1>0, <2>1 DEF RespHead
    <2>8. RespNone'
      BY <1>0, <2>1 DEF RespNone
    <2>9. GenInv' /\ ChanItems' /\ ChanOrder'
      BY <2>1 DEF GenInv, ChanItems, ChanOrder, GenGone
    <2>10. ReqOrder' /\ ReqEnd'
      BY <2>1 DEF ReqOrder, ReqEnd, LastReqK
    <2>11. RespOrder' /\ RespEnd'
      BY <2>1 DEF RespOrder, RespEnd
    <2> QED
      BY <2>2, <2>3, <2>4, <2>5, <2>6, <2>7, <2>8, <2>9, <2>10, <2>11
  <1>7. CASE RecvJoin
    <2>1. /\ pcR = "join"
          /\ (pcG = "exited" /\ pcR' = "phase") \/ (pcG = "failed" /\ pcR' = "failed")
          /\ UNCHANGED <<pcG, gItem, chan, rItem, written, pcS, sCur, r2s, s2r, reqs>>
      BY <1>7 DEF RecvJoin
    <2>2. ChanEnd'
      BY <1>0, <2>1 DEF ChanEnd, LastItemK, ItemStep
    <2>3. RecvInv'
      BY <1>0, <2>1 DEF RecvInv
    <2>4. AllReceived'
      BY <1>0, <2>1 DEF AllReceived, RecvInv
    <2>5. ReqItems'
      BY <1>0, <2>1 DEF ReqItems, InPhase, ReqOK
    <2>6. RespItems'
      BY <1>0, <2>1 DEF RespItems, InPhase, RespOK
    <2>7. RespHead'
      BY <1>0, <2>1 DEF RespHead
    <2>8. RespNone'
      BY <1>0, <2>1 DEF RespNone
    <2>9. GenInv' /\ ChanItems' /\ ChanOrder'
      BY <2>1 DEF GenInv, ChanItems, ChanOrder, GenGone
    <2>10. ReqOrder' /\ ReqEnd'
      BY <2>1 DEF ReqOrder, ReqEnd, LastReqK
    <2>11. RespOrder' /\ RespEnd'
      BY <2>1 DEF RespOrder, RespEnd
    <2> QED
      BY <2>2, <2>3, <2>4, <2>5, <2>6, <2>7, <2>8, <2>9, <2>10, <2>11
  <1>8. CASE RecvAck
    <2> DEFINE e == Frame("success", written[acked + 1], Len(reqs))
    <2>1. acked + 1 \in 1..Len(written)
      BY <1>8, <1>0 DEF RecvAck, RecvType
    <2>2. written[acked + 1] \in 0..N
      BY <2>1, WireAssumption DEF RecvType, Entries
    <2>3. e \in ReqFrames /\ e.type = "success" /\ e.k = Len(reqs)
      BY <1>0, <2>2, FrameMade, Zenon DEF Frame
    <2>4. r2s' = Append(r2s, e)
      BY <1>8 DEF RecvAck
    <2> HIDE DEF e
    <2>5. /\ Len(r2s') = Len(r2s) + 1
          /\ \A i \in 1..Len(r2s') : r2s'[i] = e \/ \E j \in 1..Len(r2s) : r2s'[i] = r2s[j]
          /\ r2s'[Len(r2s')] = e /\ r2s'[1] = IF Len(r2s) = 0 THEN e ELSE r2s[1]
      BY <2>3, <2>4, AppendQueue DEF ReqType
    <2>5e. /\ Len(r2s') = Len(r2s) + 1
           /\ r2s'[Len(r2s')] = e /\ r2s'[1] = IF Len(r2s) = 0 THEN e ELSE r2s[1]
      BY <2>5
    <2>6. /\ pcR = "phase"
          /\ UNCHANGED <<pcG, gItem, chan, pcR, rItem, written, pcS, sCur, s2r, reqs>>
      BY <1>8 DEF RecvAck
    <2>7. \A j \in 1..Len(r2s) : ReqOK(r2s[j], reqs', InPhase')
      BY <2>6 DEF ReqItems, InPhase
    <2>8. ReqOK(e, reqs', InPhase')
      BY <2>3 DEF ReqOK
    <2>9. ReqItems'
      BY <2>5, <2>7, <2>8 DEF ReqItems
    <2>10. Len(r2s) > 0 => e.k = r2s[Len(r2s)].k + ReqStep(e)
      BY <1>0, <2>3 DEF ReqEnd, LastReqK, ReqStep
    <2>11. ReqChain(r2s')
      BY <2>3, <2>4, <2>10, ReqChainAppend DEF ReqOrder, ReqType
    <2>12. ReqOrder'
      BY <1>0, <2>6, <2>3, <2>5e, <2>11 DEF ReqOrder, ReqEnd, LastReqK, ReqStep
    <2>13. ReqEnd'
      BY <1>0, <2>6, <2>3, <2>5e DEF ReqEnd, LastReqK
    <2>14. GenInv' /\ ChanItems' /\ ChanOrder' /\ ChanEnd' /\ RecvInv' /\ AllReceived'
      BY <2>6, Zenon DEF GenInv, ChanItems, ChanOrder, ChanEnd, RecvInv, AllReceived, GenGone, LastItemK
    <2>15. RespItems' /\ RespOrder' /\ RespHead' /\ RespEnd' /\ RespNone'
      BY <2>6, Zenon DEF RespItems, RespOrder, RespHead, RespEnd, RespNone, InPhase
    <2> QED
      BY <2>9, <2>12, <2>13, <2>14, <2>15
  <1>9. CASE PhaseWrite
    <2> DEFINE e == Frame("done", 0, Len(reqs))
    <2>1. 0 \in 0..N
      BY WireAssumption
    <2>2. e \in ReqFrames /\ e.type = "done" /\ e.k = Len(reqs)
      BY <1>0, <2>1, FrameMade, Zenon DEF Frame
    <2>3. r2s' = Append(r2s, e)
      BY <1>9 DEF PhaseWrite
    <2> HIDE DEF e
    <2>4. /\ Len(r2s') = Len(r2s) + 1
          /\ \A i \in 1..Len(r2s') : r2s'[i] = e \/ \E j \in 1..Len(r2s) : r2s'[i] = r2s[j]
          /\ r2s'[Len(r2s')] = e /\ r2s'[1] = IF Len(r2s) = 0 THEN e ELSE r2s[1]
      BY <2>2, <2>3, AppendQueue DEF ReqType
    <2>4e. /\ Len(r2s') = Len(r2s) + 1
           /\ r2s'[Len(r2s')] = e /\ r2s'[1] = IF Len(r2s) = 0 THEN e ELSE r2s[1]
      BY <2>4
    <2>5. /\ pcR = "phase" /\ pcR' = "phase_read"
          /\ UNCHANGED <<pcG, gItem, chan, rItem, written, pcS, sCur, s2r, reqs>>
      BY <1>9 DEF PhaseWrite
    <2>6. ChanEnd'
      BY <1>0, <2>5 DEF ChanEnd, LastItemK, ItemStep
    <2>7. RecvInv'
      BY <1>0, <2>5 DEF RecvInv
    <2>8. AllReceived'
      BY <1>0, <2>5 DEF AllReceived
    <2>9. \A j \in 1..Len(r2s) : ReqOK(r2s[j], reqs', InPhase')
      BY <2>5 DEF ReqItems, InPhase, ReqOK
    <2>10. ReqOK(e, reqs', InPhase')
      BY <2>5, <2>2 DEF ReqOK, InPhase, RecvInv
    <2>11. ReqItems'
      BY <2>4, <2>9, <2>10 DEF ReqItems
    <2>12. Len(r2s) > 0 => e.k = r2s[Len(r2s)].k + ReqStep(e)
      BY <1>0, <2>2 DEF ReqEnd, LastReqK, ReqStep
    <2>13. ReqChain(r2s')
      BY <2>2, <2>3, <2>12, ReqChainAppend DEF ReqOrder, ReqType
    <2>14. ReqOrder'
      BY <1>0, <2>5, <2>2, <2>4e, <2>13 DEF ReqOrder, ReqEnd, LastReqK, ReqStep
    <2>15. ReqEnd'
      BY <1>0, <2>5, <2>2, <2>4e DEF ReqEnd, LastReqK
    <2>16. RespItems'
      BY <1>0, <2>5 DEF RespItems, InPhase, RespOK
    <2>17. RespHead'
      BY <1>0, <2>5 DEF RespHead
    <2>18. RespNone'
      BY <1>0, <2>5 DEF RespNone
    <2>19. GenInv' /\ ChanItems' /\ ChanOrder'
      BY <2>5 DEF GenInv, ChanItems, ChanOrder, GenGone
    <2>20. RespOrder' /\ RespEnd'
      BY <2>5 DEF RespOrder, RespEnd
    <2> QED
      BY <2>6, <2>7, <2>8, <2>11, <2>14, <2>15, <2>16, <2>17, <2>18, <2>19, <2>20
  <1>10. CASE PhaseRead
    <2>1. s2r # <<>>
      BY <1>10 DEF PhaseRead, RespType, OnWire
    <2>2. s2r # <<>> /\ s2r' = Tail(s2r)
      BY <1>10, <2>1 DEF PhaseRead
    <2>3. /\ Len(s2r) >= 1 /\ Len(s2r') = Len(s2r) - 1 /\ Head(s2r) = s2r[1]
          /\ \A i \in 1..Len(s2r') : \E j \in 1..Len(s2r) : s2r'[i] = s2r[j]
          /\ Len(s2r) > 1 => s2r'[1] = s2r[2] /\ s2r'[Len(s2r')] = s2r[Len(s2r)]
          /\ Len(s2r) = 1 => s2r[Len(s2r)] = s2r[1]
      BY <2>2, TailQueue DEF RespType
    <2>3e. /\ Len(s2r) >= 1 /\ Len(s2r') = Len(s2r) - 1 /\ Head(s2r) = s2r[1]
           /\ Len(s2r) > 1 => s2r'[1] = s2r[2] /\ s2r'[Len(s2r')] = s2r[Len(s2r)]
           /\ Len(s2r) = 1 => s2r[Len(s2r)] = s2r[1]
      BY <2>3
    <2>4. /\ pcR = "phase_read" /\ pcR' \in {"phase", "ended"}
          /\ UNCHANGED <<pcG, gItem, chan, rItem, written, pcS, sCur, r2s, reqs>>
      BY <1>10 DEF PhaseRead
    <2>5. /\ RespChain(s2r')
          /\ Len(s2r) > 1 => Follows(s2r[1], s2r[2])
      BY <2>2, RespChainTail DEF RespOrder, RespType
    <2>6. ChanEnd'
      BY <1>0, <2>4 DEF ChanEnd, LastItemK, ItemStep
    <2>7. RecvInv'
      BY <1>0, <2>4 DEF RecvInv
    <2>8. AllReceived'
      BY <1>0, <2>4 DEF AllReceived
    <2>9. ReqItems'
      BY <1>0, <2>4 DEF ReqItems, InPhase, ReqOK
    <2>10. \A j \in 1..Len(s2r) : RespOK(s2r[j], reqs', InPhase')
      BY <1>0, <2>4 DEF RespItems, RespOK, InPhase
    <2>11. RespItems'
      BY <2>3, <2>10 DEF RespItems
    <2>12. RespOrder'
      BY <2>5 DEF RespOrder
    <2>13. RespOK(s2r[1], reqs, InPhase)
      BY <1>0, <2>3 DEF RespItems
    <2>14. s2r[1].type = "done" /\ s2r[1].k = Len(written)
      BY <1>0, <2>4, <2>3e, <2>13 DEF RespHead, RespOK, About, RecvInv
    <2>15. RespHead'
      <3>1. ASSUME Len(s2r') > 0
            PROVE  s2r'[1].type = "done" /\ s2r'[1].k = Len(written)
        <4>1. Len(s2r) > 1
          BY <1>0, <2>3e, <3>1
        <4>2. Follows(s2r[1], s2r[2]) /\ s2r'[1] = s2r[2]
          BY <2>3e, <2>5, <4>1
        <4> QED
          BY <2>14, <4>2 DEF Follows
      <3> QED
        BY <2>4, <3>1 DEF RespHead
    <2>16. RespEnd'
      BY <1>0, <2>4, <2>3e DEF RespEnd
    <2>17. RespNone'
      BY <1>0, <2>4, <2>3e, <2>14 DEF RespNone, RespEnd
    <2>18. GenInv' /\ ChanItems' /\ ChanOrder'
      BY <2>4 DEF GenInv, ChanItems, ChanOrder, GenGone
    <2>19. ReqOrder' /\ ReqEnd'
      BY <2>4 DEF ReqOrder, ReqEnd, LastReqK
    <2> QED
      BY <2>6, <2>7, <2>8, <2>9, <2>11, <2>12, <2>15, <2>16, <2>17, <2>18, <2>19
  <1>11. CASE RecvWriteErr
    <2>1. /\ pcR = "phase" /\ pcR' = "failed"
          /\ UNCHANGED <<pcG, gItem, chan, rItem, written, pcS, sCur, r2s, s2r, reqs>>
      BY <1>11 DEF RecvWriteErr
    <2>2. ChanEnd'
      BY <1>0, <2>1 DEF ChanEnd, LastItemK, ItemStep
    <2>3. RecvInv'
      BY <1>0, <2>1 DEF RecvInv
    <2>4. AllReceived'
      BY <1>0, <2>1 DEF AllReceived
    <2>5. ReqItems'
      BY <1>0, <2>1 DEF ReqItems, InPhase, ReqOK
    <2>6. RespItems'
      BY <1>0, <2>1 DEF RespItems, InPhase, RespOK
    <2>7. RespHead'
      BY <1>0, <2>1 DEF RespHead
    <2>8. RespNone'
      BY <1>0, <2>1 DEF RespNone
    <2>9. GenInv' /\ ChanItems' /\ ChanOrder'
      BY <2>1, Zenon DEF GenInv, ChanItems, ChanOrder, GenGone
    <2>10. ReqOrder' /\ ReqEnd'
      BY <2>1 DEF ReqOrder, ReqEnd, LastReqK
    <2>11. RespOrder' /\ RespEnd'
      BY <2>1 DEF RespOrder, RespEnd
    <2> QED
      BY <2>2, <2>3, <2>4, <2>5, <2>6, <2>7, <2>8, <2>9, <2>10, <2>11
  <1> QED
    BY <1>1, <1>2, <1>3, <1>4, <1>5, <1>6, <1>7, <1>8, <1>9, <1>10, <1>11 DEF RecvNext

\* The generator keeps the queues in order.
LEMMA GenOrder == TypeOK /\ QueueOrder /\ GenNext => QueueOrder'
  <1> SUFFICES ASSUME TypeOK, QueueOrder, GenNext PROVE QueueOrder'
    OBVIOUS
  <1> USE DEF TypeOK, QueueOrder, genVars, recvVars, sendVars
  <1>0. /\ Len(chan) \in Nat /\ Len(r2s) \in Nat /\ Len(s2r) \in Nat
        /\ Len(reqs) \in Nat /\ Len(written) \in Nat
        /\ gItem.k \in Nat /\ rItem.k \in Nat /\ sCur.k \in Nat
    BY Numbers
  <1>1. CASE GenDispatch
    <2>1. /\ pcG = "dispatch"
          /\ \/ pcG' = pcG /\ gItem' = gItem
             \/ pcG' = "send" /\ gItem'.type # "transfer" /\ gItem'.k = Len(reqs)
             \/ pcG' = "write" /\ gItem'.k = Len(reqs) + 1
          /\ UNCHANGED <<chan, pcR, rItem, written, pcS, sCur, r2s, s2r, reqs>>
      BY <1>1 DEF GenDispatch, Item
    <2>2. GenInv'
      BY <1>0, <2>1 DEF GenInv
    <2>3. ChanItems'
      BY <1>0, <2>1 DEF ChanItems, GenGone, ItemOK
    <2>4. ChanEnd'
      BY <1>0, <2>1 DEF ChanEnd, LastItemK, ItemStep
    <2>5. RecvInv'
      BY <1>0, <2>1 DEF RecvInv
    <2>6. ReqItems'
      BY <1>0, <2>1 DEF ReqItems, InPhase, ReqOK
    <2>7. RespItems'
      BY <1>0, <2>1 DEF RespItems, InPhase, RespOK
    <2>8. ChanOrder' /\ AllReceived'
      BY <2>1 DEF ChanOrder, AllReceived
    <2>9. ReqOrder' /\ ReqEnd'
      BY <2>1 DEF ReqOrder, ReqEnd, LastReqK
    <2>10. RespOrder' /\ RespHead' /\ RespEnd' /\ RespNone'
      BY <2>1 DEF RespOrder, RespHead, RespEnd, RespNone
    <2> QED
      BY <2>2, <2>3, <2>4, <2>5, <2>6, <2>7, <2>8, <2>9, <2>10
  <1>2. CASE GenDone
    <2>1. /\ pcG = "dispatch" /\ pcG' = "send"
          /\ gItem'.type = "done" /\ gItem'.k = Len(reqs)
          /\ UNCHANGED <<chan, pcR, rItem, written, pcS, sCur, r2s, s2r, reqs>>
      BY <1>2 DEF GenDone, Item
    <2>2. GenInv'
      BY <1>0, <2>1 DEF GenInv
    <2>3. ChanItems'
      BY <1>0, <2>1 DEF ChanItems, GenGone, ItemOK
    <2>4. ChanEnd'
      BY <1>0, <2>1 DEF ChanEnd, LastItemK, ItemStep
    <2>5. RecvInv'
      BY <1>0, <2>1 DEF RecvInv
    <2>6. ReqItems'
      BY <1>0, <2>1 DEF ReqItems, InPhase, ReqOK
    <2>7. RespItems'
      BY <1>0, <2>1 DEF RespItems, InPhase, RespOK
    <2>8. ChanOrder' /\ AllReceived'
      BY <2>1 DEF ChanOrder, AllReceived
    <2>9. ReqOrder' /\ ReqEnd'
      BY <2>1 DEF ReqOrder, ReqEnd, LastReqK
    <2>10. RespOrder' /\ RespHead' /\ RespEnd' /\ RespNone'
      BY <2>1 DEF RespOrder, RespHead, RespEnd, RespNone
    <2> QED
      BY <2>2, <2>3, <2>4, <2>5, <2>6, <2>7, <2>8, <2>9, <2>10
  <1>3. CASE GenWrite
    <2> DEFINE e == Frame("req", gItem.idx, gItem.k)
    <2>1. gItem.idx \in Entries /\ gItem.idx \in 0..N
      BY <1>3, ItemFields DEF GenWrite, GenType
    <2>2. e \in ReqFrames /\ e.type = "req" /\ e.ndx = gItem.idx /\ e.k = gItem.k
      BY <1>0, <2>1, FrameMade, Zenon DEF Frame
    <2>3. r2s' = Append(r2s, e)
      BY <1>3 DEF GenWrite
    <2> HIDE DEF e
    <2>4. /\ Len(r2s') = Len(r2s) + 1
          /\ \A i \in 1..Len(r2s') : r2s'[i] = e \/ \E j \in 1..Len(r2s) : r2s'[i] = r2s[j]
          /\ r2s'[Len(r2s')] = e /\ r2s'[1] = IF Len(r2s) = 0 THEN e ELSE r2s[1]
      BY <2>2, <2>3, AppendQueue DEF ReqType
    <2>4e. /\ Len(r2s') = Len(r2s) + 1
           /\ r2s'[Len(r2s')] = e /\ r2s'[1] = IF Len(r2s) = 0 THEN e ELSE r2s[1]
      BY <2>4
    <2>5. Len(reqs') = Len(reqs) + 1 /\ reqs'[Len(reqs) + 1] = gItem.idx
      BY <1>3, <2>1, AppendFacts DEF GenWrite, GenType
    <2>6. \A k, ndx : About(k, ndx, reqs) => About(k, ndx, reqs')
      BY <1>3, <2>1, AboutGrows DEF GenWrite, GenType
    <2>7. /\ pcG = "write" /\ pcG' = "send" /\ gItem.type = "transfer" /\ gItem.k = Len(reqs) + 1
          /\ UNCHANGED <<gItem, chan, pcR, rItem, written, pcS, sCur, s2r>>
      BY <1>3 DEF GenWrite, GenType, GenInv
    <2>8. GenInv'
      BY <1>0, <2>7, <2>5 DEF GenInv, About
    <2>9. ChanItems'
      BY <2>7, <2>6 DEF ChanItems, ItemOK, GenGone
    <2>10. ChanEnd'
      BY <1>0, <2>7, <2>5 DEF ChanEnd, LastItemK, ItemStep
    <2>11. RecvInv'
      BY <1>0, <2>7, <2>5, <2>6 DEF RecvInv
    <2>12. \A i \in 1..Len(written) : About(i, written[i], reqs)
      BY <1>0 DEF AllReceived, About
    <2>13. \A i \in 1..Len(written) : About(i, written[i], reqs')
      BY <2>12, <2>6
    <2>14. AllReceived'
      BY <1>0, <2>7, <2>5, <2>13 DEF AllReceived, RecvInv, About
    <2>15. \A j \in 1..Len(r2s) : ReqOK(r2s[j], reqs', InPhase')
      BY <2>7, <2>6 DEF ReqItems, ReqOK, InPhase
    <2>16. ReqOK(e, reqs', InPhase')
      BY <1>0, <2>7, <2>2, <2>5 DEF ReqOK, About
    <2>17. ReqItems'
      BY <2>4, <2>15, <2>16 DEF ReqItems
    <2>18. Len(r2s) > 0 => e.k = r2s[Len(r2s)].k + ReqStep(e)
      <3>1. e.k = Len(reqs) + 1 /\ ReqStep(e) = 1
        BY <2>7, <2>2 DEF ReqStep
      <3>2. Len(r2s) > 0 => r2s[Len(r2s)].k = Len(reqs)
        BY <1>0 DEF ReqEnd, LastReqK
      <3> QED
        BY <3>1, <3>2
    <2>19. ReqChain(r2s')
      BY <2>2, <2>3, <2>18, ReqChainAppend DEF ReqOrder, ReqType
    <2>20. ReqOrder'
      BY <1>0, <2>7, <2>2, <2>4e, <2>19 DEF ReqOrder, ReqEnd, LastReqK, ReqStep
    <2>21. ReqEnd'
      BY <1>0, <2>7, <2>2, <2>4e, <2>5, <2>6 DEF ReqEnd, LastReqK
    <2>22. RespItems'
      BY <2>7, <2>6 DEF RespItems, RespOK, InPhase
    <2>23. ChanOrder'
      BY <2>7 DEF ChanOrder
    <2>24. RespOrder' /\ RespHead' /\ RespEnd' /\ RespNone'
      BY <2>7 DEF RespOrder, RespHead, RespEnd, RespNone
    <2> QED
      BY <2>8, <2>9, <2>10, <2>11, <2>14, <2>17, <2>20, <2>21, <2>22, <2>23, <2>24
  <1>4. CASE GenWriteErr
    <2>1. /\ pcG = "write" /\ pcG' = "failed"
          /\ UNCHANGED <<gItem, chan, pcR, rItem, written, pcS, sCur, r2s, s2r, reqs>>
      BY <1>4 DEF GenWriteErr
    <2>2. GenInv'
      BY <1>0, <2>1 DEF GenInv
    <2>3. ChanItems'
      BY <1>0, <2>1 DEF ChanItems, GenGone, ItemOK
    <2>4. ChanEnd'
      BY <1>0, <2>1 DEF ChanEnd, LastItemK, ItemStep
    <2>5. RecvInv'
      BY <1>0, <2>1 DEF RecvInv
    <2>6. ReqItems'
      BY <1>0, <2>1 DEF ReqItems, InPhase, ReqOK
    <2>7. RespItems'
      BY <1>0, <2>1 DEF RespItems, InPhase, RespOK
    <2>8. ChanOrder' /\ AllReceived'
      BY <2>1 DEF ChanOrder, AllReceived
    <2>9. ReqOrder' /\ ReqEnd'
      BY <2>1 DEF ReqOrder, ReqEnd, LastReqK
    <2>10. RespOrder' /\ RespHead' /\ RespEnd' /\ RespNone'
      BY <2>1 DEF RespOrder, RespHead, RespEnd, RespNone
    <2> QED
      BY <2>2, <2>3, <2>4, <2>5, <2>6, <2>7, <2>8, <2>9, <2>10
  <1>5. CASE GenSend
    <2> DEFINE e == gItem
    <2>1. e \in Items
      BY DEF GenType
    <2>2. chan' = Append(chan, e)
      BY <1>5 DEF GenSend
    <2>3. /\ Len(chan') = Len(chan) + 1
          /\ \A i \in 1..Len(chan') : chan'[i] = e \/ \E j \in 1..Len(chan) : chan'[i] = chan[j]
          /\ chan'[Len(chan')] = e /\ chan'[1] = IF Len(chan) = 0 THEN e ELSE chan[1]
      BY <2>1, <2>2, AppendQueue DEF ChanType
    <2>3e. /\ Len(chan') = Len(chan) + 1
           /\ chan'[Len(chan')] = e /\ chan'[1] = IF Len(chan) = 0 THEN e ELSE chan[1]
      BY <2>3
    <2>4. /\ pcG = "send" /\ pcR # "failed"
          /\ pcG' = IF gItem.type = "done" THEN "exited" ELSE "dispatch"
          /\ UNCHANGED <<gItem, pcR, rItem, written, pcS, sCur, r2s, s2r, reqs>>
      BY <1>5 DEF GenSend
    <2>5. e.k = LastItemK + ItemStep(e) /\ e.k = Len(reqs)
      BY <1>0, <2>4 DEF ChanEnd, GenInv, LastItemK, ItemStep
    <2>6. GenInv'
      BY <1>0, <2>4 DEF GenInv
    <2>7. \A j \in 1..Len(chan) : ItemOK(chan[j], reqs', GenGone')
      BY <2>4 DEF ChanItems, ItemOK, GenGone
    <2>8. ItemOK(e, reqs', GenGone')
      BY <2>4 DEF ItemOK, GenGone, GenInv
    <2>9. ChanItems'
      BY <2>3, <2>7, <2>8 DEF ChanItems
    <2>10. ItemChain(chan')
      BY <1>0, <2>1, <2>2, <2>5, ItemChainAppend DEF ChanOrder, ChanType, LastItemK
    <2>11. ChanOrder'
      BY <1>0, <2>4, <2>3e, <2>5, <2>10 DEF ChanOrder, LastItemK
    <2>12. ChanEnd'
      BY <1>0, <2>4, <2>3e, <2>5 DEF ChanEnd, LastItemK
    <2>13. RecvInv'
      BY <1>0, <2>4 DEF RecvInv
    <2>14. ReqItems'
      BY <1>0, <2>4 DEF ReqItems, InPhase, ReqOK
    <2>15. RespItems'
      BY <1>0, <2>4 DEF RespItems, InPhase, RespOK
    <2>16. AllReceived'
      BY <2>4 DEF AllReceived
    <2>17. ReqOrder' /\ ReqEnd'
      BY <2>4 DEF ReqOrder, ReqEnd, LastReqK
    <2>18. RespOrder' /\ RespHead' /\ RespEnd' /\ RespNone'
      BY <2>4 DEF RespOrder, RespHead, RespEnd, RespNone
    <2> QED
      BY <2>6, <2>9, <2>11, <2>12, <2>13, <2>14, <2>15, <2>16, <2>17, <2>18
  <1>6. CASE GenSendErr
    <2>1. /\ pcG = "send" /\ pcR = "failed" /\ pcG' = "exited"
          /\ UNCHANGED <<gItem, chan, pcR, rItem, written, pcS, sCur, r2s, s2r, reqs>>
      BY <1>6 DEF GenSendErr
    <2>2. GenInv'
      BY <1>0, <2>1 DEF GenInv
    <2>3. ChanItems'
      BY <1>0, <2>1 DEF ChanItems, GenGone, ItemOK
    <2>4. ChanEnd'
      BY <1>0, <2>1 DEF ChanEnd, LastItemK, ItemStep
    <2>5. RecvInv'
      BY <1>0, <2>1 DEF RecvInv
    <2>6. ReqItems'
      BY <1>0, <2>1 DEF ReqItems, InPhase, ReqOK
    <2>7. RespItems'
      BY <1>0, <2>1 DEF RespItems, InPhase, RespOK
    <2>8. ChanOrder' /\ AllReceived'
      BY <2>1 DEF ChanOrder, AllReceived
    <2>9. ReqOrder' /\ ReqEnd'
      BY <2>1 DEF ReqOrder, ReqEnd, LastReqK
    <2>10. RespOrder' /\ RespHead' /\ RespEnd' /\ RespNone'
      BY <2>1 DEF RespOrder, RespHead, RespEnd, RespNone
    <2> QED
      BY <2>2, <2>3, <2>4, <2>5, <2>6, <2>7, <2>8, <2>9, <2>10
  <1> QED
    BY <1>1, <1>2, <1>3, <1>4, <1>5, <1>6 DEF GenNext

\* The sender keeps the queues in order.
LEMMA SendOrder == TypeOK /\ QueueOrder /\ (SendNext \/ SenderStop) => QueueOrder'
  <1> SUFFICES ASSUME TypeOK, QueueOrder, (SendNext \/ SenderStop) PROVE QueueOrder'
    OBVIOUS
  <1> USE DEF TypeOK, QueueOrder, genVars, recvVars, sendVars
  <1>0. /\ Len(chan) \in Nat /\ Len(r2s) \in Nat /\ Len(s2r) \in Nat
        /\ Len(reqs) \in Nat /\ Len(written) \in Nat
        /\ gItem.k \in Nat /\ rItem.k \in Nat /\ sCur.k \in Nat
    BY Numbers
  <1>1. CASE SenderReadSuccess
    <2>1. r2s # <<>> /\ r2s' = Tail(r2s)
      BY <1>1 DEF SenderReadSuccess, TakeReq
    <2>2. /\ Len(r2s) >= 1 /\ Len(r2s') = Len(r2s) - 1 /\ Head(r2s) = r2s[1]
          /\ \A i \in 1..Len(r2s') : \E j \in 1..Len(r2s) : r2s'[i] = r2s[j]
          /\ Len(r2s) > 1 => r2s'[1] = r2s[2] /\ r2s'[Len(r2s')] = r2s[Len(r2s)]
          /\ Len(r2s) = 1 => r2s[Len(r2s)] = r2s[1]
      BY <2>1, TailQueue DEF ReqType
    <2>2e. /\ Len(r2s) >= 1 /\ Len(r2s') = Len(r2s) - 1 /\ Head(r2s) = r2s[1]
           /\ Len(r2s) > 1 => r2s'[1] = r2s[2] /\ r2s'[Len(r2s')] = r2s[Len(r2s)]
           /\ Len(r2s) = 1 => r2s[Len(r2s)] = r2s[1]
      BY <2>2
    <2>3. /\ ReqChain(r2s')
          /\ Len(r2s) > 1 => r2s[2].k = r2s[1].k + ReqStep(r2s[2])
      BY <2>1, ReqChainTail DEF ReqOrder, ReqType
    <2>4. r2s[1].k = sCur.k + ReqStep(r2s[1]) /\ ReqOK(r2s[1], reqs, InPhase)
      BY <1>0, <2>2 DEF ReqOrder, ReqItems
    <2>5. /\ r2s[1].type = "success"
          /\ UNCHANGED <<pcG, gItem, chan, pcR, rItem, written, pcS, sCur, s2r, reqs>>
      BY <1>1, <2>2e DEF SenderReadSuccess, TakeReq
    <2>6. \A j \in 1..Len(r2s) : ReqOK(r2s[j], reqs', InPhase')
      BY <2>5 DEF ReqItems, InPhase
    <2>7. ReqItems'
      BY <2>2, <2>6 DEF ReqItems
    <2>8a. r2s[1].k = sCur.k
      BY <1>0, <2>5, <2>4 DEF ReqStep
    <2>8. ReqOrder'
      <3>1. ASSUME Len(r2s') > 0
            PROVE  r2s'[1].k = sCur'.k + ReqStep(r2s'[1])
        <4>1. r2s'[1] = r2s[2] /\ r2s[2].k = r2s[1].k + ReqStep(r2s[2])
          BY <1>0, <2>2e, <2>3, <3>1
        <4> QED
          BY <2>5, <2>8a, <4>1
      <3> QED
        BY <2>3, <3>1 DEF ReqOrder
    <2>9. r2s[Len(r2s)].k = Len(reqs) /\ (IF Len(r2s') = 0 THEN r2s[1].k ELSE r2s'[Len(r2s')].k) = Len(reqs)
      BY <1>0, <2>2e DEF ReqEnd, LastReqK
    <2>10. ReqEnd'
      BY <1>0, <2>5, <2>2e, <2>8a, <2>9 DEF ReqEnd, LastReqK
    <2>11. GenInv' /\ ChanItems' /\ ChanOrder' /\ ChanEnd' /\ RecvInv' /\ AllReceived'
      BY <2>5, Zenon DEF GenInv, ChanItems, ChanOrder, ChanEnd, RecvInv, AllReceived, GenGone, LastItemK
    <2>12. RespItems' /\ RespOrder' /\ RespHead' /\ RespEnd' /\ RespNone'
      BY <2>5, Zenon DEF RespItems, RespOrder, RespHead, RespEnd, RespNone, InPhase
    <2> QED
      BY <2>7, <2>8, <2>10, <2>11, <2>12
  <1>2. CASE SenderReadDone
    <2>1. r2s # <<>> /\ r2s' = Tail(r2s)
      BY <1>2 DEF SenderReadDone, TakeReq
    <2>2. /\ Len(r2s) >= 1 /\ Len(r2s') = Len(r2s) - 1 /\ Head(r2s) = r2s[1]
          /\ \A i \in 1..Len(r2s') : \E j \in 1..Len(r2s) : r2s'[i] = r2s[j]
          /\ Len(r2s) > 1 => r2s'[1] = r2s[2] /\ r2s'[Len(r2s')] = r2s[Len(r2s)]
          /\ Len(r2s) = 1 => r2s[Len(r2s)] = r2s[1]
      BY <2>1, TailQueue DEF ReqType
    <2>2e. /\ Len(r2s) >= 1 /\ Len(r2s') = Len(r2s) - 1 /\ Head(r2s) = r2s[1]
           /\ Len(r2s) > 1 => r2s'[1] = r2s[2] /\ r2s'[Len(r2s')] = r2s[Len(r2s)]
           /\ Len(r2s) = 1 => r2s[Len(r2s)] = r2s[1]
      BY <2>2
    <2>3. /\ ReqChain(r2s')
          /\ Len(r2s) > 1 => r2s[2].k = r2s[1].k + ReqStep(r2s[2])
      BY <2>1, ReqChainTail DEF ReqOrder, ReqType
    <2>4. r2s[1].k = sCur.k + ReqStep(r2s[1]) /\ ReqOK(r2s[1], reqs, InPhase)
      BY <1>0, <2>2 DEF ReqOrder, ReqItems
    <2> DEFINE e == Frame("done", 0, sCur.k)
    <2>5. 0 \in 0..N
      BY WireAssumption
    <2>6. e \in RespFrames /\ e.type = "done" /\ e.k = sCur.k
      BY <1>0, <2>5, FrameMade, Zenon DEF Frame
    <2>7. s2r' = Append(s2r, e)
      BY <1>2 DEF SenderReadDone
    <2> HIDE DEF e
    <2>8. /\ Len(s2r') = Len(s2r) + 1
          /\ \A i \in 1..Len(s2r') : s2r'[i] = e \/ \E j \in 1..Len(s2r) : s2r'[i] = s2r[j]
          /\ s2r'[Len(s2r')] = e /\ s2r'[1] = IF Len(s2r) = 0 THEN e ELSE s2r[1]
      BY <2>6, <2>7, AppendQueue DEF RespType
    <2>8e. /\ Len(s2r') = Len(s2r) + 1
           /\ s2r'[Len(s2r')] = e /\ s2r'[1] = IF Len(s2r) = 0 THEN e ELSE s2r[1]
      BY <2>8
    <2>9. /\ pcS = "read" /\ pcS' = "flush" /\ r2s[1].type = "done"
          /\ UNCHANGED <<pcG, gItem, chan, pcR, rItem, written, sCur, reqs>>
      BY <1>2, <2>2e DEF SenderReadDone, TakeReq
    <2>10. InPhase /\ sCur.k = Len(reqs)
      BY <1>0, <2>9, <2>4 DEF ReqOK, ReqStep
    <2>11. \A j \in 1..Len(r2s) : ReqOK(r2s[j], reqs', InPhase')
      BY <2>9 DEF ReqItems, InPhase
    <2>12. ReqItems'
      BY <2>2, <2>11 DEF ReqItems
    <2>13a. r2s[1].k = sCur.k
      BY <1>0, <2>9, <2>4 DEF ReqStep
    <2>13. ReqOrder'
      <3>1. ASSUME Len(r2s') > 0
            PROVE  r2s'[1].k = sCur'.k + ReqStep(r2s'[1])
        <4>1. r2s'[1] = r2s[2] /\ r2s[2].k = r2s[1].k + ReqStep(r2s[2])
          BY <1>0, <2>2e, <2>3, <3>1
        <4> QED
          BY <2>9, <2>13a, <4>1
      <3> QED
        BY <2>3, <3>1 DEF ReqOrder
    <2>14. r2s[Len(r2s)].k = Len(reqs) /\ (IF Len(r2s') = 0 THEN r2s[1].k ELSE r2s'[Len(r2s')].k) = Len(reqs)
      BY <1>0, <2>2e DEF ReqEnd, LastReqK
    <2>15. ReqEnd'
      BY <1>0, <2>9, <2>2e, <2>13a, <2>14 DEF ReqEnd, LastReqK
    <2>16. \A j \in 1..Len(s2r) : RespOK(s2r[j], reqs', InPhase')
      BY <2>9 DEF RespItems, InPhase
    <2>17. RespOK(e, reqs', InPhase')
      BY <2>9, <2>6, <2>10 DEF RespOK, InPhase
    <2>18. RespItems'
      BY <2>8, <2>16, <2>17 DEF RespItems
    <2>19. Len(s2r) > 0 => Follows(s2r[Len(s2r)], e)
      BY <1>0, <2>9, <2>6 DEF RespEnd, Follows
    <2>20. RespChain(s2r')
      BY <2>6, <2>7, <2>19, RespChainAppend DEF RespOrder, RespType
    <2>21. RespOrder'
      BY <2>20 DEF RespOrder
    <2>22. RespHead'
      <3>1. CASE Len(s2r) = 0
        <4>1. pcR # "failed" => pcR # "body" /\ sCur.k = Len(written)
          BY <2>9, <3>1 DEF RespNone
        <4>2. s2r'[1] = e
          BY <2>8e, <3>1
        <4> QED
          BY <2>6, <2>9, <4>1, <4>2 DEF RespHead
      <3>2. CASE Len(s2r) > 0
        <4>1. s2r'[1] = s2r[1]
          BY <1>0, <2>8e, <3>2
        <4> QED
          BY <2>9, <3>2, <4>1 DEF RespHead
      <3> QED
        BY <1>0, <3>1, <3>2
    <2>23. RespEnd'
      BY <1>0, <2>9, <2>6, <2>8e DEF RespEnd
    <2>24. RespNone'
      BY <1>0, <2>9, <2>8e DEF RespNone
    <2>25. GenInv' /\ ChanItems' /\ ChanOrder' /\ ChanEnd' /\ RecvInv' /\ AllReceived'
      BY <2>9, Zenon DEF GenInv, ChanItems, ChanOrder, ChanEnd, RecvInv, AllReceived, GenGone, LastItemK
    <2> QED
      BY <2>12, <2>13, <2>15, <2>18, <2>21, <2>22, <2>23, <2>24, <2>25
  <1>3. CASE SenderReadReq
    <2>1. r2s # <<>> /\ r2s' = Tail(r2s)
      BY <1>3 DEF SenderReadReq, TakeReq
    <2>2. /\ Len(r2s) >= 1 /\ Len(r2s') = Len(r2s) - 1 /\ Head(r2s) = r2s[1]
          /\ \A i \in 1..Len(r2s') : \E j \in 1..Len(r2s) : r2s'[i] = r2s[j]
          /\ Len(r2s) > 1 => r2s'[1] = r2s[2] /\ r2s'[Len(r2s')] = r2s[Len(r2s)]
          /\ Len(r2s) = 1 => r2s[Len(r2s)] = r2s[1]
      BY <2>1, TailQueue DEF ReqType
    <2>2e. /\ Len(r2s) >= 1 /\ Len(r2s') = Len(r2s) - 1 /\ Head(r2s) = r2s[1]
           /\ Len(r2s) > 1 => r2s'[1] = r2s[2] /\ r2s'[Len(r2s')] = r2s[Len(r2s)]
           /\ Len(r2s) = 1 => r2s[Len(r2s)] = r2s[1]
      BY <2>2
    <2>3. /\ ReqChain(r2s')
          /\ Len(r2s) > 1 => r2s[2].k = r2s[1].k + ReqStep(r2s[2])
      BY <2>1, ReqChainTail DEF ReqOrder, ReqType
    <2>4. r2s[1].k = sCur.k + ReqStep(r2s[1]) /\ ReqOK(r2s[1], reqs, InPhase)
      BY <1>0, <2>2 DEF ReqOrder, ReqItems
    <2> DEFINE e == Frame("hdr", r2s[1].ndx, r2s[1].k)
    <2>5. r2s[1] \in ReqFrames /\ r2s[1].ndx \in 0..N /\ r2s[1].k \in Nat
      BY <2>1, TailFacts, FrameFields DEF ReqType
    <2>6. e \in RespFrames /\ e.type = "hdr" /\ e.ndx = r2s[1].ndx /\ e.k = r2s[1].k
      BY <2>5, FrameMade, Zenon DEF Frame
    <2>7. s2r' = Append(s2r, e)
      BY <1>3, <2>2e DEF SenderReadReq
    <2> HIDE DEF e
    <2>8. /\ Len(s2r') = Len(s2r) + 1
          /\ \A i \in 1..Len(s2r') : s2r'[i] = e \/ \E j \in 1..Len(s2r) : s2r'[i] = s2r[j]
          /\ s2r'[Len(s2r')] = e /\ s2r'[1] = IF Len(s2r) = 0 THEN e ELSE s2r[1]
      BY <2>6, <2>7, AppendQueue DEF RespType
    <2>8e. /\ Len(s2r') = Len(s2r) + 1
           /\ s2r'[Len(s2r')] = e /\ s2r'[1] = IF Len(s2r) = 0 THEN e ELSE s2r[1]
      BY <2>8
    <2>9. /\ pcS = "read" /\ pcS' = "body" /\ r2s[1].type = "req" /\ sCur' = r2s[1]
          /\ UNCHANGED <<pcG, gItem, chan, pcR, rItem, written, reqs>>
      BY <1>3, <2>2e DEF SenderReadReq, TakeReq
    <2>10. r2s[1].k = sCur.k + 1 /\ About(r2s[1].k, r2s[1].ndx, reqs)
      BY <1>0, <2>9, <2>4 DEF ReqOK, ReqStep
    <2>11. \A j \in 1..Len(r2s) : ReqOK(r2s[j], reqs', InPhase')
      BY <2>9 DEF ReqItems, InPhase
    <2>12. ReqItems'
      BY <2>2, <2>11 DEF ReqItems
    <2>13. ReqOrder'
      BY <1>0, <2>9, <2>2e, <2>3 DEF ReqOrder
    <2>14. r2s[Len(r2s)].k = Len(reqs) /\ (IF Len(r2s') = 0 THEN r2s[1].k ELSE r2s'[Len(r2s')].k) = Len(reqs)
      BY <1>0, <2>2e DEF ReqEnd, LastReqK
    <2>15. ReqEnd'
      <3>1. LastReqK' = Len(reqs)
        BY <2>9, <2>14 DEF LastReqK
      <3>2. r2s[1].k <= Len(reqs) /\ r2s[1].k >= 1
        BY <1>0, <2>10 DEF About
      <3> QED
        BY <2>9, <2>10, <3>1, <3>2 DEF ReqEnd
    <2>16. \A j \in 1..Len(s2r) : RespOK(s2r[j], reqs', InPhase')
      BY <2>9 DEF RespItems, InPhase
    <2>17. RespOK(e, reqs', InPhase')
      BY <2>9, <2>6, <2>10 DEF RespOK
    <2>18. RespItems'
      BY <2>8, <2>16, <2>17 DEF RespItems
    <2>19. Len(s2r) > 0 => RespOK(s2r[Len(s2r)], reqs, InPhase)
      BY <1>0 DEF RespItems
    <2>20. Len(s2r) > 0 => Follows(s2r[Len(s2r)], e)
      BY <1>0, <2>9, <2>6, <2>10, <2>19 DEF RespEnd, Follows, RespOK, About
    <2>21. RespChain(s2r')
      BY <2>6, <2>7, <2>20, RespChainAppend DEF RespOrder, RespType
    <2>22. RespOrder'
      BY <2>21 DEF RespOrder
    <2>23. RespHead'
      <3>1. CASE Len(s2r) = 0
        BY <1>0, <2>9, <2>6, <2>8e, <2>10, <3>1 DEF RespHead, RespNone
      <3>2. CASE Len(s2r) # 0
        BY <1>0, <2>9, <2>8e, <3>2 DEF RespHead
      <3> QED
        BY <3>1, <3>2
    <2>24. RespEnd'
      BY <1>0, <2>9, <2>6, <2>8e DEF RespEnd
    <2>25. RespNone'
      BY <1>0, <2>9, <2>8e DEF RespNone
    <2>26. GenInv' /\ ChanItems' /\ ChanOrder' /\ ChanEnd' /\ RecvInv' /\ AllReceived'
      BY <2>9, Zenon DEF GenInv, ChanItems, ChanOrder, ChanEnd, RecvInv, AllReceived, GenGone, LastItemK
    <2> QED
      BY <2>12, <2>13, <2>15, <2>18, <2>22, <2>23, <2>24, <2>25, <2>26
  <1>4. CASE SenderToken
    <2> DEFINE e == Frame("tok", sCur.ndx, sCur.k)
    <2>1. e \in RespFrames /\ e.type = "tok" /\ e.ndx = sCur.ndx /\ e.k = sCur.k
      BY FrameMade, Zenon DEF Frame, SendType
    <2>2. s2r' = Append(s2r, e)
      BY <1>4 DEF SenderToken
    <2> HIDE DEF e
    <2>3. /\ Len(s2r') = Len(s2r) + 1
          /\ \A i \in 1..Len(s2r') : s2r'[i] = e \/ \E j \in 1..Len(s2r) : s2r'[i] = s2r[j]
          /\ s2r'[Len(s2r')] = e /\ s2r'[1] = IF Len(s2r) = 0 THEN e ELSE s2r[1]
      BY <2>1, <2>2, AppendQueue DEF RespType
    <2>3e. /\ Len(s2r') = Len(s2r) + 1
           /\ s2r'[Len(s2r')] = e /\ s2r'[1] = IF Len(s2r) = 0 THEN e ELSE s2r[1]
      BY <2>3
    <2>4. /\ pcS = "body"
          /\ UNCHANGED <<pcG, gItem, chan, pcR, rItem, written, pcS, sCur, r2s, reqs>>
      BY <1>4 DEF SenderToken
    <2>5. \A j \in 1..Len(s2r) : RespOK(s2r[j], reqs', InPhase')
      BY <2>4 DEF RespItems, InPhase
    <2>6. RespOK(e, reqs', InPhase')
      BY <1>0, <2>4, <2>1 DEF RespOK, ReqEnd
    <2>7. RespItems'
      BY <2>3, <2>5, <2>6 DEF RespItems
    <2>8. Len(s2r) > 0 => Follows(s2r[Len(s2r)], e)
      BY <1>0, <2>4, <2>1 DEF RespEnd, Follows
    <2>9. RespChain(s2r')
      BY <2>1, <2>2, <2>8, RespChainAppend DEF RespOrder, RespType
    <2>10. RespOrder'
      BY <2>9 DEF RespOrder
    <2>11. RespHead'
      BY <1>0, <2>4, <2>1, <2>3e DEF RespHead, RespNone
    <2>12. RespEnd'
      BY <1>0, <2>4, <2>1, <2>3e DEF RespEnd
    <2>13. RespNone'
      BY <1>0, <2>4, <2>3e DEF RespNone
    <2>14. GenInv' /\ ChanItems' /\ ChanOrder' /\ ChanEnd' /\ RecvInv' /\ AllReceived'
      BY <2>4, Zenon DEF GenInv, ChanItems, ChanOrder, ChanEnd, RecvInv, AllReceived, GenGone, LastItemK
    <2>15. ReqItems' /\ ReqOrder' /\ ReqEnd'
      BY <2>4, Zenon DEF ReqItems, ReqOrder, ReqEnd, InPhase, LastReqK
    <2> QED
      BY <2>7, <2>10, <2>11, <2>12, <2>13, <2>14, <2>15
  <1>5. CASE SenderEof
    <2> DEFINE e == Frame("eof", sCur.ndx, sCur.k)
    <2>1. e \in RespFrames /\ e.type = "eof" /\ e.ndx = sCur.ndx /\ e.k = sCur.k
      BY FrameMade, Zenon DEF Frame, SendType
    <2>2. s2r' = Append(s2r, e)
      BY <1>5 DEF SenderEof
    <2> HIDE DEF e
    <2>3. /\ Len(s2r') = Len(s2r) + 1
          /\ \A i \in 1..Len(s2r') : s2r'[i] = e \/ \E j \in 1..Len(s2r) : s2r'[i] = s2r[j]
          /\ s2r'[Len(s2r')] = e /\ s2r'[1] = IF Len(s2r) = 0 THEN e ELSE s2r[1]
      BY <2>1, <2>2, AppendQueue DEF RespType
    <2>3e. /\ Len(s2r') = Len(s2r) + 1
           /\ s2r'[Len(s2r')] = e /\ s2r'[1] = IF Len(s2r) = 0 THEN e ELSE s2r[1]
      BY <2>3
    <2>4. /\ pcS = "body" /\ pcS' = "flush"
          /\ UNCHANGED <<pcG, gItem, chan, pcR, rItem, written, sCur, r2s, reqs>>
      BY <1>5 DEF SenderEof
    <2>5. ReqEnd'
      BY <1>0, <2>4 DEF ReqEnd, LastReqK
    <2>6. \A j \in 1..Len(s2r) : RespOK(s2r[j], reqs', InPhase')
      BY <2>4 DEF RespItems, InPhase
    <2>7. RespOK(e, reqs', InPhase')
      BY <1>0, <2>4, <2>1 DEF RespOK, ReqEnd
    <2>8. RespItems'
      BY <2>3, <2>6, <2>7 DEF RespItems
    <2>9. Len(s2r) > 0 => Follows(s2r[Len(s2r)], e)
      BY <1>0, <2>4, <2>1 DEF RespEnd, Follows
    <2>10. RespChain(s2r')
      BY <2>1, <2>2, <2>9, RespChainAppend DEF RespOrder, RespType
    <2>11. RespOrder'
      BY <2>10 DEF RespOrder
    <2>12. RespHead'
      BY <1>0, <2>4, <2>1, <2>3e DEF RespHead, RespNone
    <2>13. RespEnd'
      BY <1>0, <2>4, <2>1, <2>3e DEF RespEnd
    <2>14. RespNone'
      BY <1>0, <2>4, <2>3e DEF RespNone
    <2>15. GenInv' /\ ChanItems' /\ ChanOrder' /\ ChanEnd' /\ RecvInv' /\ AllReceived'
      BY <2>4, Zenon DEF GenInv, ChanItems, ChanOrder, ChanEnd, RecvInv, AllReceived, GenGone, LastItemK
    <2>16. ReqItems' /\ ReqOrder'
      BY <2>4, Zenon DEF ReqItems, ReqOrder, InPhase
    <2> QED
      BY <2>5, <2>8, <2>11, <2>12, <2>13, <2>14, <2>15, <2>16
  <1>6. CASE SenderOverflow
    <2>1. UNCHANGED <<pcG, gItem, chan, pcR, rItem, written, pcS, sCur, r2s, s2r, reqs>>
      BY <1>6 DEF SenderOverflow
    <2>2. GenInv' /\ ChanItems' /\ ChanOrder' /\ ChanEnd' /\ RecvInv' /\ AllReceived'
      BY <2>1, Zenon DEF GenInv, ChanItems, ChanOrder, ChanEnd, RecvInv, AllReceived, GenGone, LastItemK
    <2>3. ReqItems' /\ ReqOrder' /\ ReqEnd'
      BY <2>1, Zenon DEF ReqItems, ReqOrder, ReqEnd, InPhase, LastReqK
    <2>4. RespItems' /\ RespOrder' /\ RespHead' /\ RespEnd' /\ RespNone'
      BY <2>1, Zenon DEF RespItems, RespOrder, RespHead, RespEnd, RespNone, InPhase
    <2> QED
      BY <2>2, <2>3, <2>4
  <1>7. CASE SenderFlush
    <2>1. /\ pcS = "flush" /\ pcS' \in {"read", "flush", "ended"}
          /\ UNCHANGED <<pcG, gItem, chan, pcR, rItem, written, sCur, r2s, s2r, reqs>>
      BY <1>7 DEF SenderFlush, SendType
    <2>2. ReqEnd'
      BY <1>0, <2>1, Zenon DEF ReqEnd, LastReqK
    <2>3. RespEnd'
      BY <1>0, <2>1 DEF RespEnd
    <2>4. RespNone'
      BY <1>0, <2>1 DEF RespNone
    <2>5. GenInv' /\ ChanItems' /\ ChanOrder' /\ ChanEnd' /\ RecvInv' /\ AllReceived'
      BY <2>1, Zenon DEF GenInv, ChanItems, ChanOrder, ChanEnd, RecvInv, AllReceived, GenGone, LastItemK
    <2>6. ReqItems' /\ ReqOrder'
      BY <2>1, Zenon DEF ReqItems, ReqOrder, InPhase
    <2>7. RespItems' /\ RespOrder' /\ RespHead'
      BY <2>1, Zenon DEF RespItems, RespOrder, RespHead, InPhase
    <2> QED
      BY <2>2, <2>3, <2>4, <2>5, <2>6, <2>7
  <1>8. CASE SenderDrain
    <2>1. UNCHANGED <<pcG, gItem, chan, pcR, rItem, written, pcS, sCur, r2s, s2r, reqs>>
      BY <1>8 DEF SenderDrain
    <2>2. GenInv' /\ ChanItems' /\ ChanOrder' /\ ChanEnd' /\ RecvInv' /\ AllReceived'
      BY <2>1, Zenon DEF GenInv, ChanItems, ChanOrder, ChanEnd, RecvInv, AllReceived, GenGone, LastItemK
    <2>3. ReqItems' /\ ReqOrder' /\ ReqEnd'
      BY <2>1, Zenon DEF ReqItems, ReqOrder, ReqEnd, InPhase, LastReqK
    <2>4. RespItems' /\ RespOrder' /\ RespHead' /\ RespEnd' /\ RespNone'
      BY <2>1, Zenon DEF RespItems, RespOrder, RespHead, RespEnd, RespNone, InPhase
    <2> QED
      BY <2>2, <2>3, <2>4
  <1>9. CASE SenderStop
    <2>1. OnWire \in 0..Len(s2r)
      BY <1>0 DEF RespType, OnWire
    <2>2. s2r' = SubSeq(s2r, 1, OnWire)
      BY <1>9 DEF SenderStop
    <2>3. /\ Len(s2r') = OnWire /\ Len(s2r') <= Len(s2r) /\ Len(s2r') \in Nat
          /\ \A i \in 1..Len(s2r') : s2r'[i] = s2r[i]
      <3>1. s2r \in Seq(RespFrames)
        BY DEF RespType
      <3>2. /\ Len(s2r') = OnWire
            /\ \A i \in 1..OnWire : s2r'[i] = s2r[i]
        BY <2>1, <2>2, <3>1, PrefixFacts
      <3>3. OnWire \in Nat /\ OnWire <= Len(s2r)
        BY <1>0, <2>1
      <3> QED
        BY <3>2, <3>3
    <2>3e. /\ Len(s2r') = OnWire /\ Len(s2r') <= Len(s2r) /\ Len(s2r') \in Nat
           /\ Len(s2r') > 0 => s2r'[1] = s2r[1]
      BY <2>3
    <2>4. RespChain(s2r')
      BY <2>1, <2>2, RespChainPrefix DEF RespOrder, RespType
    <2>5. /\ pcS' = "failed"
          /\ UNCHANGED <<pcG, gItem, chan, pcR, rItem, written, sCur, r2s, reqs>>
      BY <1>9 DEF SenderStop
    <2>6. ReqEnd'
      BY <1>0, <2>5, Zenon DEF ReqEnd, LastReqK
    <2>7. RespItems'
      BY <1>0, <2>5, <2>3 DEF RespItems, InPhase
    <2>8. RespOrder'
      BY <2>4 DEF RespOrder
    <2>9. RespHead'
      BY <1>0, <2>5, <2>3e DEF RespHead
    <2>10. RespEnd'
      BY <2>5 DEF RespEnd
    <2>11. RespNone'
      BY <2>5 DEF RespNone
    <2>12. GenInv' /\ ChanItems' /\ ChanOrder' /\ ChanEnd' /\ RecvInv' /\ AllReceived'
      BY <2>5, Zenon DEF GenInv, ChanItems, ChanOrder, ChanEnd, RecvInv, AllReceived, GenGone, LastItemK
    <2>13. ReqItems' /\ ReqOrder'
      BY <2>5, Zenon DEF ReqItems, ReqOrder, InPhase
    <2> QED
      BY <2>6, <2>7, <2>8, <2>9, <2>10, <2>11, <2>12, <2>13
  <1> QED
    BY <1>1, <1>2, <1>3, <1>4, <1>5, <1>6, <1>7, <1>8, <1>9, Zenon DEF SendNext

\* Every step keeps the queues in order: the inductive step of QueuesInOrder.
LEMMA OrderStep == TypeOK /\ QueueOrder /\ [Next]_vars => QueueOrder'
  <1> SUFFICES ASSUME TypeOK, QueueOrder, [Next]_vars PROVE QueueOrder'
    OBVIOUS
  <1>1. CASE GenNext
    BY <1>1, GenOrder
  <1>2. CASE RecvNext \/ RecvFault
    BY <1>2, RecvOrder
  <1>3. CASE SendNext \/ SenderStop
    BY <1>3, SendOrder
  <1>4. CASE UNCHANGED vars
    <2> USE <1>4 DEF QueueOrder, vars, genVars, recvVars, sendVars
    <2>1. GenInv' /\ ChanItems' /\ ChanOrder' /\ ChanEnd'
      BY Zenon DEF GenInv, ChanItems, ChanOrder, ChanEnd, GenGone, LastItemK
    <2>2. RecvInv' /\ AllReceived'
      BY DEF RecvInv, AllReceived
    <2>3. ReqItems' /\ ReqOrder' /\ ReqEnd'
      BY Zenon DEF ReqItems, ReqOrder, ReqEnd, InPhase, LastReqK
    <2>4. RespItems' /\ RespOrder' /\ RespHead' /\ RespEnd' /\ RespNone'
      BY Zenon DEF RespItems, RespOrder, RespHead, RespEnd, RespNone, InPhase
    <2> QED
      BY <2>1, <2>2, <2>3, <2>4
  <1> QED
    BY <1>1, <1>2, <1>3, <1>4 DEF Next

-----------------------------------------------------------------------------
\* The theorems.

\* The queues between the three tasks stay in the order of the requests, whatever
\* the capacities of the channel, the buffers and the transport.
THEOREM QueuesInOrder == Spec => [](TypeOK /\ QueueOrder)
  <1>1. Init => TypeOK /\ QueueOrder
    BY TypeInit, OrderInit
  <1>2. TypeOK /\ QueueOrder /\ [Next]_vars => (TypeOK /\ QueueOrder)'
    BY TypeStep, OrderStep
  <1> QED
    BY <1>1, <1>2, PTL DEF Spec

\* The receiver task, which ignores the NDX it reads, always reads the response
\* to the request for the file it is writing.
THEOREM PairingHolds == Spec => []ResponsePairing
  <1>1. TypeOK /\ QueueOrder => ResponsePairing
    <2> SUFFICES ASSUME TypeOK, QueueOrder, OnWire > 0 PROVE ResponsePairing
      BY DEF ResponsePairing
    <2> USE DEF TypeOK, QueueOrder
    <2>1. /\ Len(s2r) \in Nat /\ Len(reqs) \in Nat /\ Len(written) \in Nat
          /\ Len(s2r) > 0
      BY Numbers DEF RespType, OnWire
    <2>2. Head(s2r) = s2r[1]
      BY <2>1, TailFacts DEF RespType
    <2>3. RespOK(s2r[1], reqs, InPhase)
      BY <2>1 DEF RespItems
    <2>4. CASE pcR = "hdr"
      BY <2>1, <2>2, <2>3, <2>4, Zenon DEF ResponsePairing, RespHead, RespOK, InPhase, About, RecvInv
    <2>5. CASE pcR = "body"
      BY <2>1, <2>2, <2>3, <2>5, Zenon DEF ResponsePairing, RespHead, RespOK, About, RecvInv
    <2>6. CASE pcR = "phase_read"
      <3>1. Len(written) = Len(reqs)
        BY <2>6 DEF RecvInv
      <3>2. s2r[1].type = "hdr" => s2r[1].k \in 1..Len(reqs)
        BY <2>3 DEF RespOK, About
      <3>3. (s2r[1].type = "hdr" /\ s2r[1].k = Len(written) + 1) \/ s2r[1].type = "done"
        BY <2>1, <2>6 DEF RespHead
      <3>4. s2r[1].type = "done"
        BY <2>1, <3>1, <3>2, <3>3
      <3> QED
        BY <2>2, <2>6, <3>4 DEF ResponsePairing
    <2> QED
      BY <2>4, <2>5, <2>6, Zenon DEF ResponsePairing
  <1> QED
    BY <1>1, QueuesInOrder, PTL

\* Files are finished in the order they were requested, and the phase exchange
\* starts only when all of them are, also when a task fails.
THEOREM ReceivedInOrder == Spec => []AllReceived
  <1>1. TypeOK /\ QueueOrder => AllReceived
    BY DEF QueueOrder
  <1> QED
    BY <1>1, QueuesInOrder, PTL

\* The channel bounds how far the generator runs ahead of the receiver.
THEOREM PipelineBounded == Spec => []PipelineBound
  <1>1. TypeOK /\ QueueOrder => PipelineBound
    <2> SUFFICES ASSUME TypeOK, QueueOrder PROVE PipelineBound
      OBVIOUS
    <2> USE DEF TypeOK, QueueOrder
    <2>1. /\ Len(chan) \in Nat /\ Len(reqs) \in Nat /\ Len(written) \in Nat
          /\ rItem.k \in Nat /\ ChanCap \in Nat
      BY Numbers, WireAssumption
    <2>2. Len(chan) <= ChanCap
      BY DEF ChanType
    <2>3. ASSUME Len(chan) > 0 PROVE LastItemK <= rItem.k + Len(chan)
      <3>1. chan[1] \in Items /\ chan[Len(chan)] \in Items
        BY <2>1, <2>3 DEF ChanType
      <3>2. chan[1].k \in Nat /\ chan[Len(chan)].k \in Nat
        BY <3>1, ItemFields
      <3>3. chan[Len(chan)].k <= chan[1].k + (Len(chan) - 1)
        <4>1. 1 \in 1..Len(chan) /\ Len(chan) \in 1..Len(chan) /\ 1 <= Len(chan)
          BY <2>1, <2>3
        <4> QED
          BY <4>1, Zenon DEF ChanOrder, ItemChain
      <3>4. chan[1].k <= rItem.k + 1
        BY <2>1, <2>3, <3>2 DEF ChanOrder, ItemStep
      <3> QED
        BY <2>1, <2>3, <3>2, <3>3, <3>4 DEF LastItemK
    <2>4. LastItemK <= rItem.k + Len(chan)
      BY <2>1, <2>3 DEF LastItemK
    <2>5. LastItemK \in Nat
      BY <2>1, ItemFields DEF LastItemK, ChanType
    <2>6. rItem.k <= Len(written) + 1 /\ Len(reqs) <= LastItemK + 1
      BY <2>1, <2>5 DEF RecvInv, ChanEnd
    <2> QED
      BY <2>1, <2>2, <2>4, <2>5, <2>6 DEF PipelineBound
  <1> QED
    BY <1>1, QueuesInOrder, PTL

-----------------------------------------------------------------------------
\* A step of the generator is a request or is not seen.
LEMMA GenRefines ==
  TypeOK /\ QueueOrder /\ GenNext => Ordered!Request \/ UNCHANGED <<reqs, written, Stage>>
  <1> SUFFICES ASSUME TypeOK, QueueOrder, GenNext
               PROVE Ordered!Request \/ UNCHANGED <<reqs, written, Stage>>
    OBVIOUS
  <1>1. CASE GenWrite
    <2>1. gItem.idx \in Entries
      BY <1>1, ItemFields DEF GenWrite, TypeOK, GenType, Items
    <2>2. Stage # "exchange"
      BY <1>1 DEF GenWrite, Stage, QueueOrder, RecvInv
    <2>3. reqs' = Append(reqs, gItem.idx) /\ UNCHANGED <<written, Stage>>
      BY <1>1 DEF GenWrite, recvVars, Stage
    <2> QED
      BY <2>1, <2>2, <2>3 DEF Ordered!Request
  <1>2. CASE ~GenWrite
    BY <1>2 DEF GenNext, GenDispatch, GenDone, GenWriteErr, GenSend, GenSendErr, recvVars, Stage
  <1> QED
    BY <1>1, <1>2

\* A step of the receiver finishes the file that was requested next, begins the exchange with
\* every file finished, fails, or is not seen.
LEMMA RecvRefines ==
  TypeOK /\ QueueOrder /\ QueueOrder' /\ TypeOK' /\ (RecvNext \/ RecvFault)
    => Ordered!Next \/ UNCHANGED <<reqs, written, Stage>>
  <1> SUFFICES ASSUME TypeOK, QueueOrder, QueueOrder', TypeOK', RecvNext \/ RecvFault
               PROVE Ordered!Next \/ UNCHANGED <<reqs, written, Stage>>
    OBVIOUS
  <1>1. CASE RecvBody
    <2>1. CASE Head(s2r).type = "eof"
      <3>1. rItem.k = Len(written) + 1 /\ About(rItem.k, rItem.idx, reqs)
        BY <1>1 DEF RecvBody, QueueOrder, RecvInv
      <3>2. Len(written) < Len(reqs) /\ rItem.idx = reqs[Len(written) + 1]
        BY <3>1, Numbers DEF About, TypeOK
      <3>3. written' = Append(written, rItem.idx) /\ UNCHANGED <<reqs, Stage>> /\ Stage = "transfer"
        BY <1>1, <2>1 DEF RecvBody, Stage
      <3> QED
        BY <3>2, <3>3 DEF Ordered!Next, Ordered!Finish
    <2>2. CASE Head(s2r).type # "eof"
      BY <1>1, <2>2 DEF RecvBody, Stage
    <2> QED
      BY <2>1, <2>2
  <1>2. CASE RecvJoin /\ pcR' = "phase"
    <2>1. UNCHANGED <<reqs, written>> /\ Stage = "transfer" /\ Stage' = "exchange"
      BY <1>2 DEF RecvJoin, Stage
    <2>2. Len(written) = Len(reqs) /\ \A i \in 1..Len(written) : written[i] = reqs[i]
      BY <1>2, <2>1 DEF QueueOrder, AllReceived
    <2>3. written = reqs
      <3>1. written \in Seq(Entries) /\ reqs \in Seq(Entries)
        BY DEF TypeOK, RecvType, GenType
      <3> QED
        BY <2>2, <3>1
    <2> QED
      BY <2>1, <2>3 DEF Ordered!Next, Ordered!Exchange
  <1>3. CASE pcR' = "failed"
    <2>1. UNCHANGED <<reqs, written>> /\ Stage' = "failed"
      BY <1>3 DEF RecvNext, RecvItem, RecvClosed, RecvHdr, RecvBody, RecvEof, RecvJoin, RecvAck,
                  PhaseWrite, PhaseRead, RecvWriteErr, RecvFault, Stage
    <2> QED
      BY <2>1 DEF Ordered!Next, Ordered!Fail
  <1>4. CASE ~RecvBody /\ pcR' # "failed" /\ ~(RecvJoin /\ pcR' = "phase")
    BY <1>4 DEF RecvNext, RecvItem, RecvClosed, RecvHdr, RecvEof, RecvJoin, RecvAck,
                PhaseWrite, PhaseRead, RecvWriteErr, RecvFault, Stage
  <1> QED
    BY <1>1, <1>2, <1>3, <1>4

\* The three tasks implement OrderedTransfer: whatever the capacities and the faults, files are
\* requested and finished in one order, and reported only when all are finished.
THEOREM Implements == Spec => IsOrderedTransfer
  <1>1. Init => Ordered!Init
    BY DEF Init, Ordered!Init, Stage
  <1>2. /\ TypeOK /\ QueueOrder /\ TypeOK' /\ QueueOrder' /\ [Next]_vars
        => [Ordered!Next]_(Ordered!vars)
    <2> SUFFICES ASSUME TypeOK, QueueOrder, TypeOK', QueueOrder', [Next]_vars
                 PROVE Ordered!Next \/ UNCHANGED <<reqs, written, Stage>>
      BY DEF Ordered!vars
    <2>1. CASE GenNext
      BY <2>1, GenRefines DEF Ordered!Next
    <2>2. CASE RecvNext \/ RecvFault
      BY <2>2, RecvRefines
    <2>3. CASE SendNext \/ SenderStop
      BY <2>3 DEF SendNext, SenderReadSuccess, SenderReadDone, SenderReadReq, SenderToken, SenderEof,
                  SenderOverflow, SenderFlush, SenderDrain, SenderStop, recvVars, Stage
    <2>4. CASE UNCHANGED vars
      BY <2>4 DEF vars, recvVars, Stage
    <2> QED
      BY <2>1, <2>2, <2>3, <2>4 DEF Next
  <1> QED
    BY <1>1, <1>2, QueuesInOrder, PTL DEF Spec, IsOrderedTransfer, Ordered!Spec
=============================================================================
