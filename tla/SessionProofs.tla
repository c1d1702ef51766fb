--------------------------- MODULE SessionProofs ---------------------------
(***************************************************************************)
(* Proofs about Session, for any number of files and of phases and any set *)
(* of options the two sides agree on: the stages stay in step, and a       *)
(* sender leaves its loop only with everything received.  The invariant    *)
(* and the argument are in SessionInvariant.                               *)
(***************************************************************************)
EXTENDS SessionInvariant

\* The longer contexts take a prover more than its default time.
USE SMTT(20), ZenonT(20)

\* While the receiver is in its loop the sender is not past the last request: it has
\* skipped no success message, counted no phase and written no more than the responses.
LEMMA LoopCap ==
    ASSUME Options \subseteq SupportedOptions, TypeOK, NEW p \in SenderStages,
           AtReceiver("loop"), AtSender(p, "loop"), Complete(p, "loop")
    PROVE  /\ SenderWrote("loop") <= PushFilter(opt) + ListLen(opt) + Requests
           /\ p \in {"inject", "read"} => Skipped("loop") = 0 /\ phase = 0
           /\ p \in {"filter", "flist", "inject", "read"}
<1>1. PushFilter(opt) \in Nat /\ PullFilter(opt) \in Nat /\ ListLen(opt) \in Nat
    <2>1. opt \in SupportedOptions
        BY DEF TypeOK
    <2> QED
        BY <2>1, OptionFacts
<1>2. /\ SenderWrote("loop") \in Int /\ SenderRead("loop") \in Int /\ Requests \in Nat
      /\ LoopBase \in Int /\ Answered("loop") \in Int /\ Skipped("loop") \in Int
      /\ phase \in Nat /\ pending \in Nat /\ ReceiverWrote("loop") \in Int /\ Len(r2s) \in Nat
    <2>1. "loop" \in ReceiverStages
        BY DEF ReceiverStages
    <2>2. phase \in Nat /\ pending \in Nat
        BY SessionAssumption DEF TypeOK
    <2> QED
        BY <2>1, <2>2, CountsType
<1>3. p \in {"filter", "flist", "inject", "read"}
    BY DEF Complete, SenderStages
<1>4. SenderRead("loop") <= PullFilter(opt) + Requests
    <2>1. ReceiverWrote("loop") = PullFilter(opt) + Requests + acked + rounds /\ acked = 0 /\ rounds = 0
        BY ReceiverCounts DEF StageCounts, AtReceiver
    <2>2. SenderRead("loop") = ReceiverWrote("loop") - Len(r2s)
        BY DEF SenderRead
    <2> QED
        BY <1>1, <1>2, <2>1, <2>2
<1>5. CASE p \in {"filter", "flist"}
    <2>1. SenderWrote("loop") \in {0, PushFilter(opt)}
        BY <1>5 DEF AtSender
    <2> QED
        BY <1>1, <1>2, <1>5, <2>1
<1>6. CASE p \in {"inject", "read"}
    <2>1. /\ 0 <= Answered("loop") /\ Answered("loop") <= Requests /\ 0 <= Skipped("loop")
          /\ Skipped("loop") > 0 => Answered("loop") = Requests
          /\ phase > 0 => Answered("loop") = Requests /\ Skipped("loop") = Requests
        BY <1>2, <1>6 DEF AtSender
    <2>2. SenderRead("loop") = PullFilter(opt) + phase + Answered("loop") + Skipped("loop")
        BY <1>1, <1>2 DEF Skipped
    <2>3. phase = 0 /\ Skipped("loop") = 0
        BY <1>1, <1>2, <1>4, <2>1, <2>2
    <2>4. LoopBase <= PushFilter(opt) + ListLen(opt)
        BY <1>1, <1>2, <2>3 DEF LoopBase
    <2>5. SenderWrote("loop") = LoopBase + Answered("loop")
        BY <1>2 DEF Answered
    <2> QED
        BY <1>1, <1>2, <1>3, <2>1, <2>3, <2>4, <2>5
<1> QED
    BY <1>3, <1>5, <1>6

-----------------------------------------------------------------------------
\* Every step of the receiver keeps the invariant.
LEMMA ReceiverStep ==
    ASSUME Options \subseteq SupportedOptions, TypeOK, ShortByes,
           NEW p \in SenderStages, NEW q \in ReceiverStages, Together(p, q), ReceiverNext
    PROVE  IInv'
<1>1. UNCHANGED <<opt, sendVars>>
    BY DEF ReceiverNext, ReceiverFilterList, RecvFileList, RecvSubFlist, Dispatch, ReceiveFile, LoopDone,
           WriteSuccess, PhaseWrite, PhaseRead, ReadStats, ReceiverBye
<1>2. pcR = q /\ q # "over"
    BY DEF ReceiverNext, ReceiverFilterList, RecvFileList, RecvSubFlist, Dispatch, ReceiveFile, LoopDone,
           WriteSuccess, PhaseWrite, PhaseRead, ReadStats, ReceiverBye, Together, ReceiverStages
<1>3. /\ AtReceiver(q) /\ ToReceiver(q) /\ ToSender(q) /\ Complete(p, q)
      /\ pcS \in {p, "failed"} /\ pcR # "failed"
      /\ q # "bye" => AtSender(p, q)
    BY <1>2 DEF Together, ReceiverStages
<1>4. /\ opt \in SupportedOptions
      /\ PushFilter(opt) \in {0, 1} /\ PullFilter(opt) \in {0, 1} /\ ListLen(opt) \in 1..3
      /\ opt.dir \in {"push", "pull"} /\ opt.inc \in BOOLEAN /\ opt.append \in BOOLEAN
      /\ opt.groups \in 1..2
    BY OptionFacts DEF TypeOK
<1>5. /\ Requests \in Nat /\ MaxPhase \in Nat /\ Files \in Nat
      /\ got \in Nat /\ acked \in Nat /\ rounds \in Nat /\ flists \in Nat
    BY CountsType, SessionAssumption DEF TypeOK
<1>N. /\ PushFilter(opt) \in Int /\ PullFilter(opt) \in Int /\ ListLen(opt) \in Int
      /\ SenderWrote(q) \in Int /\ SenderRead(q) \in Int /\ Requests \in Int /\ MaxPhase \in Int
      /\ ReceiverRead(q) \in Int /\ ReceiverWrote(q) \in Int
      /\ got \in Int /\ acked \in Int /\ rounds \in Int /\ flists \in Int
    BY <1>4, <1>5, CountsType
<1>6. /\ opt' = opt /\ pcS' = pcS /\ sBye' = sBye /\ removed' = removed
      /\ SenderByeRead' = SenderByeRead /\ SenderByeWrote' = SenderByeWrote
    BY <1>1 DEF sendVars, SenderByeRead, SenderByeWrote
\* What is left to show of a step that takes the receiver to stage q2.
<1>7. ASSUME NEW q2 \in ReceiverStages, pcR' \in {q2, "failed"}, TypeOK', AtReceiver(q2)',
             ToReceiver(q2)', ToSender(q2)', Complete(p, q2)', rBye' = rBye, AtSender(p, q2)'
      PROVE  IInv'
    <2>1. Together(p, q2)'
        BY <1>3, <1>6, <1>7 DEF Together
    <2>2. ShortByes'
        BY <1>6, <1>7 DEF ShortByes, ReceiverByeRead, ReceiverByeWrote
    <2> QED
        BY <1>7, <2>1, <2>2 DEF IInv
\* The sender is where it was, if the step has not changed what it has written and read.
<1>8. ASSUME NEW q2 \in ReceiverStages, AtSender(p, q), asked' = asked,
             SenderWrote(q2)' = SenderWrote(q), SenderRead(q2)' = SenderRead(q)
      PROVE  AtSender(p, q2)'
    BY <1>1, <1>3, <1>8, SenderKept
<1>9. ASSUME q \notin {"phase_read", "stats", "bye"}, NEW q2
      PROVE  Complete(p, q2)'
    BY <1>2, <1>3, <1>6, <1>9 DEF Complete, ReceiverStages
<1>10. CASE ReceiverFilterList
    <2>1. /\ q = "filter" /\ UNCHANGED <<rBye, flists, next, asked, got, stored, acked, rounds>>
          /\ Requests' = Requests
        BY <1>2, <1>10 DEF ReceiverFilterList, Requests
    <2>2. ReceiverRead(q) = 0 /\ ReceiverWrote(q) = 0
        BY <2>1, ReceiverCounts DEF StageCounts
    <2>3. ReceiverRead("flist")' = PushFilter(opt) /\ ReceiverWrote("flist")' = PullFilter(opt)
        BY <1>6, ReceiverCounts DEF StageCounts
    <2>4. AtReceiver("flist")' /\ "flist" \in ReceiverStages
        BY <1>3, <1>6, <2>1 DEF AtReceiver, ReceiverStages
    <2>5. CASE Push /\ opt.read_only /\ pcR' = "failed" /\ UNCHANGED <<s2r, r2s>>
        <3>1. ReceiverRead(q)' = ReceiverRead(q) /\ ReceiverWrote(q)' = ReceiverWrote(q)
            BY <2>1, <2>2, ReceiverCounts DEF StageCounts
        <3>2. /\ ToReceiver(q)' /\ ToSender(q)'
              /\ SenderWrote(q)' = SenderWrote(q) /\ SenderRead(q)' = SenderRead(q)
            BY <1>3, <1>6, <2>1, <2>5, <3>1, ReceiverMoves
        <3>3. TypeOK'
            BY <1>1, <2>1, <2>5 DEF TypeOK, sendVars
        <3>4. AtReceiver(q)'
            BY <1>3, <1>6, <2>1 DEF AtReceiver
        <3>5. AtSender(p, q)' /\ Complete(p, q)'
            BY <1>3, <1>8, <1>9, <2>1, <3>2
        <3> QED
            BY <1>7, <2>1, <2>5, <3>2, <3>3, <3>4, <3>5
    <2>6. CASE /\ Push /\ ~opt.read_only /\ ~ExpectsFilterList(opt)
               /\ pcR' = "flist" /\ UNCHANGED <<s2r, r2s>>
        <3>1. PushFilter(opt) = 0 /\ PullFilter(opt) = 0
            BY <2>6 DEF ExpectsFilterList, Push, PushFilter, PullFilter
        <3>2. /\ ToReceiver("flist")' /\ ToSender("flist")'
              /\ SenderWrote("flist")' = SenderWrote(q) /\ SenderRead("flist")' = SenderRead(q)
            BY <1>3, <1>6, <2>1, <2>2, <2>3, <2>4, <2>6, <3>1, ReceiverMoves
        <3>3. TypeOK'
            BY <1>1, <2>1, <2>6 DEF TypeOK, sendVars
        <3>4. AtSender(p, "flist")' /\ Complete(p, "flist")'
            BY <1>3, <1>8, <1>9, <2>1, <2>4, <3>2
        <3> QED
            BY <1>7, <2>1, <2>4, <2>6, <3>2, <3>3, <3>4
    <2>7. CASE /\ Push /\ ~opt.read_only /\ ExpectsFilterList(opt)
               /\ ReceiverTakes({"filter"}, "flist") /\ UNCHANGED r2s
        <3>1. PushFilter(opt) = 1 /\ PullFilter(opt) = 0
            BY <2>7 DEF ExpectsFilterList, Push, PushFilter, PullFilter
        <3>2. s2r # <<>> /\ Head(s2r).kind = "filter"
            <4>1. s2r # <<>>
                BY <2>7 DEF ReceiverTakes
            <4>2. Head(s2r).kind = SenderWord(opt, Requests, ReceiverRead(q) + 1)
                BY <1>3, <4>1, NextFrame
            <4>3. SenderWord(opt, Requests, ReceiverRead(q) + 1) = "filter"
                BY <1>4, <1>5, <2>2, <3>1, SenderWordIs
            <4> QED
                BY <4>1, <4>2, <4>3
        <3>3. s2r' = Tail(s2r) /\ pcR' = "flist" /\ r2s' = r2s
            BY <2>7, <3>2 DEF ReceiverTakes
        <3>4. /\ ToReceiver("flist")' /\ ToSender("flist")'
              /\ SenderWrote("flist")' = SenderWrote(q) /\ SenderRead("flist")' = SenderRead(q)
            BY <1>3, <1>6, <2>1, <2>2, <2>3, <2>4, <3>1, <3>2, <3>3, ReceiverReads
        <3>5. TypeOK'
            BY <1>1, <2>1, <3>2, <3>3 DEF TypeOK, sendVars
        <3>6. AtSender(p, "flist")' /\ Complete(p, "flist")'
            BY <1>3, <1>8, <1>9, <2>1, <2>4, <3>4
        <3> QED
            BY <1>7, <2>1, <2>4, <3>3, <3>4, <3>5, <3>6
    <2>8. CASE Pull /\ r2s' = Append(r2s, Mark("filter")) /\ pcR' = "flist" /\ UNCHANGED s2r
        <3>1. PushFilter(opt) = 0 /\ PullFilter(opt) = 1
            BY <2>8 DEF Pull, PushFilter, PullFilter
        <3>2. /\ Mark("filter") \in ReceiverFrames /\ Mark("filter").kind = "filter"
              /\ ReceiverWord(opt, Requests, ReceiverWrote(q) + 1) = "filter"
            BY <1>4, <1>5, <2>2, <3>1, ReceiverWordIs DEF Mark, Frame, ReceiverFrames
        <3>3. /\ ToReceiver("flist")' /\ ToSender("flist")'
              /\ SenderWrote("flist")' = SenderWrote(q) /\ SenderRead("flist")' = SenderRead(q)
            BY <1>3, <1>6, <2>1, <2>2, <2>3, <2>4, <2>8, <3>1, <3>2, ReceiverWrites
        <3>4. TypeOK'
            BY <1>1, <2>1, <2>8, <3>2 DEF TypeOK, sendVars
        <3>5. AtSender(p, "flist")' /\ Complete(p, "flist")'
            BY <1>3, <1>8, <1>9, <2>1, <2>4, <3>3
        <3> QED
            BY <1>7, <2>1, <2>4, <2>8, <3>3, <3>4, <3>5
    <2> QED
        BY <1>10, <2>5, <2>6, <2>7, <2>8 DEF ReceiverFilterList
\* A step that reads the frame its stage expects.
<1>11. ASSUME NEW q2 \in ReceiverStages, NEW k, s2r # <<>>, r2s' = r2s, asked' = asked, rBye' = rBye,
              SenderWord(opt, Requests, ReceiverRead(q) + 1) = k,
              Head(s2r).kind = k => s2r' = Tail(s2r) /\ pcR' = q2,
              s2r' = Tail(s2r) => /\ ReceiverRead(q2)' = ReceiverRead(q) + 1
                                  /\ ReceiverWrote(q2)' = ReceiverWrote(q)
                                  /\ AtReceiver(q2)' /\ Complete(p, q2)',
              s2r' = Tail(s2r) /\ pcR' = q2 /\ s2r' \in Seq(SenderFrames) => TypeOK',
              AtSender(p, q)
       PROVE  IInv'
    <2>1. s2r' = Tail(s2r) /\ pcR' = q2
        BY <1>3, <1>11, NextFrame
    <2>2. TypeOK'
        BY <1>11, <2>1, QueueRead DEF TypeOK
    <2>3. /\ ToReceiver(q2)' /\ ToSender(q2)'
          /\ SenderWrote(q2)' = SenderWrote(q) /\ SenderRead(q2)' = SenderRead(q)
        BY <1>3, <1>6, <1>11, <2>1, ReceiverReads
    <2>4. AtSender(p, q2)'
        BY <1>8, <1>11, <2>3
    <2> QED
        BY <1>7, <1>11, <2>1, <2>2, <2>3, <2>4
<1>12. CASE RecvFileList
    <2>q. PICK q2 \in ReceiverStages : q2 = IF opt.inc THEN "markers" ELSE AfterFileList
        BY DEF AfterFileList, ReceiverStages
    <2>k. PICK k : k = IF opt.inc THEN "root" ELSE "flist"
        OBVIOUS
    <2>1. /\ q = "flist" /\ flists' = 1 /\ s2r # <<>>
          /\ UNCHANGED <<rBye, next, asked, got, stored, acked, rounds, r2s>>
          /\ Head(s2r).kind = k => s2r' = Tail(s2r) /\ pcR' = q2
        BY <1>2, <1>12, <2>q, <2>k DEF RecvFileList, ReceiverTakes
    <2>2. /\ asked = <<>> /\ Requests = 0 /\ got = 0 /\ acked = 0 /\ rounds = 0 /\ Requests' = 0
          /\ rBye = ReceiverGoodbye(opt)
        BY <1>3, <2>1 DEF AtReceiver, Requests
    <2>3. q2 \in {"markers", "loop", "phase"} /\ (q2 = "markers" <=> opt.inc) /\ q2 \in ReceiverStages
        BY <1>4, <2>q DEF AfterFileList
    <2>4. ReceiverRead(q) = PushFilter(opt) /\ ReceiverWrote(q) = PullFilter(opt)
        BY <2>1, ReceiverCounts DEF StageCounts
    <2>5. SenderWord(opt, Requests, ReceiverRead(q) + 1) = k
        <3>1. /\ ReceiverRead(q) + 1 \in Int /\ ReceiverRead(q) + 1 = PushFilter(opt) + 1
              /\ PushFilter(opt) < ReceiverRead(q) + 1
              /\ ReceiverRead(q) + 1 <= PushFilter(opt) + ListLen(opt)
            BY <1>4, <2>4
        <3> QED
            BY <1>4, <1>5, <2>k, <3>1, SenderWordIs
    <2>6. AtReceiver(q2)'
        BY <1>4, <1>5, <1>6, <2>1, <2>2, <2>3 DEF AtReceiver
    <2>7. Complete(p, q2)'
        BY <1>9, <2>1
    <2>8. ReceiverRead(q2)' = ReceiverRead(q) + 1 /\ ReceiverWrote(q2)' = ReceiverWrote(q)
        <3>1. CASE q2 = "markers"
            BY <1>6, <2>1, <2>4, <3>1, ReceiverCounts DEF StageCounts
        <3>2. CASE q2 \in {"loop", "phase"}
            <4>1. ListLen(opt) = 1
                BY <2>3, <3>2 DEF ListLen
            <4> QED
                BY <1>N, <1>6, <2>1, <2>2, <2>4, <3>2, <4>1, ReceiverCounts DEF StageCounts
        <3> QED
            BY <2>3, <3>1, <3>2
    <2>9. s2r' = Tail(s2r) /\ pcR' = q2 /\ s2r' \in Seq(SenderFrames) => TypeOK'
        BY <1>1, <2>1, <2>3 DEF TypeOK, sendVars
    <2> QED
        BY <1>3, <1>11, <2>1, <2>3, <2>5, <2>6, <2>7, <2>8, <2>9
<1>13. CASE RecvSubFlist
    <2>q. PICK q2 \in ReceiverStages : q2 = IF flists = opt.groups THEN AfterFileList ELSE "markers"
        BY DEF AfterFileList, ReceiverStages
    <2>k. PICK k : k = IF flists = opt.groups THEN "flist_eof" ELSE "group"
        OBVIOUS
    <2>1. /\ q = "markers" /\ s2r # <<>> /\ opt.inc /\ flists \in 1..opt.groups
          /\ UNCHANGED <<rBye, next, asked, got, stored, acked, rounds, r2s>>
          /\ ListLen(opt) = opt.groups + 1
        BY <1>2, <1>3, <1>13 DEF RecvSubFlist, AtReceiver, ListLen
    <2>2. Head(s2r).kind = k => /\ s2r' = Tail(s2r) /\ pcR' = q2
                                /\ flists' = IF flists = opt.groups THEN flists ELSE flists + 1
        BY <1>13, <2>q, <2>k DEF RecvSubFlist, ReceiverTakes
    <2>3. /\ asked = <<>> /\ Requests = 0 /\ got = 0 /\ acked = 0 /\ rounds = 0 /\ Requests' = 0
          /\ rBye = ReceiverGoodbye(opt)
        BY <1>3, <2>1 DEF AtReceiver, Requests
    <2>4. /\ q2 \in {"markers", "loop", "phase"} /\ (q2 = "markers" <=> flists # opt.groups)
          /\ q2 \in ReceiverStages
        BY <2>q DEF AfterFileList
    <2>5. ReceiverRead(q) = PushFilter(opt) + flists /\ ReceiverWrote(q) = PullFilter(opt)
        BY <2>1, ReceiverCounts DEF StageCounts
    <2>6. SenderWord(opt, Requests, ReceiverRead(q) + 1) = k
        <3>1. /\ ReceiverRead(q) + 1 \in Int
              /\ PushFilter(opt) + 1 < ReceiverRead(q) + 1
              /\ flists # opt.groups => ReceiverRead(q) + 1 < PushFilter(opt) + ListLen(opt)
              /\ flists = opt.groups => ReceiverRead(q) + 1 = PushFilter(opt) + ListLen(opt)
            BY <1>4, <1>5, <2>1, <2>5
        <3> QED
            BY <1>4, <1>5, <2>1, <2>k, <3>1, SenderWordIs
    <2>7. Head(s2r).kind = k
        BY <1>3, <2>1, <2>6, NextFrame
    <2>8. AtReceiver(q2)'
        BY <1>4, <1>5, <1>6, <2>1, <2>2, <2>3, <2>4, <2>7 DEF AtReceiver
    <2>9. Complete(p, q2)'
        BY <1>9, <2>1
    <2>10. ReceiverRead(q2)' = ReceiverRead(q) + 1 /\ ReceiverWrote(q2)' = ReceiverWrote(q)
        <3>1. CASE q2 = "markers"
            <4>1. flists' = flists + 1
                BY <2>2, <2>4, <2>7, <3>1
            <4> QED
                BY <1>N, <1>6, <2>5, <3>1, <4>1, ReceiverCounts DEF StageCounts
        <3>2. CASE q2 \in {"loop", "phase"}
            <4>1. /\ flists + 1 = ListLen(opt) /\ got' = 0 /\ acked' = 0 /\ rounds' = 0
                BY <1>5, <2>1, <2>3, <2>4, <3>2
            <4> QED
                BY <1>N, <1>6, <2>3, <2>5, <3>2, <4>1, ReceiverCounts DEF StageCounts
        <3> QED
            BY <2>4, <3>1, <3>2
    <2>11. s2r' = Tail(s2r) /\ pcR' = q2 /\ s2r' \in Seq(SenderFrames) => TypeOK'
        <3>1. flists' \in 0..3
            BY <1>4, <1>5, <2>1, <2>2, <2>7
        <3> QED
            BY <1>1, <2>1, <2>4, <3>1 DEF TypeOK, sendVars
    <2> QED
        BY <1>3, <1>11, <2>1, <2>2, <2>4, <2>6, <2>7, <2>8, <2>9, <2>10, <2>11
<1>14. CASE ReceiveFile
    <2>1. /\ q = "loop" /\ s2r # <<>> /\ got < Requests
          /\ UNCHANGED <<rBye, flists, next, asked, acked, rounds, r2s>> /\ Requests' = Requests
        BY <1>2, <1>14 DEF ReceiveFile, ReceiverTakes, Requests
    <2>2. Head(s2r).kind = "resp" => /\ s2r' = Tail(s2r) /\ pcR' = "loop"
                                     /\ got' = got + 1 /\ stored' = stored \cup {asked[got + 1]}
        BY <1>14 DEF ReceiveFile, ReceiverTakes
    <2>3. /\ ReceiverRead(q) = PushFilter(opt) + ListLen(opt) + got
          /\ ReceiverWrote(q) = PullFilter(opt) + Requests /\ acked = 0 /\ rounds = 0
        BY <1>3, <1>N, <2>1, ReceiverCounts DEF StageCounts, AtReceiver
    <2>4. SenderWord(opt, Requests, ReceiverRead(q) + 1) = "resp"
        <3>1. /\ ReceiverRead(q) + 1 \in Int
              /\ PushFilter(opt) + ListLen(opt) < ReceiverRead(q) + 1
              /\ ReceiverRead(q) + 1 <= PushFilter(opt) + ListLen(opt) + Requests
            BY <1>4, <1>5, <2>1, <2>3
        <3> QED
            BY <1>4, <1>5, <3>1, SenderWordIs
    <2>5. Head(s2r).kind = "resp"
        BY <1>3, <2>1, <2>4, NextFrame
    <2>6. asked[got + 1] \in 1..Files /\ got + 1 \in 1..Len(asked)
        BY <1>5, <2>1 DEF TypeOK, Requests
    <2>7. AtReceiver("loop")'
        <3>1. \A i \in 1..got' : asked'[i] \in stored'
            BY <1>3, <1>5, <2>1, <2>2, <2>5 DEF AtReceiver
        <3> QED
            BY <1>3, <1>6, <2>1, <2>2, <2>5, <3>1 DEF AtReceiver
    <2>8. ReceiverRead("loop")' = ReceiverRead(q) + 1 /\ ReceiverWrote("loop")' = ReceiverWrote(q)
        BY <1>N, <1>6, <2>1, <2>2, <2>3, <2>5, ReceiverCounts DEF StageCounts
    <2>9. s2r' = Tail(s2r) /\ pcR' = "loop" /\ s2r' \in Seq(SenderFrames) => TypeOK'
        <3>1. got' \in 0..Len(asked') /\ acked' \in 0..got' /\ stored' \subseteq 1..Files
            <4>1. got' = got + 1 /\ acked' = 0 /\ Len(asked') = Len(asked) /\ got + 1 \in 1..Len(asked)
                BY <2>1, <2>2, <2>3, <2>5, <2>6
            <4>2. stored' \subseteq 1..Files
                BY <2>2, <2>5, <2>6, Zenon DEF TypeOK
            <4> QED
                BY <1>5, <4>1, <4>2
        <3> QED
            BY <1>1, <2>1, <3>1 DEF TypeOK, sendVars
    <2>10. Complete(p, "loop")' /\ "loop" \in ReceiverStages
        BY <1>9, <2>1
    <2> QED
        BY <1>3, <1>11, <2>1, <2>2, <2>4, <2>5, <2>7, <2>8, <2>9, <2>10
<1>15. CASE LoopDone
    <2>1. /\ q = "loop" /\ got = Requests /\ pcR' = "phase"
          /\ UNCHANGED <<rBye, flists, next, asked, got, stored, acked, rounds, s2r, r2s>>
          /\ Requests' = Requests
        BY <1>2, <1>15 DEF LoopDone, Requests
    <2>2. ReceiverRead("phase")' = ReceiverRead(q) /\ ReceiverWrote("phase")' = ReceiverWrote(q)
        BY <1>6, <2>1, ReceiverCounts DEF StageCounts
    <2>3. AtReceiver("phase")' /\ "phase" \in ReceiverStages
        BY <1>3, <1>5, <1>6, <2>1 DEF AtReceiver, ReceiverStages
    <2>4. /\ ToReceiver("phase")' /\ ToSender("phase")'
          /\ SenderWrote("phase")' = SenderWrote(q) /\ SenderRead("phase")' = SenderRead(q)
        BY <1>3, <1>6, <2>1, <2>2, <2>3, ReceiverMoves
    <2>5. TypeOK'
        BY <1>1, <2>1 DEF TypeOK, sendVars
    <2>6. AtSender(p, "phase")' /\ Complete(p, "phase")'
        BY <1>3, <1>8, <1>9, <2>1, <2>3, <2>4
    <2> QED
        BY <1>7, <2>1, <2>3, <2>4, <2>5, <2>6
\* A step that writes the frame its stage calls for.
<1>16. ASSUME NEW q2 \in ReceiverStages, NEW f \in ReceiverFrames,
              r2s' = Append(r2s, f), UNCHANGED <<s2r, asked, rBye>>, pcR' = q2,
              f.kind = ReceiverWord(opt, Requests, ReceiverWrote(q) + 1),
              ReceiverRead(q2)' = ReceiverRead(q), ReceiverWrote(q2)' = ReceiverWrote(q) + 1,
              AtReceiver(q2)', Complete(p, q2)', r2s' \in Seq(ReceiverFrames) => TypeOK', AtSender(p, q)
       PROVE  IInv'
    <2>1. r2s' \in Seq(ReceiverFrames)
        BY <1>16 DEF TypeOK
    <2>2. Requests' = Requests
        BY <1>16 DEF Requests
    <2>3. /\ ToReceiver(q2)' /\ ToSender(q2)'
          /\ SenderWrote(q2)' = SenderWrote(q) /\ SenderRead(q2)' = SenderRead(q)
        BY <1>3, <1>6, <1>16, <2>2, ReceiverWrites, Zenon
    <2>4. AtSender(p, q2)'
        BY <1>8, <1>16, <2>3
    <2> QED
        BY <1>7, <1>16, <2>1, <2>3, <2>4
<1>17. CASE WriteSuccess
    <2>1. /\ q = "phase" /\ acked < got /\ acked' = acked + 1 /\ pcR' = "phase"
          /\ r2s' = Append(r2s, Frame("success", asked[acked + 1]))
          /\ UNCHANGED <<rBye, flists, next, asked, got, stored, rounds, s2r>> /\ Requests' = Requests
        BY <1>2, <1>17 DEF WriteSuccess, Requests
    <2>2. got = Requests /\ rounds = 0
        BY <1>3, <1>5, <2>1 DEF AtReceiver
    <2>3. ReceiverRead(q)' = ReceiverRead(q) /\ ReceiverWrote(q)' = ReceiverWrote(q) + 1
        <3>1. /\ q = "phase" /\ acked' = acked + 1 /\ rounds' = rounds /\ got' = got
              /\ Requests' = Requests
            BY <2>1
        <3>2. /\ PullFilter(opt) + Requests + acked' + rounds
                     = PullFilter(opt) + Requests + acked + rounds + 1
            BY <1>N, <3>1
        <3> QED
            BY <1>6, <3>1, <3>2, ReceiverCounts DEF StageCounts
    <2>4. ReceiverWrote(q) = PullFilter(opt) + Requests + acked
        BY <1>N, <2>1, <2>2, ReceiverCounts DEF StageCounts
    <2>5. /\ Frame("success", asked[acked + 1]) \in ReceiverFrames
          /\ Frame("success", asked[acked + 1]).kind = "success"
        <3>1. asked[acked + 1] \in 1..Files
            BY <1>5, <2>1, <2>2 DEF TypeOK, Requests
        <3> QED
            BY <1>5, <3>1 DEF Frame, ReceiverFrames
    <2>6. ReceiverWord(opt, Requests, ReceiverWrote(q) + 1) = "success"
        <3>1. /\ ReceiverWrote(q) + 1 \in Int /\ PullFilter(opt) + Requests < ReceiverWrote(q) + 1
              /\ ReceiverWrote(q) + 1 <= PullFilter(opt) + Requests + Requests
            BY <1>N, <1>5, <2>1, <2>2, <2>4
        <3> QED
            BY <1>4, <1>5, <3>1, ReceiverWordIs
    <2>7. AtReceiver(q)'
        BY <1>3, <1>5, <1>6, <2>1, <2>2 DEF AtReceiver
    <2>8. Complete(p, q)'
        BY <1>9, <2>1
    <2>9. r2s' \in Seq(ReceiverFrames) => TypeOK'
        <3>1. acked' \in 0..got'
            BY <1>5, <2>1
        <3> QED
            BY <1>1, <2>1, <3>1 DEF TypeOK, sendVars
    <2> QED
        BY <1>3, <1>16, <2>1, <2>3, <2>5, <2>6, <2>7, <2>8, <2>9
<1>18. CASE PhaseWrite
    <2>1. /\ q = "phase" /\ acked = got /\ pcR' = "phase_read" /\ r2s' = Append(r2s, Mark("done"))
          /\ UNCHANGED <<rBye, flists, next, asked, got, stored, acked, rounds, s2r>> /\ Requests' = Requests
        BY <1>2, <1>18 DEF PhaseWrite, Requests
    <2>2. got = Requests /\ rounds <= MaxPhase
        BY <1>3, <2>1 DEF AtReceiver
    <2>3. /\ ReceiverRead("phase_read")' = ReceiverRead(q)
          /\ ReceiverWrote("phase_read")' = ReceiverWrote(q) + 1
        BY <1>N, <1>6, <2>1, ReceiverCounts DEF StageCounts
    <2>4. ReceiverWrote(q) = PullFilter(opt) + Requests + Requests + rounds
        BY <1>N, <2>1, <2>2, ReceiverCounts DEF StageCounts
    <2>5. Mark("done") \in ReceiverFrames /\ Mark("done").kind = "done"
        BY <1>5 DEF Mark, Frame, ReceiverFrames
    <2>6. ReceiverWord(opt, Requests, ReceiverWrote(q) + 1) = "done"
        <3>1. /\ ReceiverWrote(q) + 1 \in Int
              /\ PullFilter(opt) + Requests + Requests < ReceiverWrote(q) + 1
            BY <1>N, <1>5, <2>4
        <3> QED
            BY <1>4, <1>5, <3>1, ReceiverWordIs
    <2>7. AtReceiver("phase_read")' /\ "phase_read" \in ReceiverStages
        BY <1>3, <1>5, <1>6, <2>1, <2>2 DEF AtReceiver, ReceiverStages
    <2>8. Complete(p, "phase_read")'
        BY <1>9, <2>1
    <2>9. r2s' \in Seq(ReceiverFrames) => TypeOK'
        BY <1>1, <2>1 DEF TypeOK, sendVars
    <2> QED
        BY <1>3, <1>16, <2>1, <2>3, <2>5, <2>6, <2>7, <2>8, <2>9
\* No step of the goodbye is taken before it starts.
<1>19. ASSUME rBye = ReceiverGoodbye(opt), rBye' = rBye
       PROVE  ReceiverByeRead' = 0 /\ ReceiverByeWrote' = 0
    <2>1. Count(rBye, "r") \in Int /\ Count(rBye, "w") \in Int
        BY CountType
    <2> QED
        BY <1>6, <1>19, <2>1 DEF ReceiverByeRead, ReceiverByeWrote
<1>20. CASE PhaseRead
    <2>1. /\ q = "phase_read" /\ s2r # <<>> /\ Requests' = Requests
          /\ UNCHANGED <<rBye, flists, next, asked, got, stored, acked, r2s>>
        BY <1>2, <1>20 DEF PhaseRead, ReceiverTakes, Requests
    <2>2. /\ got = Requests /\ acked = Requests /\ rounds <= MaxPhase /\ flists \in 1..opt.groups
          /\ rBye = ReceiverGoodbye(opt)
        BY <1>3, <2>1 DEF AtReceiver
    <2>3. TotalRounds = MaxPhase + 1
        <3>1. Pull /\ opt.inc => flists = 1
            BY <1>4, <1>5, <2>2 DEF SupportedOptions, Pull
        <3> QED
            BY <1>5, <3>1 DEF TotalRounds
    <2>q. PICK q2 \in ReceiverStages :
              q2 = IF rounds + 1 < MaxPhase + 1 THEN "phase" ELSE IF Pull THEN "stats" ELSE "bye"
        BY DEF ReceiverStages
    <2>4. Head(s2r).kind = "done" => s2r' = Tail(s2r) /\ pcR' = q2 /\ rounds' = rounds + 1
        BY <1>20, <2>3, <2>q DEF PhaseRead, ReceiverTakes
    <2>5. /\ ReceiverRead(q) = PushFilter(opt) + ListLen(opt) + Requests + rounds
          /\ ReceiverWrote(q) = PullFilter(opt) + Requests + Requests + rounds + 1
        BY <2>1, <2>2, ReceiverCounts DEF StageCounts
    <2>6. SenderWord(opt, Requests, ReceiverRead(q) + 1) = "done"
        <3>1. /\ ReceiverRead(q) + 1 \in Int
              /\ PushFilter(opt) + ListLen(opt) + Requests < ReceiverRead(q) + 1
              /\ ReceiverRead(q) + 1 <= PushFilter(opt) + ListLen(opt) + Requests + MaxPhase + 1
            BY <1>N, <1>5, <2>2, <2>5
        <3> QED
            BY <1>4, <1>5, <3>1, SenderWordIs
    <2>7. Head(s2r).kind = "done"
        BY <1>3, <2>1, <2>6, NextFrame
    <2>8. rounds' = rounds + 1 /\ pcR' = q2
        BY <2>4, <2>7
    <2>9. /\ q2 \in {"phase", "stats", "bye"} /\ (q2 = "phase" <=> rounds < MaxPhase)
          /\ (q2 = "stats" => Pull) /\ (q2 = "bye" => ~Pull)
        BY <1>5, <2>q
    <2>10. AtReceiver(q2)'
        BY <1>3, <1>5, <1>6, <2>1, <2>2, <2>8, <2>9 DEF AtReceiver, Pull
    <2>11. Complete(p, q2)'
        BY <1>3, <1>5, <1>6, <2>8, <2>9 DEF Complete
    <2>12. ReceiverRead(q2)' = ReceiverRead(q) + 1 /\ ReceiverWrote(q2)' = ReceiverWrote(q)
        <3>1. /\ got' = Requests /\ acked' = Requests /\ rounds' = rounds + 1 /\ Requests' = Requests
            BY <2>1, <2>2, <2>8
        <3>2. /\ PushFilter(opt) + ListLen(opt) + Requests + (rounds + 1) = ReceiverRead(q) + 1
              /\ PullFilter(opt) + Requests + Requests + (rounds + 1) = ReceiverWrote(q)
            BY <1>N, <2>5
        <3>3. CASE q2 \in {"phase", "stats"}
            BY <1>6, <3>1, <3>2, <3>3, ReceiverCounts DEF StageCounts
        <3>4. CASE q2 = "bye"
            <4>1. ReceiverByeRead' = 0 /\ ReceiverByeWrote' = 0 /\ PullFilter(opt) = 0
                BY <1>19, <2>1, <2>2, <2>9, <3>4 DEF PullFilter, Pull
            <4>2. /\ ReceiverRead(q2)' = PushFilter(opt) + ListLen(opt) + Requests + (rounds + 1) + 0 + 0
                  /\ ReceiverWrote(q2)' = PullFilter(opt) + Requests + Requests + (rounds + 1) + 0
                BY <1>6, <3>1, <3>4, <4>1, ReceiverCounts DEF StageCounts
            <4> QED
                BY <1>N, <3>2, <4>2
        <3> QED
            BY <2>9, <3>3, <3>4
    <2>13. s2r' = Tail(s2r) /\ pcR' = q2 /\ s2r' \in Seq(SenderFrames) => TypeOK'
        <3>1. rounds' \in 0..(MaxPhase + 3)
            BY <1>5, <2>2, <2>8
        <3> QED
            BY <1>1, <2>1, <2>9, <3>1 DEF TypeOK, sendVars
    <2> QED
        BY <1>3, <1>11, <2>1, <2>4, <2>6, <2>10, <2>11, <2>12, <2>13
<1>21. CASE ReadStats
    <2>1. /\ q = "stats" /\ s2r # <<>> /\ Requests' = Requests
          /\ UNCHANGED <<rBye, flists, next, asked, got, stored, acked, rounds, r2s>>
          /\ Head(s2r).kind = "stats" => s2r' = Tail(s2r) /\ pcR' = "bye"
        BY <1>2, <1>21 DEF ReadStats, ReceiverTakes, Requests
    <2>2. /\ got = Requests /\ acked = Requests /\ rounds = MaxPhase + 1 /\ Pull
          /\ rBye = ReceiverGoodbye(opt)
        BY <1>3, <2>1 DEF AtReceiver
    <2>3. /\ ReceiverRead(q) = PushFilter(opt) + ListLen(opt) + Requests + (MaxPhase + 1)
          /\ ReceiverWrote(q) = PullFilter(opt) + Requests + Requests + (MaxPhase + 1)
        BY <2>1, <2>2, ReceiverCounts DEF StageCounts
    <2>4. SenderWord(opt, Requests, ReceiverRead(q) + 1) = "stats"
        <3>1. /\ ReceiverRead(q) + 1 \in Int /\ opt.dir = "pull"
              /\ ReceiverRead(q) + 1 = PushFilter(opt) + ListLen(opt) + Requests + MaxPhase + 2
            BY <1>N, <2>2, <2>3 DEF Pull
        <3> QED
            BY <1>4, <1>5, <3>1, SenderWordIs
    <2>5. AtReceiver("bye")' /\ "bye" \in ReceiverStages
        BY <1>3, <1>5, <1>6, <2>1, <2>2 DEF AtReceiver, ReceiverStages
    <2>6. Complete(p, "bye")'
        BY <1>3, <1>6, <2>1 DEF Complete
    <2>7. ReceiverRead("bye")' = ReceiverRead(q) + 1 /\ ReceiverWrote("bye")' = ReceiverWrote(q)
        <3>1. ReceiverByeRead' = 0 /\ ReceiverByeWrote' = 0 /\ PullFilter(opt) = 1
            BY <1>19, <2>1, <2>2 DEF PullFilter, Pull
        <3>2. /\ ReceiverRead("bye")' = PushFilter(opt) + ListLen(opt) + Requests + (MaxPhase + 1) + 1 + 0
              /\ ReceiverWrote("bye")' = PullFilter(opt) + Requests + Requests + (MaxPhase + 1) + 0
            BY <1>6, <2>1, <2>2, <3>1, ReceiverCounts DEF StageCounts
        <3> QED
            BY <1>N, <2>3, <3>2
    <2>8. s2r' = Tail(s2r) /\ pcR' = "bye" /\ s2r' \in Seq(SenderFrames) => TypeOK'
        BY <1>1, <2>1 DEF TypeOK, sendVars
    <2> QED
        BY <1>3, <1>11, <2>1, <2>4, <2>5, <2>6, <2>7, <2>8
<1>22. CASE Dispatch
    <2>1. /\ q = "loop" /\ pcR' = "loop" /\ next <= Files /\ next' = next + 1
          /\ UNCHANGED <<rBye, flists, got, acked, rounds, s2r>>
        BY <1>2, <1>22 DEF Dispatch
    <2>2. next' \in 1..(Files + 1) /\ next \in 1..Files
        BY <1>5, <2>1 DEF TypeOK
    <2>3. Complete(p, q)'
        BY <1>9, <2>1
    <2>4. CASE stored' \in {stored, stored \cup {next}} /\ UNCHANGED <<asked, r2s>>
        <3>1. Requests' = Requests
            BY <2>4 DEF Requests
        <3>2. ReceiverRead(q)' = ReceiverRead(q) /\ ReceiverWrote(q)' = ReceiverWrote(q)
            BY <1>6, <2>1, <3>1, ReceiverCounts DEF StageCounts
        <3>3. AtReceiver(q)'
            BY <1>3, <1>6, <2>1, <2>4 DEF AtReceiver
        <3>4. /\ ToReceiver(q)' /\ ToSender(q)'
              /\ SenderWrote(q)' = SenderWrote(q) /\ SenderRead(q)' = SenderRead(q)
            BY <1>3, <1>6, <2>1, <2>4, <3>2, ReceiverMoves
        <3>5. stored' \subseteq 1..Files
            BY <2>2, <2>4 DEF TypeOK
        <3>6. TypeOK'
            BY <1>1, <2>1, <2>2, <2>4, <3>5 DEF TypeOK, sendVars
        <3>7. AtSender(p, q)'
            BY <1>3, <1>8, <2>1, <2>4, <3>4
        <3> QED
            BY <1>7, <2>1, <2>3, <3>3, <3>4, <3>6, <3>7
    <2>5. CASE /\ r2s' = Append(r2s, Frame(IF opt.append THEN "req_head" ELSE "req", next))
               /\ asked' = Append(asked, next)
               /\ UNCHANGED stored
        <3>f. PICK f : f = Frame(IF opt.append THEN "req_head" ELSE "req", next)
            OBVIOUS
        <3>1. /\ f \in ReceiverFrames /\ f.kind = IF opt.append THEN "req_head" ELSE "req"
            BY <1>5, <2>2, <3>f DEF Frame, ReceiverFrames
        <3>2. /\ asked' \in Seq(1..Files) /\ Len(asked') = Len(asked) + 1
              /\ \A i \in 1..Len(asked) : asked'[i] = asked[i]
              /\ r2s' \in Seq(ReceiverFrames)
            BY <2>2, <2>5, <3>1, <3>f DEF TypeOK
        <3>3. Requests' = Requests + 1
            BY <3>2 DEF Requests
        <3>4. acked = 0 /\ rounds = 0 /\ got <= Requests /\ AtSender(p, "loop") /\ AtReceiver("loop")
            BY <1>3, <2>1 DEF AtReceiver, TypeOK, Requests
        <3>5. ReceiverRead(q)' = ReceiverRead(q) /\ ReceiverWrote(q)' = ReceiverWrote(q) + 1
            <4>1. q = "loop" /\ got' = got /\ acked' = acked /\ rounds' = rounds
                BY <2>1
            <4>2. PullFilter(opt) + (Requests + 1) + acked + rounds
                      = PullFilter(opt) + Requests + acked + rounds + 1
                BY <1>N
            <4> QED
                BY <1>6, <3>3, <4>1, <4>2, ReceiverCounts DEF StageCounts
        <3>6. ReceiverWrote(q) = PullFilter(opt) + Requests
            BY <1>N, <2>1, <3>4, ReceiverCounts DEF StageCounts
        <3>7. /\ SenderWrote("loop") <= PushFilter(opt) + ListLen(opt) + Requests
              /\ p \in {"inject", "read"} => Skipped("loop") = 0 /\ phase = 0
              /\ p \in {"filter", "flist", "inject", "read"}
            BY <1>3, <2>1, <3>4, LoopCap
        <3>8. f.kind = ReceiverWord(opt, Requests + 1, ReceiverWrote(q) + 1)
            <4>1. /\ Requests + 1 \in Nat /\ ReceiverWrote(q) + 1 \in Int
                  /\ PullFilter(opt) < ReceiverWrote(q) + 1
                  /\ ReceiverWrote(q) + 1 <= PullFilter(opt) + (Requests + 1)
                BY <1>N, <1>5, <3>6
            <4> QED
                BY <1>4, <3>1, <4>1, ReceiverWordIs
        <3>9. \A k \in Int : k <= ReceiverWrote(q) =>
                  ReceiverWord(opt, Requests + 1, k) = ReceiverWord(opt, Requests, k)
            BY <1>4, <1>5, <3>6, WordsGrow
        <3>10. \A k \in Int : k <= SenderWrote(q) =>
                  SenderWord(opt, Requests + 1, k) = SenderWord(opt, Requests, k)
            <4> SUFFICES ASSUME NEW k \in Int, k <= SenderWrote(q)
                         PROVE  SenderWord(opt, Requests + 1, k) = SenderWord(opt, Requests, k)
                OBVIOUS
            <4>1. k <= PushFilter(opt) + ListLen(opt) + Requests
                BY <1>N, <2>1, <3>7
            <4> QED
                BY <1>4, <1>5, <4>1, WordsGrow
        <3>11. /\ ToReceiver(q)' /\ ToSender(q)'
               /\ SenderWrote(q)' = SenderWrote(q) /\ SenderRead(q)' = SenderRead(q)
            BY <1>3, <1>6, <2>1, <2>5, <3>f, <3>3, <3>5, <3>8, <3>9, <3>10, ReceiverWrites
        <3>12. AtReceiver(q)'
            <4>1. \A i \in 1..got' : asked'[i] \in stored'
                <5> SUFFICES ASSUME NEW i \in 1..got
                             PROVE  asked'[i] \in stored
                    BY <2>1, <2>5, Zenon
                <5>1. i \in 1..Len(asked) /\ asked[i] \in stored
                    BY <1>3, <1>5, <3>4 DEF AtReceiver, Requests
                <5> QED
                    BY <3>2, <5>1
            <4> QED
                BY <1>3, <1>6, <2>1, <4>1 DEF AtReceiver
        <3>13. TypeOK'
            <4>1. got' \in 0..Len(asked') /\ acked' \in 0..got'
                BY <1>5, <2>1, <3>2, <3>4 DEF Requests
            <4> QED
                BY <1>1, <2>1, <2>2, <2>5, <3>2, <4>1 DEF TypeOK, sendVars
        <3>14. AtSender(p, q)'
            <4>1. /\ Answered(q)' = Answered(q) /\ Skipped(q)' = Skipped(q)
                  /\ pending' = pending /\ phase' = phase
                BY <1>1, <3>11 DEF Answered, Skipped, LoopBase, sendVars
            <4>2. CASE p \in {"inject", "read"}
                <5>1. /\ Answered(q) \in 0..Requests /\ phase <= MaxPhase /\ Skipped(q) = 0 /\ phase = 0
                      /\ (pending = 1 => opt.inc /\ opt.groups = 2 /\ Answered(q) = 0)
                      /\ pending \in {0, 1} /\ (p = "read" => pending = 0)
                    BY <2>1, <3>4, <3>7, <4>2 DEF AtSender
                <5>2. Answered(q) \in 0..(Requests + 1) /\ 0 \in 0..(Requests + 1)
                    BY <1>5, <5>1
                <5> QED
                    BY <1>6, <3>3, <4>1, <4>2, <5>1, <5>2 DEF AtSender
            <4>3. CASE p \in {"filter", "flist"}
                BY <1>6, <2>1, <3>4, <3>11, <4>1, <4>3 DEF AtSender
            <4> QED
                BY <3>7, <4>2, <4>3
        <3> QED
            BY <1>7, <2>1, <2>3, <3>11, <3>12, <3>13, <3>14
    <2> QED
        BY <1>22, <2>4, <2>5 DEF Dispatch
<1>23. CASE ReceiverBye
    <2> DEFINE Lost == pcS = "failed" /\ s2r = <<>>
               base == PushFilter(opt) + ListLen(opt) + Requests + (MaxPhase + 1) + PullFilter(opt)
               wbase == PullFilter(opt) + Requests + Requests + (MaxPhase + 1)
    <2>1. /\ q = "bye" /\ UNCHANGED <<flists, next, asked, got, stored, acked, rounds>>
          /\ Requests' = Requests
        BY <1>2, <1>23 DEF ReceiverBye, Requests
    <2>2. got = Requests /\ acked = Requests /\ rounds = MaxPhase + 1
        BY <1>3, <2>1 DEF AtReceiver
    <2>3. ReceiverByeRead \in Nat /\ ReceiverByeWrote \in Nat
        BY DEF ShortByes
    <2>4. AtSender(p, q) \/ Lost
        BY <1>2, <1>3 DEF Together
    <2>5. \A r \in {"bye", "over"} :
              /\ ReceiverRead(r) = base + ReceiverByeRead /\ ReceiverRead(r)' = base + ReceiverByeRead'
              /\ ReceiverWrote(r) = wbase + ReceiverByeWrote /\ ReceiverWrote(r)' = wbase + ReceiverByeWrote'
        BY <1>6, <2>1, <2>2, ReceiverCounts DEF StageCounts
    <2>6. base \in Int /\ wbase \in Int
        BY <1>N
    <2>7. "bye" \in ReceiverStages /\ "over" \in ReceiverStages
        BY DEF ReceiverStages
    <2>8. \A r \in {"bye", "over"} : (r = "over" => rBye' = <<>>) => AtReceiver(r)' /\ Complete(p, r)'
        <3>1. \A i \in 1..got : asked[i] \in stored
            BY <1>3 DEF AtReceiver
        <3>2. flists \in 1..opt.groups
            BY <1>3, <2>1 DEF AtReceiver
        <3>3. \A r \in {"bye", "over"} : (r = "over" => rBye' = <<>>) => AtReceiver(r)'
            BY <1>6, <2>1, <2>2, <3>1, <3>2 DEF AtReceiver
        <3>4. \A r \in {"bye", "over"} : Complete(p, r)'
            BY <1>3, <1>6, <2>1 DEF Complete
        <3> QED
            BY <3>3, <3>4
    \* What is left to show of a step of the goodbye.
    <2>9. ASSUME NEW r \in {"bye", "over"}, pcR' = r, r = "over" => rBye' = <<>>,
                 ToReceiver(r)', ToSender(r)', AtSender(p, r)' \/ Lost',
                 s2r' \in Seq(SenderFrames), r2s' \in Seq(ReceiverFrames),
                 rBye' \in Seq({"r", "w"}), Len(rBye') <= 4,
                 ReceiverByeRead' \in Nat, ReceiverByeWrote' \in Nat
          PROVE  IInv'
        <3>1. TypeOK'
            BY <1>1, <2>1, <2>9 DEF TypeOK, sendVars
        <3>2. Together(p, r)'
            BY <1>3, <1>6, <2>8, <2>9 DEF Together
        <3>3. ShortByes'
            BY <1>6, <2>9 DEF ShortByes
        <3> QED
            BY <2>7, <2>9, <3>1, <3>2, <3>3 DEF IInv
    \* One step of the goodbye is done.
    <2>10. ASSUME rBye # <<>>, rBye' = Tail(rBye), NEW c \in {"r", "w"}, Head(rBye) = c
           PROVE  /\ rBye' \in Seq({"r", "w"}) /\ Len(rBye') <= 4
                  /\ ReceiverByeRead' = ReceiverByeRead + (IF c = "r" THEN 1 ELSE 0)
                  /\ ReceiverByeWrote' = ReceiverByeWrote + (IF c = "w" THEN 1 ELSE 0)
        <3>1. rBye \in Seq({"r", "w"}) /\ Len(rBye) <= 4
            BY DEF TypeOK, ShortByes
        <3>2. /\ Count(rBye, "r") = Count(rBye', "r") + (IF c = "r" THEN 1 ELSE 0)
              /\ Count(rBye, "w") = Count(rBye', "w") + (IF c = "w" THEN 1 ELSE 0)
            BY <2>10, <3>1, CountTail
        <3>3. /\ Count(rBye', "r") \in Int /\ Count(rBye', "w") \in Int
              /\ Count(ReceiverGoodbye(opt), "r") \in Int /\ Count(ReceiverGoodbye(opt), "w") \in Int
            BY CountType
        <3>4. /\ ReceiverByeRead' = ReceiverByeRead + (IF c = "r" THEN 1 ELSE 0)
              /\ ReceiverByeWrote' = ReceiverByeWrote + (IF c = "w" THEN 1 ELSE 0)
            <4>1. CASE c = "r"
                BY <1>6, <3>2, <3>3, <4>1 DEF ReceiverByeRead, ReceiverByeWrote
            <4>2. CASE c = "w"
                BY <1>6, <3>2, <3>3, <4>2 DEF ReceiverByeRead, ReceiverByeWrote
            <4> QED
                BY <2>10, <4>1, <4>2
        <3>5. rBye' \in Seq({"r", "w"}) /\ Len(rBye') <= 4
            BY <2>10, <3>1, QueueRead
        <3> QED
            BY <3>4, <3>5
    <2> HIDE DEF base, wbase
    <2>11. CASE rBye = <<>> /\ pcR' = "over" /\ UNCHANGED <<rBye, s2r, r2s>>
        <3>1. ReceiverByeRead' = ReceiverByeRead /\ ReceiverByeWrote' = ReceiverByeWrote
            BY <1>6, <2>11 DEF ReceiverByeRead, ReceiverByeWrote
        <3>2. ReceiverRead("over")' = ReceiverRead(q) /\ ReceiverWrote("over")' = ReceiverWrote(q)
            BY <2>1, <2>5, <3>1
        <3>3. /\ ToReceiver("over")' /\ ToSender("over")'
              /\ SenderWrote("over")' = SenderWrote(q) /\ SenderRead("over")' = SenderRead(q)
            BY <1>3, <1>6, <2>1, <2>7, <2>11, <3>2, ReceiverMoves
        <3>4. AtSender(p, "over")' \/ Lost'
            BY <1>6, <1>8, <2>1, <2>4, <2>7, <2>11, <3>3
        <3>5. /\ s2r' \in Seq(SenderFrames) /\ r2s' \in Seq(ReceiverFrames)
              /\ rBye' \in Seq({"r", "w"}) /\ Len(rBye') <= 4
            BY <2>11 DEF TypeOK, ShortByes
        <3> QED
            BY <2>3, <2>9, <2>11, <3>1, <3>3, <3>4, <3>5
    <2>12. CASE /\ rBye # <<>> /\ Head(rBye) = "w" /\ r2s' = Append(r2s, Mark("done"))
                /\ rBye' = Tail(rBye) /\ UNCHANGED <<pcR, s2r>>
        <3>1. /\ rBye' \in Seq({"r", "w"}) /\ Len(rBye') <= 4
              /\ ReceiverByeRead' = ReceiverByeRead /\ ReceiverByeWrote' = ReceiverByeWrote + 1
            BY <2>3, <2>10, <2>12
        <3>2. ReceiverRead(q)' = ReceiverRead(q) /\ ReceiverWrote(q)' = ReceiverWrote(q) + 1
            BY <2>1, <2>3, <2>5, <2>6, <3>1
        <3>3. Mark("done") \in ReceiverFrames /\ Mark("done").kind = "done"
            BY <1>5 DEF Mark, Frame, ReceiverFrames
        <3>4. ReceiverWord(opt, Requests, ReceiverWrote(q) + 1) = "done"
            <4>1. PullFilter(opt) + Requests + Requests < wbase + 1
                BY <1>N, <1>5 DEF wbase
            <4>2. /\ ReceiverWrote(q) + 1 \in Int
                  /\ PullFilter(opt) + Requests + Requests < ReceiverWrote(q) + 1
                BY <1>N, <2>1, <2>3, <2>5, <2>6, <4>1
            <4> QED
                BY <1>4, <1>5, <4>2, ReceiverWordIs
        <3>5. /\ ToReceiver(q)' /\ ToSender(q)'
              /\ SenderWrote(q)' = SenderWrote(q) /\ SenderRead(q)' = SenderRead(q)
            BY <1>3, <1>6, <2>1, <2>12, <3>2, <3>3, <3>4, ReceiverWrites
        <3>6. AtSender(p, q)' \/ Lost'
            BY <1>6, <1>8, <2>1, <2>4, <2>12, <3>5
        <3>7. s2r' \in Seq(SenderFrames) /\ r2s' \in Seq(ReceiverFrames) /\ pcR' = "bye"
            BY <1>2, <2>1, <2>12, <3>3 DEF TypeOK
        <3>8. ReceiverByeRead' \in Nat /\ ReceiverByeWrote' \in Nat
            BY <2>3, <3>1
        <3> QED
            BY <2>1, <2>9, <3>1, <3>5, <3>6, <3>7, <3>8
    <2>13. CASE /\ rBye # <<>> /\ Head(rBye) = "r" /\ s2r # <<>> /\ ReceiverTakes({"done"}, "bye")
                /\ rBye' = Tail(rBye) /\ UNCHANGED r2s
        <3>1. /\ rBye' \in Seq({"r", "w"}) /\ Len(rBye') <= 4
              /\ ReceiverByeRead' = ReceiverByeRead + 1 /\ ReceiverByeWrote' = ReceiverByeWrote
            BY <2>3, <2>10, <2>13
        <3>2. ReceiverRead(q)' = ReceiverRead(q) + 1 /\ ReceiverWrote(q)' = ReceiverWrote(q)
            BY <2>1, <2>3, <2>5, <2>6, <3>1
        <3>3. SenderWord(opt, Requests, ReceiverRead(q) + 1) = "done"
            <4>0. ReceiverRead(q) + 1 \in Int /\ base < ReceiverRead(q) + 1
                BY <2>1, <2>3, <2>5, <2>6
            <4>1. CASE opt.dir = "push"
                <5>1. PushFilter(opt) + ListLen(opt) + Requests <= base
                    BY <1>N, <1>4, <1>5 DEF base
                <5>2. PushFilter(opt) + ListLen(opt) + Requests < ReceiverRead(q) + 1
                    BY <1>N, <2>6, <4>0, <5>1
                <5> QED
                    BY <1>4, <1>5, <4>0, <4>1, <5>2, SenderWordIs
            <4>2. CASE opt.dir = "pull"
                <5>1. PullFilter(opt) = 1
                    BY <4>2 DEF PullFilter
                <5>2. PushFilter(opt) + ListLen(opt) + Requests + MaxPhase + 2 = base
                    BY <1>N, <5>1 DEF base
                <5> QED
                    BY <1>4, <1>5, <4>0, <5>2, SenderWordIs
            <4> QED
                BY <1>4, <4>1, <4>2
        <3>4. s2r' = Tail(s2r) /\ pcR' = "bye"
            BY <1>3, <2>13, <3>3, NextFrame DEF ReceiverTakes
        <3>5. /\ ToReceiver(q)' /\ ToSender(q)'
              /\ SenderWrote(q)' = SenderWrote(q) /\ SenderRead(q)' = SenderRead(q)
            BY <1>3, <1>6, <2>1, <2>13, <3>2, <3>4, ReceiverReads
        <3>6. AtSender(p, q)'
            BY <1>8, <2>1, <2>4, <2>13, <3>5
        <3>7. s2r' \in Seq(SenderFrames) /\ r2s' \in Seq(ReceiverFrames)
            BY <2>13, <3>4, QueueRead DEF TypeOK
        <3>8. ReceiverByeRead' \in Nat /\ ReceiverByeWrote' \in Nat
            BY <2>3, <3>1
        <3> QED
            BY <2>1, <2>9, <3>1, <3>4, <3>5, <3>6, <3>7, <3>8
    \* The marker that never comes: only a sender that failed has left it out.
    <2>14. CASE /\ rBye # <<>> /\ Head(rBye) = "r" /\ s2r = <<>> /\ Gone(pcS)
                /\ rBye' = Tail(rBye) /\ UNCHANGED <<pcR, s2r, r2s>>
        <3>1. /\ rBye' \in Seq({"r", "w"}) /\ Len(rBye') <= 4
              /\ ReceiverByeRead' = ReceiverByeRead + 1 /\ ReceiverByeWrote' = ReceiverByeWrote
            BY <2>3, <2>10, <2>14
        <3>2. pcS = "failed"
            <4> SUFFICES ASSUME pcS # "failed"
                         PROVE  FALSE
                OBVIOUS
            <4>1. p = "over" /\ AtSender(p, q) /\ sBye = <<>>
                BY <1>3, <2>4, <2>14 DEF Gone, SenderStages, Complete
            <4>2. SenderWrote(q) = base + SenderByeWrote
                <5>1. SenderWrote(q) = PushFilter(opt) + ListLen(opt) + Requests + MaxPhase + 1
                                       + PullFilter(opt) + SenderByeWrote
                    BY <4>1 DEF AtSender
                <5>2. SenderByeWrote \in Int
                    BY DEF ShortByes
                <5> QED
                    BY <1>N, <5>1, <5>2 DEF base
            <4>3. SenderWrote(q) = base + ReceiverByeRead
                <5>1. Len(s2r) = 0
                    BY <2>14
                <5> QED
                    BY <1>N, <2>1, <2>5, <5>1 DEF SenderWrote
            <4>4. /\ SenderByeWrote = Count(SenderGoodbye(opt), "w")
                  /\ Count(SenderGoodbye(opt), "w") \in Int
                BY <4>1, CountEmpty, CountType DEF SenderByeWrote
            <4>5. /\ Count(SenderGoodbye(opt), "w") >= Count(ReceiverGoodbye(opt), "r")
                  /\ Count(ReceiverGoodbye(opt), "r") \in Int
                BY <1>4, GoodbyeCounts, CountType
            <4>6. Count(rBye, "r") >= 1 /\ Count(rBye, "r") \in Int
                <5>1. rBye \in Seq({"r", "w"}) /\ Len(rBye) <= 4
                    BY DEF TypeOK, ShortByes
                <5>2. Count(rBye, "r") = Count(Tail(rBye), "r") + 1
                    BY <2>14, <5>1, CountTail
                <5>3. Count(Tail(rBye), "r") \in Nat
                    BY CountType
                <5> QED
                    BY <5>2, <5>3
            <4>7. ReceiverByeRead < SenderByeWrote
                BY <4>4, <4>5, <4>6 DEF ReceiverByeRead
            <4> QED
                BY <2>3, <2>6, <4>2, <4>3, <4>4, <4>7
        <3>3. ReceiverWrote(q)' = ReceiverWrote(q)
            BY <2>1, <2>5, <3>1
        <3>4. ToSender(q)'
            BY <1>3, <1>6, <2>1, <2>14, <3>3 DEF ToSender, SenderRead
        <3>5. ToReceiver(q)'
            <4>1. s2r' = <<>>
                BY <2>14
            <4> QED
                BY <4>1 DEF ToReceiver
        <3>6. Lost' /\ pcR' = "bye"
            BY <1>2, <1>6, <2>1, <2>14, <3>2
        <3>7. s2r' \in Seq(SenderFrames) /\ r2s' \in Seq(ReceiverFrames)
            BY <2>14 DEF TypeOK
        <3>8. ReceiverByeRead' \in Nat /\ ReceiverByeWrote' \in Nat
            BY <2>3, <3>1
        <3> QED
            BY <2>1, <2>9, <3>1, <3>4, <3>5, <3>6, <3>7, <3>8
    <2> QED
        BY <1>23, <2>11, <2>12, <2>13, <2>14 DEF ReceiverBye
<1> QED
    BY <1>10, <1>12, <1>13, <1>14, <1>15, <1>17, <1>18, <1>20, <1>21, <1>22, <1>23 DEF ReceiverNext

\* A side that fails stops where it is; a step of neither side changes nothing.
LEMMA FailStep ==
    ASSUME TypeOK, ShortByes, NEW p \in SenderStages, NEW q \in ReceiverStages, Together(p, q),
           SenderFails \/ ReceiverFails \/ UNCHANGED vars
    PROVE  IInv'
<1>1. /\ UNCHANGED <<opt, pending, phase, sBye, removed, s2r, r2s>>
      /\ UNCHANGED <<rBye, flists, next, asked, got, stored, acked, rounds>>
      /\ pcS' \in {pcS, "failed"} /\ pcR' \in {pcR, "failed"}
      /\ pcS = "failed" => pcS' = "failed"
      /\ pcR = "failed" => pcR' = "failed"
    BY DEF SenderFails, ReceiverFails, recvVars, sendVars, vars
<1>2. TypeOK'
    BY <1>1 DEF TypeOK
<1>3. ShortByes'
    BY <1>1 DEF ShortByes, SenderByeRead, SenderByeWrote, ReceiverByeRead, ReceiverByeWrote
<1>4. /\ Requests' = Requests /\ ReceiverRead(q)' = ReceiverRead(q) /\ ReceiverWrote(q)' = ReceiverWrote(q)
      /\ SenderByeRead' = SenderByeRead /\ SenderByeWrote' = SenderByeWrote
    BY <1>1 DEF Requests, ReceiverRead, ReceiverWrote, SenderByeRead, SenderByeWrote,
                ReceiverByeRead, ReceiverByeWrote
<1>5. /\ SenderWrote(q)' = SenderWrote(q) /\ SenderRead(q)' = SenderRead(q)
      /\ Answered(q)' = Answered(q) /\ Skipped(q)' = Skipped(q)
    BY <1>1, <1>4 DEF SenderWrote, SenderRead, Answered, Skipped, LoopBase
<1>6. AtReceiver(q)' /\ ToReceiver(q)' /\ ToSender(q)' /\ Complete(p, q)'
    <2>1. AtReceiver(q) /\ ToReceiver(q) /\ ToSender(q) /\ Complete(p, q)
        BY DEF Together
    <2>2. AtReceiver(q)'
        BY <1>1, <1>4, <2>1 DEF AtReceiver, Pull
    <2>3. ToReceiver(q)' /\ ToSender(q)'
        BY <1>1, <1>4, <1>5, <2>1 DEF ToReceiver, ToSender
    <2>4. Complete(p, q)'
        BY <1>1, <2>1 DEF Complete
    <2> QED
        BY <2>2, <2>3, <2>4
<1>7. AtSender(p, q) => AtSender(p, q)'
    BY <1>1, <1>4, <1>5 DEF AtSender
<1>8. Together(p, q)'
    BY <1>1, <1>6, <1>7 DEF Together
<1> QED
    BY <1>2, <1>3, <1>8 DEF IInv

\* A session starts at its first stages, with nothing written.
LEMMA InitHolds ==
    ASSUME Options \subseteq SupportedOptions, Init
    PROVE  IInv
<1>1. opt \in SupportedOptions /\ Files \in Nat /\ MaxPhase \in Nat
    BY SessionAssumption DEF Init
<1>2. /\ SenderGoodbye(opt) \in Seq({"r", "w"}) /\ ReceiverGoodbye(opt) \in Seq({"r", "w"})
      /\ Len(SenderGoodbye(opt)) <= 4 /\ Len(ReceiverGoodbye(opt)) <= 4
    BY <1>1, GoodbyeCounts
<1>3. TypeOK
    BY <1>1, <1>2 DEF Init, TypeOK
<1>4. ShortByes
    <2>1. \A b, c : Count(b, c) \in Int
        BY CountType
    <2>2. /\ SenderByeRead = 0 /\ SenderByeWrote = 0 /\ ReceiverByeRead = 0 /\ ReceiverByeWrote = 0
        BY <2>1 DEF Init, SenderByeRead, SenderByeWrote, ReceiverByeRead, ReceiverByeWrote
    <2> QED
        BY <1>2, <2>2 DEF Init, ShortByes
<1>5. Together("filter", "filter")
    <2>1. /\ ReceiverRead("filter") = 0 /\ ReceiverWrote("filter") = 0
        BY ReceiverCounts DEF StageCounts
    <2>2. SenderWrote("filter") = 0 /\ SenderRead("filter") = 0
        BY <2>1 DEF Init, SenderWrote, SenderRead
    <2>3. AtReceiver("filter") /\ Complete("filter", "filter") /\ AtSender("filter", "filter")
        BY <2>2 DEF Init, AtReceiver, Complete, AtSender
    <2>4. ToReceiver("filter") /\ ToSender("filter")
        <3>1. s2r = <<>> /\ r2s = <<>>
            BY DEF Init
        <3> QED
            BY <3>1 DEF ToReceiver, ToSender
    <2> QED
        BY <2>3, <2>4 DEF Init, Together
<1> QED
    BY <1>3, <1>4, <1>5 DEF IInv, SenderStages, ReceiverStages

\* The invariant is inductive.
LEMMA Inductive ==
    ASSUME Options \subseteq SupportedOptions, IInv, [Next]_vars
    PROVE  IInv'
<1>1. TypeOK /\ ShortByes
    BY DEF IInv
<1>2. PICK p \in SenderStages, q \in ReceiverStages : Together(p, q)
    BY DEF IInv
<1>3. CASE SenderNext
    BY <1>1, <1>2, <1>3, SenderStep
<1>4. CASE ReceiverNext
    BY <1>1, <1>2, <1>4, ReceiverStep
<1>5. CASE SenderFails \/ ReceiverFails \/ UNCHANGED vars
    BY <1>1, <1>2, <1>5, FailStep
<1> QED
    BY <1>3, <1>4, <1>5 DEF Next

\* The invariant gives what the runs check.
LEMMA InvariantGives ==
    ASSUME Options \subseteq SupportedOptions, IInv
    PROVE  TypeOK /\ InStep /\ LoopEndsComplete
<1>1. TypeOK /\ ShortByes
    BY DEF IInv
<1>2. PICK p \in SenderStages, q \in ReceiverStages : Together(p, q)
    BY DEF IInv
<1>3. /\ pcS \in {p, "failed"} /\ pcR \in {q, "failed"} /\ AtReceiver(q) /\ ToReceiver(q)
      /\ Complete(p, q) /\ (AtSender(p, q) \/ pcS = "failed")
    BY <1>2 DEF Together
<1>4. opt \in SupportedOptions /\ opt.dir \in {"push", "pull"} /\ opt.sync \in BOOLEAN
    BY <1>1, OptionFacts DEF TypeOK
<1>5. pcS # "desync" /\ pcR # "desync"
    BY <1>3 DEF SenderStages, ReceiverStages
<1>6. ASSUME pcS = "over", pcR = "over"
      PROVE  r2s = <<>> /\ s2r = IF Push /\ opt.sync THEN <<Mark("done")>> ELSE <<>>
    <2>1. p = "over" /\ q = "over" /\ AtSender(p, q) /\ sBye = <<>> /\ rBye = <<>>
        BY <1>3, <1>6 DEF AtReceiver, Complete
    <2>2. got = Requests /\ acked = Requests /\ rounds = MaxPhase + 1
        BY <1>3, <2>1 DEF AtReceiver
    <2>3. /\ PushFilter(opt) \in Int /\ PullFilter(opt) \in Int /\ ListLen(opt) \in Int
          /\ Requests \in Nat /\ MaxPhase \in Nat /\ Len(s2r) \in Nat /\ Len(r2s) \in Nat
        BY <1>1, <1>4, OptionFacts, CountsType, SessionAssumption
    <2>4. /\ Count(SenderGoodbye(opt), "r") \in Int /\ Count(SenderGoodbye(opt), "w") \in Int
          /\ Count(ReceiverGoodbye(opt), "r") \in Int /\ Count(ReceiverGoodbye(opt), "w") \in Int
        BY CountType
    <2>5. /\ SenderByeRead = Count(SenderGoodbye(opt), "r") /\ SenderByeWrote = Count(SenderGoodbye(opt), "w")
          /\ ReceiverByeRead = Count(ReceiverGoodbye(opt), "r")
          /\ ReceiverByeWrote = Count(ReceiverGoodbye(opt), "w")
        BY <2>1, <2>4, CountEmpty DEF SenderByeRead, SenderByeWrote, ReceiverByeRead, ReceiverByeWrote
    <2>6. /\ ReceiverByeWrote = SenderByeRead /\ SenderByeRead \in Int
          /\ SenderByeWrote = ReceiverByeRead + (IF Push /\ opt.sync THEN 1 ELSE 0) /\ ReceiverByeRead \in Int
        BY <1>4, <2>4, <2>5, GoodbyeCounts DEF Push
    <2>7. /\ ReceiverRead(q) = PushFilter(opt) + ListLen(opt) + Requests + (MaxPhase + 1)
                               + PullFilter(opt) + ReceiverByeRead
          /\ ReceiverWrote(q) = PullFilter(opt) + Requests + Requests + (MaxPhase + 1) + ReceiverByeWrote
        BY <2>1, <2>2, ReceiverCounts DEF StageCounts
    <2>8. /\ ReceiverRead(q) + Len(s2r) = PushFilter(opt) + ListLen(opt) + Requests + MaxPhase + 1
                                          + PullFilter(opt) + SenderByeWrote
          /\ ReceiverWrote(q) - Len(r2s) = PullFilter(opt) + Requests + Requests + MaxPhase + 1 + SenderByeRead
        BY <1>6, <2>1 DEF AtSender, SenderWrote, SenderRead
    <2>d. PICK d \in Int : d = IF Push /\ opt.sync THEN 1 ELSE 0
        OBVIOUS
    <2>e. PICK m \in Int, n \in Int : m = Len(s2r) /\ n = Len(r2s)
        BY <2>3
    <2>9. n = 0
        <3>1. (PullFilter(opt) + Requests + Requests + (MaxPhase + 1) + SenderByeRead) - n
                  = PullFilter(opt) + Requests + Requests + MaxPhase + 1 + SenderByeRead
            BY <2>6, <2>7, <2>8, <2>e
        <3>2. /\ PullFilter(opt) \in Int /\ Requests \in Int /\ MaxPhase \in Int /\ SenderByeRead \in Int
            BY <2>3, <2>6
        <3> QED
            BY <3>1, <3>2
    <2>10. m = d
        <3>1. /\ PushFilter(opt) + ListLen(opt) + Requests + (MaxPhase + 1) + PullFilter(opt) + ReceiverByeRead + m
                   = PushFilter(opt) + ListLen(opt) + Requests + MaxPhase + 1 + PullFilter(opt)
                     + (ReceiverByeRead + d)
            BY <2>6, <2>7, <2>8, <2>d, <2>e
        <3>2. /\ PushFilter(opt) \in Int /\ ListLen(opt) \in Int /\ PullFilter(opt) \in Int
              /\ Requests \in Int /\ MaxPhase \in Int /\ ReceiverByeRead \in Int
            BY <2>3, <2>6
        <3> QED
            BY <3>1, <3>2
    <2>11. r2s = <<>>
        <3>1. r2s \in Seq(ReceiverFrames) /\ Len(r2s) = 0
            BY <1>1, <2>e, <2>9 DEF TypeOK
        <3> QED
            BY <3>1, QueueEmpty
    <2>12. CASE ~(Push /\ opt.sync)
        <3>1. s2r = <<>>
            <4>1. s2r \in Seq(SenderFrames) /\ Len(s2r) = 0
                BY <1>1, <2>d, <2>e, <2>10, <2>12 DEF TypeOK
            <4> QED
                BY <4>1, QueueEmpty
        <3> QED
            BY <2>11, <2>12, <3>1
    <2>13. CASE Push /\ opt.sync
        <3>1. s2r \in Seq(SenderFrames) /\ Len(s2r) = 1
            BY <1>1, <2>d, <2>e, <2>10, <2>13 DEF TypeOK
        <3>2. s2r[1].kind = SenderWord(opt, Requests, ReceiverRead(q) + 1) /\ (s2r[1].kind = "done" => s2r[1].file = 0)
            BY <1>3, <3>1 DEF ToReceiver
        <3>3. SenderWord(opt, Requests, ReceiverRead(q) + 1) = "done"
            <4>1. ReceiverByeRead \in Nat /\ PullFilter(opt) \in Nat
                BY <1>1, <1>4, OptionFacts DEF ShortByes
            <4>2. /\ ReceiverRead(q) + 1 \in Int
                  /\ PushFilter(opt) + ListLen(opt) + Requests < ReceiverRead(q) + 1
                BY <2>3, <2>7, <4>1
            <4> QED
                BY <1>4, <2>3, <2>13, <4>2, SenderWordIs DEF Push
        <3>4. s2r[1] = Mark("done")
            <4>1. s2r[1] \in SenderFrames
                BY <3>1
            <4> QED
                BY <3>2, <3>3, <4>1 DEF SenderFrames, Mark, Frame
        <3>5. s2r = <<Mark("done")>>
            BY <3>1, <3>4
        <3> QED
            BY <2>11, <2>13, <3>5
    <2> QED
        BY <2>12, <2>13
<1>7. p \in {"after", "bye", "over"} => got = Requests /\ rounds >= MaxPhase
    <2>1. q \in {"phase_read", "stats", "bye", "over"} => got = Requests
        BY <1>3 DEF AtReceiver
    <2> QED
        BY <1>3, <2>1 DEF Complete
<1>8. removed \cap {asked[i] : i \in DOMAIN asked} \subseteq stored
    <2>1. CASE removed = {}
        BY <2>1
    <2>2. CASE removed # {}
        <3>1. got = Len(asked)
            <4>1. p \in {"bye", "over"}
                BY <1>3, <2>2 DEF Complete
            <4> QED
                BY <1>7, <4>1 DEF Requests
        <3>2. DOMAIN asked = 1..Len(asked)
            BY <1>1 DEF TypeOK
        <3> QED
            BY <1>3, <3>1, <3>2 DEF AtReceiver
    <2> QED
        BY <2>1, <2>2
<1>9. LoopEndsComplete
    BY <1>3, <1>7, <1>8 DEF LoopEndsComplete, Requests
<1> QED
    BY <1>1, <1>5, <1>6, <1>9 DEF InStep

-----------------------------------------------------------------------------
\* Sessions whose two sides hold options they agree on, see SupportedOptions.
LEMMA InvariantHolds ==
    ASSUME Options \subseteq SupportedOptions
    PROVE  Spec => []IInv
<1>1. Init => IInv
    BY InitHolds
<1>2. IInv /\ [Next]_vars => IInv'
    BY Inductive
<1> QED
    BY <1>1, <1>2, PTL DEF Spec

\* Every variable of a session keeps its type.
THEOREM TypeCorrect ==
    ASSUME Options \subseteq SupportedOptions
    PROVE  Spec => []TypeOK
<1>1. IInv => TypeOK
    BY InvariantGives
<1> QED
    BY <1>1, InvariantHolds, PTL

\* The client and the server of a push or a pull never take bytes of one stage for those
\* of another, with any number of files and phases, whichever side fails and wherever;
\* and when both report success, nothing is left unread but the goodbye marker that a
\* client of protocol 31 writes and no server reads.
THEOREM InStepHolds ==
    ASSUME Options \subseteq SupportedOptions
    PROVE  Spec => []InStep
<1>1. IInv => InStep
    BY InvariantGives
<1> QED
    BY <1>1, InvariantHolds, PTL

\* A sender that leaves its loop, to remove files, to write statistics or to report
\* success, has had all its responses received; a requested file is removed at the
\* source only when the receiver holds it.
THEOREM LoopEndsCompleteHolds ==
    ASSUME Options \subseteq SupportedOptions
    PROVE  Spec => []LoopEndsComplete
<1>1. IInv => LoopEndsComplete
    BY InvariantGives
<1> QED
    BY <1>1, InvariantHolds, PTL
=============================================================================
