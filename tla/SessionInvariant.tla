-------------------------- MODULE SessionInvariant --------------------------
(***************************************************************************)
(* The inductive invariant of Session, the lemmas about its operators, and *)
(* the steps of the sender; SessionProofs has the steps of the receiver    *)
(* and the theorems.                                                       *)
(*                                                                         *)
(* Nothing on the wire names a stage, so the argument is by counting.  The *)
(* frames of each direction, from the first one of the session on, spell a *)
(* word that the options and the number of requests determine.  The        *)
(* inductive invariant relates the place of each side in its own program   *)
(* to the number of frames it has written and read, and says that what is  *)
(* in flight is the part of the word between the two.                      *)
(***************************************************************************)
EXTENDS Session, TLAPS

\* The longer contexts take a prover more than its default time.
USE SMTT(20), ZenonT(20)

\* The stages of the two sides other than the ends of a broken session.
SenderStages == {"filter", "flist", "inject", "read", "after", "bye", "over"}
ReceiverStages == {"filter", "flist", "markers", "loop", "phase", "phase_read", "stats", "bye", "over"}

\* Frames of the filter list in each direction, and of the file list.
PushFilter(o) == IF o.dir = "push" /\ o.delete THEN 1 ELSE 0
PullFilter(o) == IF o.dir = "pull" THEN 1 ELSE 0
ListLen(o) == IF o.inc THEN o.groups + 1 ELSE 1

\* The k-th frame that a sender writes in a session with n requests.
SenderWord(o, n, k) ==
    LET h == PushFilter(o)
        t == h + ListLen(o)
    IN  IF k <= h THEN "filter"
        ELSE IF k <= t THEN IF ~o.inc THEN "flist"
                            ELSE IF k = h + 1 THEN "root"
                            ELSE IF k = t THEN "flist_eof" ELSE "group"
        ELSE IF k <= t + n THEN "resp"
        ELSE IF o.dir = "pull" /\ k = t + n + MaxPhase + 2 THEN "stats"
        ELSE "done"

\* The k-th frame that a receiver writes.
ReceiverWord(o, n, k) ==
    LET h == PullFilter(o)
    IN  IF k <= h THEN "filter"
        ELSE IF k <= h + n THEN IF o.append THEN "req_head" ELSE "req"
        ELSE IF k <= h + n + n THEN "success"
        ELSE "done"

\* How often step c occurs in a goodbye b, which has four steps at most.
StepAt(b, i, c) == IF i <= Len(b) /\ b[i] = c THEN 1 ELSE 0
Count(b, c) == StepAt(b, 1, c) + StepAt(b, 2, c) + StepAt(b, 3, c) + StepAt(b, 4, c)

\* Requests so far.
Requests == Len(asked)

\* Goodbye markers read and written, or given up, by each side.
ReceiverByeRead == Count(ReceiverGoodbye(opt), "r") - Count(rBye, "r")
ReceiverByeWrote == Count(ReceiverGoodbye(opt), "w") - Count(rBye, "w")
SenderByeRead == Count(SenderGoodbye(opt), "r") - Count(sBye, "r")
SenderByeWrote == Count(SenderGoodbye(opt), "w") - Count(sBye, "w")

\* Frames that a receiver at stage q has read, and written.
ReceiverRead(q) ==
    CASE q = "filter" -> 0
      [] q = "flist" -> PushFilter(opt)
      [] q = "markers" -> PushFilter(opt) + flists
      [] q \in {"loop", "phase", "phase_read", "stats"} ->
             PushFilter(opt) + ListLen(opt) + got + rounds
      [] q \in {"bye", "over"} ->
             PushFilter(opt) + ListLen(opt) + got + rounds + PullFilter(opt) + ReceiverByeRead
ReceiverWrote(q) ==
    CASE q = "filter" -> 0
      [] q \in {"flist", "markers"} -> PullFilter(opt)
      [] q \in {"loop", "phase", "stats"} -> PullFilter(opt) + Requests + acked + rounds
      [] q = "phase_read" -> PullFilter(opt) + Requests + acked + rounds + 1
      [] q \in {"bye", "over"} -> PullFilter(opt) + Requests + acked + rounds + ReceiverByeWrote

\* Frames that its peer has written, and read.
SenderWrote(q) == ReceiverRead(q) + Len(s2r)
SenderRead(q) == ReceiverWrote(q) - Len(r2s)

\* What is in flight continues the word where its reader stands.
ToReceiver(q) ==
    \A i \in 1..Len(s2r) :
        /\ s2r[i].kind = SenderWord(opt, Requests, ReceiverRead(q) + i)
        /\ s2r[i].kind = "done" => s2r[i].file = 0
ToSender(q) ==
    \A i \in 1..Len(r2s) : r2s[i].kind = ReceiverWord(opt, Requests, SenderRead(q) + i)

\* A receiver at stage q.
AtReceiver(q) ==
    /\ q \in {"filter", "flist"} => flists = 0
    /\ q = "markers" => opt.inc
    /\ q \notin {"filter", "flist"} => flists \in 1..opt.groups
    /\ q \in {"filter", "flist", "markers"} => asked = <<>> /\ got = 0 /\ acked = 0 /\ rounds = 0
    /\ q = "loop" => acked = 0 /\ rounds = 0
    /\ q \in {"phase", "phase_read", "stats", "bye", "over"} => got = Requests
    /\ q = "phase" => rounds <= MaxPhase /\ (rounds > 0 => acked = got)
    /\ q = "phase_read" => rounds <= MaxPhase /\ acked = got
    /\ q \in {"stats", "bye", "over"} => rounds = MaxPhase + 1 /\ acked = got
    /\ q = "stats" => Pull
    /\ q \notin {"bye", "over"} => rBye = ReceiverGoodbye(opt)
    /\ q = "over" => rBye = <<>>
    /\ \A i \in 1..got : asked[i] \in stored

\* Frames other than responses that a sender in its loop has written (the group of a
\* subdirectory and the end of the list are not sent yet while pending is 1), the
\* responses it has written and the success messages it has skipped.
LoopBase == PushFilter(opt) + (ListLen(opt) - (pending + pending)) + phase
Answered(q) == SenderWrote(q) - LoopBase
Skipped(q) == SenderRead(q) - (PullFilter(opt) + phase + Answered(q))

\* A sender at stage p, whose peer is at stage q.
AtSender(p, q) ==
    /\ p \in {"filter", "flist"} => pending = 0 /\ phase = 0
    /\ p = "filter" => SenderWrote(q) = 0 /\ SenderRead(q) = 0
    /\ p = "flist" => SenderWrote(q) = PushFilter(opt) /\ SenderRead(q) = PullFilter(opt)
    /\ p \in {"inject", "read"} =>
           /\ Answered(q) \in 0..Requests /\ Skipped(q) \in 0..Requests
           /\ phase <= MaxPhase
           /\ Skipped(q) > 0 => Answered(q) = Requests
           /\ phase > 0 => Answered(q) = Requests /\ Skipped(q) = Requests
           /\ pending = 1 => opt.inc /\ opt.groups = 2 /\ Answered(q) = 0 /\ Skipped(q) = 0 /\ phase = 0
           /\ pending \in {0, 1}
    /\ p = "read" => pending = 0
    /\ p \in {"after", "bye", "over"} =>
           /\ SenderWrote(q) = PushFilter(opt) + ListLen(opt) + Requests + MaxPhase + 1
                               + (IF p = "after" THEN 0 ELSE PullFilter(opt)) + SenderByeWrote
           /\ \/ SenderRead(q) = PullFilter(opt) + Requests + Requests + MaxPhase + 1 + SenderByeRead
              \/ pcR = "failed" /\ r2s = <<>> /\ p # "after"

\* A sender out of its loop has heard the last marker of the phase exchange.
Complete(p, q) ==
    /\ p \in {"after", "bye", "over"} =>
           q \in {"phase_read", "stats", "bye", "over"} /\ rounds >= MaxPhase
    /\ p \notin {"bye", "over"} => removed = {} /\ sBye = SenderGoodbye(opt)
    /\ p = "over" => sBye = <<>>

\* The two sides at stages p and q, or broken off there.  A receiver saying goodbye
\* to a sender that failed counts markers that never came.
Together(p, q) ==
    /\ pcS \in {p, "failed"} /\ pcR \in {q, "failed"}
    /\ AtReceiver(q) /\ ToReceiver(q) /\ ToSender(q) /\ Complete(p, q)
    /\ AtSender(p, q) \/ (pcS = "failed" /\ s2r = <<>> /\ q \in {"bye", "over"})

\* What is left of the goodbyes.
ShortByes ==
    /\ Len(sBye) <= 4 /\ SenderByeRead \in Nat /\ SenderByeWrote \in Nat
    /\ Len(rBye) <= 4 /\ ReceiverByeRead \in Nat /\ ReceiverByeWrote \in Nat

\* The inductive invariant.
IInv ==
    /\ TypeOK /\ ShortByes
    /\ \E p \in SenderStages, q \in ReceiverStages : Together(p, q)

-----------------------------------------------------------------------------
\* Lemmas about the operators.

\* Every option record the two sides agree on has these fields, and a file list of
\* one to three frames.
LEMMA OptionFacts ==
    ASSUME NEW o \in SupportedOptions
    PROVE  /\ PushFilter(o) \in {0, 1} /\ PullFilter(o) \in {0, 1}
           /\ ListLen(o) \in 1..3
           /\ o.inc \in BOOLEAN /\ o.append \in BOOLEAN /\ o.sync \in BOOLEAN
           /\ o.groups \in 1..2
           /\ o.dir \in {"push", "pull"}
    BY DEF SupportedOptions, AllOptions, PushFilter, PullFilter, ListLen

\* A goodbye gets shorter by its first step.
LEMMA CountTail ==
    ASSUME NEW b \in Seq({"r", "w"}), b # <<>>, Len(b) <= 4, NEW c \in {"r", "w"}
    PROVE  Count(b, c) = Count(Tail(b), c) + (IF Head(b) = c THEN 1 ELSE 0)
    BY DEF Count, StepAt

\* A count is a small natural number.
LEMMA CountType ==
    ASSUME NEW b, NEW c
    PROVE  Count(b, c) \in 0..4
    BY DEF Count, StepAt

\* Nothing is left of a finished goodbye.
LEMMA CountEmpty ==
    ASSUME NEW c
    PROVE  Count(<<>>, c) = 0
    BY DEF Count, StepAt

\* The steps of the four goodbyes: each marker read is one the peer writes, and the
\* client of a push at protocol 31 writes one that nobody reads.
LEMMA GoodbyeCounts ==
    ASSUME NEW o \in SupportedOptions
    PROVE  /\ Count(SenderGoodbye(o), "r") = Count(ReceiverGoodbye(o), "w")
           /\ Count(SenderGoodbye(o), "w") =
                  Count(ReceiverGoodbye(o), "r") + (IF o.dir = "push" /\ o.sync THEN 1 ELSE 0)
           /\ SenderGoodbye(o) \in Seq({"r", "w"}) /\ ReceiverGoodbye(o) \in Seq({"r", "w"})
           /\ Len(SenderGoodbye(o)) <= 4 /\ Len(ReceiverGoodbye(o)) <= 4
<1>1. o.dir \in {"push", "pull"} /\ o.sync \in BOOLEAN
    BY OptionFacts
<1>2. CASE o.dir = "push" /\ o.sync
    BY <1>2 DEF SenderGoodbye, ReceiverGoodbye, Count, StepAt
<1>3. CASE o.dir = "push" /\ ~o.sync
    BY <1>3 DEF SenderGoodbye, ReceiverGoodbye, Count, StepAt
<1>4. CASE o.dir = "pull" /\ o.sync
    BY <1>4 DEF SenderGoodbye, ReceiverGoodbye, Count, StepAt
<1>5. CASE o.dir = "pull" /\ ~o.sync
    BY <1>5 DEF SenderGoodbye, ReceiverGoodbye, Count, StepAt
<1> QED
    BY <1>1, <1>2, <1>3, <1>4, <1>5

\* The two words, place by place.
LEMMA SenderWordIs ==
    ASSUME NEW o \in SupportedOptions, NEW n \in Nat, NEW k \in Int
    PROVE  LET h == PushFilter(o)
               t == h + ListLen(o)
               w == SenderWord(o, n, k)
           IN  /\ k <= h => w = "filter"
               /\ h < k /\ k <= t /\ ~o.inc => w = "flist"
               /\ k = h + 1 /\ o.inc => w = "root"
               /\ k = t /\ o.inc => w = "flist_eof"
               /\ h + 1 < k /\ k < t /\ o.inc => w = "group"
               /\ t < k /\ k <= t + n => w = "resp"
               /\ t + n < k /\ k <= t + n + MaxPhase + 1 => w = "done"
               /\ o.dir = "pull" /\ k = t + n + MaxPhase + 2 => w = "stats"
               /\ o.dir = "push" /\ t + n < k => w = "done"
               /\ t + n + MaxPhase + 2 < k => w = "done"
<1>1. /\ PushFilter(o) \in {0, 1} /\ ListLen(o) \in 1..3 /\ MaxPhase \in Nat
      /\ o.inc \in BOOLEAN /\ (o.inc => ListLen(o) \in 2..3)
    BY OptionFacts, SessionAssumption DEF SupportedOptions, AllOptions, ListLen
<1> QED
    BY <1>1 DEF SenderWord

LEMMA ReceiverWordIs ==
    ASSUME NEW o \in SupportedOptions, NEW n \in Nat, NEW k \in Int
    PROVE  LET h == PullFilter(o)
               w == ReceiverWord(o, n, k)
           IN  /\ w = "filter" <=> k <= h
               /\ w \in {"req", "req_head"} <=> h < k /\ k <= h + n
               /\ w = "success" <=> h + n < k /\ k <= h + n + n
               /\ w = "done" <=> h + n + n < k
               /\ w \in {"req", "req_head"} => w = IF o.append THEN "req_head" ELSE "req"
               /\ w \in {"filter", "req", "req_head", "success", "done"}
<1>1. PullFilter(o) \in {0, 1}
    BY OptionFacts
<1> QED
    BY <1>1 DEF ReceiverWord

\* More requests do not change a word up to its last request or response.
LEMMA WordsGrow ==
    ASSUME NEW o \in SupportedOptions, NEW n \in Nat, NEW k \in Int
    PROVE  /\ k <= PushFilter(o) + ListLen(o) + n => SenderWord(o, n + 1, k) = SenderWord(o, n, k)
           /\ k <= PullFilter(o) + n => ReceiverWord(o, n + 1, k) = ReceiverWord(o, n, k)
<1>1. PushFilter(o) \in {0, 1} /\ ListLen(o) \in 1..3 /\ PullFilter(o) \in {0, 1}
    BY OptionFacts
<1> QED
    BY <1>1 DEF SenderWord, ReceiverWord

\* What remains of a queue after a read, and what a write adds to one.
LEMMA QueueRead ==
    ASSUME NEW S, NEW s \in Seq(S), s # <<>>
    PROVE  /\ Len(s) > 0 /\ Head(s) = s[1]
           /\ Tail(s) \in Seq(S) /\ Len(Tail(s)) = Len(s) - 1
           /\ \A i \in 1..Len(Tail(s)) : Tail(s)[i] = s[i + 1]
    OBVIOUS

LEMMA QueueEmpty ==
    ASSUME NEW S, NEW s \in Seq(S), Len(s) = 0
    PROVE  s = <<>>
    OBVIOUS

LEMMA QueueWrite ==
    ASSUME NEW S, NEW s \in Seq(S), NEW t \in Seq(S)
    PROVE  /\ s \o t \in Seq(S) /\ Len(s \o t) = Len(s) + Len(t)
           /\ \A i \in 1..Len(s) : (s \o t)[i] = s[i]
           /\ \A i \in 1..Len(t) : (s \o t)[Len(s) + i] = t[i]
           /\ \A j \in 1..Len(s \o t) : j > Len(s) => j - Len(s) \in 1..Len(t)
    OBVIOUS

\* The frames read and written, stage by stage.
StageCounts ==
    /\ ReceiverRead("filter") = 0 /\ ReceiverWrote("filter") = 0
    /\ ReceiverRead("flist") = PushFilter(opt) /\ ReceiverWrote("flist") = PullFilter(opt)
    /\ ReceiverRead("markers") = PushFilter(opt) + flists
    /\ ReceiverWrote("markers") = PullFilter(opt)
    /\ \A q \in {"loop", "phase", "phase_read", "stats"} :
           ReceiverRead(q) = PushFilter(opt) + ListLen(opt) + got + rounds
    /\ \A q \in {"loop", "phase", "stats"} :
           ReceiverWrote(q) = PullFilter(opt) + Requests + acked + rounds
    /\ ReceiverWrote("phase_read") = PullFilter(opt) + Requests + acked + rounds + 1
    /\ \A q \in {"bye", "over"} :
           /\ ReceiverRead(q) = PushFilter(opt) + ListLen(opt) + got + rounds
                                + PullFilter(opt) + ReceiverByeRead
           /\ ReceiverWrote(q) = PullFilter(opt) + Requests + acked + rounds + ReceiverByeWrote

LEMMA ReceiverCounts == StageCounts /\ StageCounts'
    BY DEF StageCounts, ReceiverRead, ReceiverWrote

\* The counts are integers, and those of the receiver natural numbers.
LEMMA CountsType ==
    ASSUME Options \subseteq SupportedOptions, TypeOK, NEW q \in ReceiverStages
    PROVE  /\ ReceiverRead(q) \in Int /\ ReceiverWrote(q) \in Int
           /\ SenderWrote(q) \in Int /\ SenderRead(q) \in Int
           /\ Requests \in Nat /\ Len(s2r) \in Nat /\ Len(r2s) \in Nat
           /\ LoopBase \in Int /\ Answered(q) \in Int /\ Skipped(q) \in Int
<1>1. opt \in SupportedOptions
    BY DEF TypeOK
<1>2. Requests \in Nat /\ Len(s2r) \in Nat /\ Len(r2s) \in Nat
    BY DEF TypeOK, Requests
<1>3. /\ flists \in Nat /\ got \in Nat /\ acked \in Nat /\ rounds \in Nat
      /\ pending \in Nat /\ phase \in Nat
    BY <1>2, SessionAssumption DEF TypeOK
<1>4. PushFilter(opt) \in Nat /\ PullFilter(opt) \in Nat /\ ListLen(opt) \in Nat
    BY <1>1, OptionFacts
<1>5. ReceiverByeRead \in Int /\ ReceiverByeWrote \in Int
    BY CountType DEF ReceiverByeRead, ReceiverByeWrote
<1>6. ReceiverRead(q) \in Int /\ ReceiverWrote(q) \in Int
    <2>1. CASE q \in {"filter", "flist", "markers"}
        BY <1>3, <1>4, <2>1 DEF ReceiverRead, ReceiverWrote
    <2>2. PushFilter(opt) + ListLen(opt) + got + rounds \in Int
        BY <1>3, <1>4
    <2>3. PullFilter(opt) + Requests + acked + rounds \in Int
        BY <1>2, <1>3, <1>4
    <2>4. CASE q \in {"loop", "phase", "phase_read", "stats"}
        BY <2>2, <2>3, <2>4, ReceiverCounts DEF StageCounts
    <2>5. CASE q \in {"bye", "over"}
        BY <1>4, <1>5, <2>2, <2>3, <2>5, ReceiverCounts DEF StageCounts
    <2> QED
        BY <2>1, <2>4, <2>5 DEF ReceiverStages
<1>7. SenderWrote(q) \in Int /\ SenderRead(q) \in Int
    BY <1>2, <1>6 DEF SenderWrote, SenderRead
<1>8. LoopBase \in Int /\ Answered(q) \in Int
    BY <1>3, <1>4, <1>7 DEF LoopBase, Answered
<1>9. Skipped(q) \in Int
    BY <1>3, <1>4, <1>7, <1>8 DEF Skipped
<1> QED
    BY <1>2, <1>6, <1>7, <1>8, <1>9

-----------------------------------------------------------------------------
\* How a step that moves one frame changes the counts and what is in flight.

\* The frame that is read next.
LEMMA NextFrame ==
    ASSUME Options \subseteq SupportedOptions, TypeOK, NEW q \in ReceiverStages
    PROVE  /\ ToReceiver(q) /\ s2r # <<>> =>
                  Head(s2r).kind = SenderWord(opt, Requests, ReceiverRead(q) + 1)
           /\ ToSender(q) /\ r2s # <<>> =>
                  Head(r2s).kind = ReceiverWord(opt, Requests, SenderRead(q) + 1)
<1>1. s2r # <<>> => Len(s2r) \in Nat /\ 1 \in 1..Len(s2r) /\ Head(s2r) = s2r[1]
    BY QueueRead DEF TypeOK
<1>2. r2s # <<>> => Len(r2s) \in Nat /\ 1 \in 1..Len(r2s) /\ Head(r2s) = r2s[1]
    BY QueueRead DEF TypeOK
<1> QED
    BY <1>1, <1>2 DEF ToReceiver, ToSender

\* The receiver reads a frame.
LEMMA ReceiverReads ==
    ASSUME Options \subseteq SupportedOptions, TypeOK,
           NEW q \in ReceiverStages, NEW q2 \in ReceiverStages,
           ToReceiver(q), ToSender(q), s2r # <<>>, s2r' = Tail(s2r),
           UNCHANGED <<r2s, opt, asked>>,
           ReceiverRead(q2)' = ReceiverRead(q) + 1, ReceiverWrote(q2)' = ReceiverWrote(q)
    PROVE  /\ ToReceiver(q2)' /\ ToSender(q2)'
           /\ SenderWrote(q2)' = SenderWrote(q) /\ SenderRead(q2)' = SenderRead(q)
<1>1. ReceiverRead(q) \in Int /\ Len(s2r) \in Nat
    BY CountsType
<1>2. /\ Len(s2r') = Len(s2r) - 1
      /\ \A i \in 1..Len(s2r') : s2r'[i] = s2r[i + 1] /\ i + 1 \in 1..Len(s2r)
    BY QueueRead DEF TypeOK
<1>3. SenderWrote(q2)' = SenderWrote(q)
    BY <1>1, <1>2 DEF SenderWrote
<1>4. SenderRead(q2)' = SenderRead(q)
    BY DEF SenderRead
<1>5. Requests' = Requests
    BY DEF Requests
<1>6. ToSender(q2)'
    BY <1>4, <1>5 DEF ToSender
<1>7. ToReceiver(q2)'
    <2> SUFFICES ASSUME NEW i \in 1..Len(s2r')
                 PROVE  /\ s2r'[i].kind = SenderWord(opt', Requests', ReceiverRead(q2)' + i)
                        /\ s2r'[i].kind = "done" => s2r'[i].file = 0
        BY DEF ToReceiver
    <2>1. (ReceiverRead(q) + 1) + i = ReceiverRead(q) + (i + 1)
        BY <1>1, <1>2
    <2> QED
        BY <1>2, <1>5, <2>1 DEF ToReceiver
<1> QED
    BY <1>3, <1>4, <1>6, <1>7

\* The receiver writes a frame.
LEMMA ReceiverWrites ==
    ASSUME Options \subseteq SupportedOptions, TypeOK,
           NEW q \in ReceiverStages, NEW q2 \in ReceiverStages,
           ToReceiver(q), ToSender(q), NEW f, r2s' = Append(r2s, f), UNCHANGED <<s2r, opt>>,
           ReceiverRead(q2)' = ReceiverRead(q), ReceiverWrote(q2)' = ReceiverWrote(q) + 1,
           f.kind = ReceiverWord(opt, Requests', ReceiverWrote(q) + 1),
           \A k \in Int : k <= ReceiverWrote(q) =>
               ReceiverWord(opt, Requests', k) = ReceiverWord(opt, Requests, k),
           \A k \in Int : k <= SenderWrote(q) =>
               SenderWord(opt, Requests', k) = SenderWord(opt, Requests, k)
    PROVE  /\ ToReceiver(q2)' /\ ToSender(q2)'
           /\ SenderWrote(q2)' = SenderWrote(q) /\ SenderRead(q2)' = SenderRead(q)
<1>1. /\ ReceiverRead(q) \in Int /\ Len(s2r) \in Nat /\ ReceiverWrote(q) \in Int /\ Len(r2s) \in Nat
      /\ SenderRead(q) = ReceiverWrote(q) - Len(r2s) /\ SenderWrote(q) = ReceiverRead(q) + Len(s2r)
    BY CountsType DEF SenderRead, SenderWrote
<1>2. /\ Len(r2s') = Len(r2s) + 1 /\ r2s'[Len(r2s) + 1] = f
      /\ \A i \in 1..Len(r2s) : r2s'[i] = r2s[i]
    BY DEF TypeOK
<1>3. SenderRead(q2)' = SenderRead(q)
    BY <1>1, <1>2 DEF SenderRead
<1>4. SenderWrote(q2)' = SenderWrote(q)
    BY DEF SenderWrote
<1>5. ToReceiver(q2)'
    <2> SUFFICES ASSUME NEW i \in 1..Len(s2r)
                 PROVE  s2r[i].kind = SenderWord(opt, Requests', ReceiverRead(q) + i)
        BY DEF ToReceiver
    <2> QED
        BY <1>1 DEF ToReceiver
<1>6. ToSender(q2)'
    <2> SUFFICES ASSUME NEW i \in 1..Len(r2s')
                 PROVE  r2s'[i].kind = ReceiverWord(opt, Requests', SenderRead(q) + i)
        BY <1>3 DEF ToSender
    <2>1. CASE i = Len(r2s) + 1
        BY <1>1, <1>2, <2>1
    <2>2. CASE i \in 1..Len(r2s)
        BY <1>1, <1>2, <2>2 DEF ToSender
    <2> QED
        BY <1>1, <1>2, <2>1, <2>2
<1> QED
    BY <1>3, <1>4, <1>5, <1>6

\* The receiver changes its stage and touches neither direction.
LEMMA ReceiverMoves ==
    ASSUME NEW q \in ReceiverStages, NEW q2 \in ReceiverStages,
           ToReceiver(q), ToSender(q), UNCHANGED <<s2r, r2s, opt, asked>>,
           ReceiverRead(q2)' = ReceiverRead(q), ReceiverWrote(q2)' = ReceiverWrote(q)
    PROVE  /\ ToReceiver(q2)' /\ ToSender(q2)'
           /\ SenderWrote(q2)' = SenderWrote(q) /\ SenderRead(q2)' = SenderRead(q)
<1>1. Requests' = Requests
    BY DEF Requests
<1>2. SenderWrote(q2)' = SenderWrote(q) /\ SenderRead(q2)' = SenderRead(q)
    BY DEF SenderWrote, SenderRead
<1> QED
    BY <1>1, <1>2 DEF ToReceiver, ToSender

\* A step of the receiver that leaves the frames its peer has written and read.
LEMMA SenderKept ==
    ASSUME NEW p \in SenderStages, NEW q \in ReceiverStages, NEW q2 \in ReceiverStages,
           AtSender(p, q), UNCHANGED <<opt, asked, sendVars>>,
           SenderWrote(q2)' = SenderWrote(q), SenderRead(q2)' = SenderRead(q),
           pcR = "failed" /\ r2s = <<>> => pcR' = "failed" /\ r2s' = <<>>
    PROVE  AtSender(p, q2)'
<1>1. Requests' = Requests /\ Answered(q2)' = Answered(q) /\ Skipped(q2)' = Skipped(q)
    BY DEF Requests, LoopBase, Answered, Skipped, sendVars
<1>2. SenderByeRead' = SenderByeRead /\ SenderByeWrote' = SenderByeWrote
    BY DEF SenderByeRead, SenderByeWrote, sendVars
<1> QED
    BY <1>1, <1>2 DEF AtSender, sendVars

\* The sender reads a frame.
LEMMA SenderReads ==
    ASSUME Options \subseteq SupportedOptions, TypeOK, NEW q \in ReceiverStages,
           ToSender(q), r2s # <<>>, r2s' = Tail(r2s), UNCHANGED <<opt, recvVars>>
    PROVE  ToSender(q)' /\ SenderRead(q)' = SenderRead(q) + 1
<1>1. ReceiverWrote(q) \in Int /\ Len(r2s) \in Nat /\ SenderRead(q) \in Int
    BY CountsType
<1>2. /\ Len(r2s') = Len(r2s) - 1
      /\ \A i \in 1..Len(r2s') : r2s'[i] = r2s[i + 1] /\ i + 1 \in 1..Len(r2s)
    BY QueueRead DEF TypeOK
<1>3. ReceiverWrote(q)' = ReceiverWrote(q) /\ Requests' = Requests
    BY DEF ReceiverWrote, ReceiverByeWrote, Requests, recvVars
<1>4. SenderRead(q)' = SenderRead(q) + 1
    BY <1>1, <1>2, <1>3 DEF SenderRead
<1>5. ToSender(q)'
    <2> SUFFICES ASSUME NEW i \in 1..Len(r2s')
                 PROVE  r2s'[i].kind = ReceiverWord(opt, Requests, (SenderRead(q) + 1) + i)
        BY <1>3, <1>4 DEF ToSender
    <2>1. (SenderRead(q) + 1) + i = SenderRead(q) + (i + 1)
        BY <1>1, <1>2
    <2> QED
        BY <1>2, <2>1 DEF ToSender
<1> QED
    BY <1>4, <1>5

\* The sender writes frames.
LEMMA SenderWrites ==
    ASSUME Options \subseteq SupportedOptions, TypeOK, NEW q \in ReceiverStages,
           ToReceiver(q), NEW t \in Seq(SenderFrames), s2r' = s2r \o t, UNCHANGED <<opt, recvVars>>,
           \A i \in 1..Len(t) : /\ t[i].kind = SenderWord(opt, Requests, SenderWrote(q) + i)
                                /\ t[i].kind = "done" => t[i].file = 0
    PROVE  ToReceiver(q)' /\ SenderWrote(q)' = SenderWrote(q) + Len(t)
<1>1. ReceiverRead(q) \in Int /\ Len(s2r) \in Nat /\ SenderWrote(q) = ReceiverRead(q) + Len(s2r)
    BY CountsType DEF SenderWrote
<1>2. /\ Len(s2r') = Len(s2r) + Len(t) /\ Len(t) \in Nat
      /\ \A i \in 1..Len(s2r) : s2r'[i] = s2r[i]
      /\ \A i \in 1..Len(t) : s2r'[Len(s2r) + i] = t[i]
    BY QueueWrite DEF TypeOK
<1>3. ReceiverRead(q)' = ReceiverRead(q) /\ Requests' = Requests
    BY DEF ReceiverRead, ReceiverByeRead, Requests, recvVars
<1>4. SenderWrote(q)' = SenderWrote(q) + Len(t)
    BY <1>1, <1>2, <1>3 DEF SenderWrote
<1>5. ToReceiver(q)'
    <2> SUFFICES ASSUME NEW i \in 1..Len(s2r')
                 PROVE  /\ s2r'[i].kind = SenderWord(opt, Requests, ReceiverRead(q) + i)
                        /\ s2r'[i].kind = "done" => s2r'[i].file = 0
        BY <1>3 DEF ToReceiver
    <2>1. CASE i \in 1..Len(s2r)
        BY <1>2, <2>1 DEF ToReceiver
    <2>2. CASE i \notin 1..Len(s2r)
        <3>1. PICK j \in 1..Len(t) : i = Len(s2r) + j
            <4>1. i - Len(s2r) \in 1..Len(t) /\ i = Len(s2r) + (i - Len(s2r))
                BY <1>1, <1>2, <2>2
            <4> QED
                BY <4>1
        <3>2. SenderWrote(q) + j = ReceiverRead(q) + i
            BY <1>1, <1>2, <3>1
        <3> QED
            BY <1>2, <3>1, <3>2
    <2> QED
        BY <2>1, <2>2
<1> QED
    BY <1>4, <1>5

LEMMA SenderWritesOne ==
    ASSUME Options \subseteq SupportedOptions, TypeOK, NEW q \in ReceiverStages,
           ToReceiver(q), NEW f \in SenderFrames, s2r' = Append(s2r, f), UNCHANGED <<opt, recvVars>>,
           f.kind = SenderWord(opt, Requests, SenderWrote(q) + 1),
           f.kind = "done" => f.file = 0
    PROVE  ToReceiver(q)' /\ SenderWrote(q)' = SenderWrote(q) + 1 /\ s2r' \in Seq(SenderFrames)
<1> DEFINE t == <<f>>
<1>1. s2r \in Seq(SenderFrames)
    BY DEF TypeOK
<1>2. t \in Seq(SenderFrames) /\ Len(t) = 1 /\ t[1] = f /\ s2r' = s2r \o t /\ s2r' \in Seq(SenderFrames)
    BY <1>1
<1> HIDE DEF t
<1>3. \A i \in 1..Len(t) : /\ t[i].kind = SenderWord(opt, Requests, SenderWrote(q) + i)
                           /\ t[i].kind = "done" => t[i].file = 0
    BY <1>2
<1>4. ToReceiver(q)' /\ SenderWrote(q)' = SenderWrote(q) + Len(t)
    BY <1>2, <1>3, SenderWrites, Zenon
<1> QED
    BY <1>2, <1>4

\* The sender leaves a direction alone.
LEMMA SenderSilent ==
    ASSUME NEW q \in ReceiverStages, UNCHANGED <<opt, recvVars>>
    PROVE  /\ ToReceiver(q) /\ s2r' = s2r => ToReceiver(q)' /\ SenderWrote(q)' = SenderWrote(q)
           /\ ToSender(q) /\ r2s' = r2s => ToSender(q)' /\ SenderRead(q)' = SenderRead(q)
<1>1. /\ ReceiverRead(q)' = ReceiverRead(q) /\ ReceiverWrote(q)' = ReceiverWrote(q)
      /\ Requests' = Requests
    BY DEF ReceiverRead, ReceiverWrote, ReceiverByeRead, ReceiverByeWrote, Requests, recvVars
<1> QED
    BY <1>1 DEF ToReceiver, ToSender, SenderWrote, SenderRead

\* Only a receiver in its last round of the phase exchange, or past it, has written as
\* many frames as a sender reads before it leaves its loop.
LEMMA LastMarker ==
    ASSUME Options \subseteq SupportedOptions, TypeOK, NEW q \in ReceiverStages, AtReceiver(q),
           PullFilter(opt) + Requests + Requests + MaxPhase + 1 <= ReceiverWrote(q)
    PROVE  q \in {"phase_read", "stats", "bye", "over"} /\ rounds >= MaxPhase
<1>1. /\ PullFilter(opt) \in Int /\ Requests \in Nat /\ MaxPhase \in Nat /\ acked \in Nat
      /\ rounds \in Nat /\ acked <= Requests
    <2>1. opt \in SupportedOptions
        BY DEF TypeOK
    <2> QED
        BY <2>1, OptionFacts, CountsType, SessionAssumption DEF TypeOK, Requests
<1>2. PullFilter(opt) \in {0, 1}
    BY OptionFacts DEF TypeOK
<1>3. CASE q = "filter"
    BY <1>1, <1>2, <1>3, ReceiverCounts DEF StageCounts
<1>4. CASE q \in {"flist", "markers"}
    BY <1>1, <1>4, ReceiverCounts DEF StageCounts
<1>5. CASE q = "loop"
    BY <1>1, <1>5, ReceiverCounts DEF StageCounts, AtReceiver
<1>6. CASE q = "phase"
    BY <1>1, <1>6, ReceiverCounts DEF StageCounts, AtReceiver
<1>7. CASE q = "phase_read"
    BY <1>1, <1>7, ReceiverCounts DEF StageCounts, AtReceiver
<1>8. CASE q \in {"stats", "bye", "over"}
    BY <1>1, <1>8 DEF AtReceiver
<1> QED
    BY <1>3, <1>4, <1>5, <1>6, <1>7, <1>8 DEF ReceiverStages

-----------------------------------------------------------------------------
\* Every step of the sender keeps the invariant.
LEMMA SenderStep ==
    ASSUME Options \subseteq SupportedOptions, TypeOK, ShortByes,
           NEW p \in SenderStages, NEW q \in ReceiverStages, Together(p, q), SenderNext
    PROVE  IInv'
<1>1. UNCHANGED <<opt, recvVars>>
    BY DEF SenderNext, SenderFilterList, SendFileList, Inject, SenderReadReq, SenderReadSuccess,
           SenderReadDone, SenderAfter, SenderBye, sendVars
<1>2. pcS = p /\ p # "over"
    BY DEF SenderNext, SenderFilterList, SendFileList, Inject, SenderReadReq, SenderReadSuccess,
           SenderReadDone, SenderAfter, SenderBye, Together, SenderStages
<1>3. /\ AtSender(p, q) /\ AtReceiver(q) /\ ToReceiver(q) /\ ToSender(q) /\ Complete(p, q)
      /\ pcR \in {q, "failed"} /\ pcS # "failed"
    BY <1>2 DEF Together, SenderStages
<1>4. /\ opt \in SupportedOptions
      /\ PushFilter(opt) \in {0, 1} /\ PullFilter(opt) \in {0, 1} /\ ListLen(opt) \in 1..3
      /\ opt.dir \in {"push", "pull"} /\ opt.inc \in BOOLEAN /\ opt.append \in BOOLEAN
      /\ opt.groups \in 1..2
    BY OptionFacts DEF TypeOK
<1>5. /\ SenderWrote(q) \in Int /\ SenderRead(q) \in Int /\ Requests \in Nat
      /\ LoopBase \in Int /\ Answered(q) \in Int /\ Skipped(q) \in Int /\ phase \in Nat /\ pending \in 0..2
      /\ MaxPhase \in Nat /\ Files \in Nat
    BY CountsType, SessionAssumption DEF TypeOK
<1>N. /\ PushFilter(opt) \in Int /\ PullFilter(opt) \in Int /\ ListLen(opt) \in Int
      /\ SenderWrote(q) \in Int /\ SenderRead(q) \in Int /\ Requests \in Int
      /\ LoopBase \in Int /\ Answered(q) \in Int /\ Skipped(q) \in Int /\ phase \in Int /\ pending \in Int
      /\ MaxPhase \in Int
    BY <1>4, <1>5
<1>6. /\ opt' = opt /\ pcR' = pcR /\ Requests' = Requests /\ AtReceiver(q)'
      /\ rounds' = rounds
    BY <1>1, <1>3 DEF recvVars, AtReceiver, Requests, Pull
\* What is left to show of a step that takes the sender to stage p2.
<1>7. ASSUME NEW p2 \in SenderStages, pcS' = p2,
             ToReceiver(q)', ToSender(q)', Complete(p2, q)', AtSender(p2, q)',
             s2r' \in Seq(SenderFrames), r2s' \in Seq(ReceiverFrames),
             pending' \in 0..2, phase' \in 0..(MaxPhase + 1),
             sBye' \in Seq({"r", "w"}), Len(sBye') <= 4, removed' \subseteq 1..Files,
             SenderByeRead' \in Nat, SenderByeWrote' \in Nat
      PROVE  IInv'
    <2>1. TypeOK'
        BY <1>1, <1>7 DEF TypeOK, recvVars, SenderStages
    <2>2. Together(p2, q)'
        BY <1>3, <1>6, <1>7 DEF Together
    <2>3. Len(rBye') <= 4 /\ ReceiverByeRead' \in Nat /\ ReceiverByeWrote' \in Nat
        BY <1>1 DEF ShortByes, ReceiverByeRead, ReceiverByeWrote, recvVars
    <2> QED
        BY <1>7, <2>1, <2>2, <2>3 DEF IInv, ShortByes
<1>B. ASSUME sBye' = sBye
      PROVE  SenderByeRead' = SenderByeRead /\ SenderByeWrote' = SenderByeWrote
             /\ SenderByeRead \in Nat /\ SenderByeWrote \in Nat
    BY <1>6, <1>B DEF ShortByes, SenderByeRead, SenderByeWrote
<1>K. ASSUME NEW p2 \in SenderStages, pcS' = p2,
             ToReceiver(q)', ToSender(q)', Complete(p2, q)', AtSender(p2, q)',
             s2r' \in Seq(SenderFrames), r2s' \in Seq(ReceiverFrames),
             pending' \in 0..2, phase' \in 0..(MaxPhase + 1),
             sBye' = sBye, removed' \subseteq 1..Files
      PROVE  IInv'
    <2>1. /\ SenderByeRead' \in Nat /\ SenderByeWrote' \in Nat
          /\ sBye' \in Seq({"r", "w"}) /\ Len(sBye') <= 4
        BY <1>B, <1>K DEF ShortByes, TypeOK
    <2> QED
        BY <1>7, <1>K, <2>1
<1>8. CASE SenderFilterList
    <2>1. p = "filter" /\ SenderWrote(q) = 0 /\ SenderRead(q) = 0 /\ pending = 0 /\ phase = 0
        BY <1>2, <1>3, <1>8 DEF SenderFilterList, AtSender
    <2>2. /\ ToReceiver(q)' /\ ToSender(q)' /\ pcS' = "flist"
          /\ SenderWrote(q)' = PushFilter(opt) /\ SenderRead(q)' = PullFilter(opt)
          /\ s2r' \in Seq(SenderFrames) /\ r2s' \in Seq(ReceiverFrames)
        <3>1. CASE Push /\ ~opt.delete
            <4>1. s2r' = s2r /\ r2s' = r2s /\ pcS' = "flist" /\ PushFilter(opt) = 0 /\ PullFilter(opt) = 0
                BY <1>4, <1>8, <3>1 DEF SenderFilterList, SendsFilterList, SupportedOptions, Push, Pull,
                   PushFilter, PullFilter
            <4> QED
                BY <1>1, <1>3, <2>1, <4>1, SenderSilent DEF TypeOK
        <3>2. CASE Push /\ opt.delete
            <4>1. /\ s2r' = Append(s2r, Mark("filter")) /\ r2s' = r2s /\ pcS' = "flist"
                  /\ PushFilter(opt) = 1 /\ PullFilter(opt) = 0
                BY <1>4, <1>8, <3>2 DEF SenderFilterList, SendsFilterList, Push, Pull,
                   PushFilter, PullFilter
            <4>2. Mark("filter") \in SenderFrames /\ Mark("filter").kind = "filter"
                BY <1>5 DEF Mark, Frame, SenderFrames
            <4>3. SenderWord(opt, Requests, SenderWrote(q) + 1) = "filter"
                BY <1>4, <1>5, <2>1, <4>1, SenderWordIs
            <4>4. ToReceiver(q)' /\ SenderWrote(q)' = SenderWrote(q) + 1 /\ s2r' \in Seq(SenderFrames)
                BY <1>1, <1>3, <4>1, <4>2, <4>3, SenderWritesOne
            <4>5. ToSender(q)' /\ SenderRead(q)' = SenderRead(q) /\ r2s' \in Seq(ReceiverFrames)
                BY <1>1, <1>3, <4>1, SenderSilent DEF TypeOK
            <4> QED
                BY <2>1, <4>1, <4>4, <4>5
        <3>3. CASE Pull
            <4>1. PullFilter(opt) = 1 /\ PushFilter(opt) = 0 /\ ~Push
                BY <3>3 DEF Pull, Push, PullFilter, PushFilter
            <4>2. ReceiverWord(opt, Requests, SenderRead(q) + 1) = "filter"
                BY <1>4, <1>5, <2>1, <4>1, ReceiverWordIs
            <4>3. r2s # <<>> /\ Head(r2s).kind = "filter"
                BY <1>3, <1>8, <4>1, <4>2, NextFrame DEF SenderFilterList, SenderTakes
            <4>4. s2r' = s2r /\ r2s' = Tail(r2s) /\ pcS' = "flist"
                BY <1>8, <4>1, <4>3 DEF SenderFilterList, SenderTakes
            <4> QED
                BY <1>1, <1>3, <2>1, <4>1, <4>3, <4>4, SenderReads, SenderSilent, QueueRead DEF TypeOK
        <3> QED
            BY <1>4, <3>1, <3>2, <3>3 DEF Push, Pull
    <2>3. UNCHANGED <<pending, phase, sBye, removed>>
        BY <1>8 DEF SenderFilterList
    <2>4. AtSender("flist", q)'
        BY <1>6, <2>1, <2>2, <2>3 DEF AtSender
    <2>5. Complete("flist", q)'
        BY <1>3, <1>6, <2>1, <2>3 DEF Complete
    <2> QED
        BY <1>5, <1>K, <2>1, <2>2, <2>3, <2>4, <2>5, Zenon DEF TypeOK, ShortByes, SenderStages
<1>9. CASE SendFileList
    <2>1. /\ p = "flist" /\ pending = 0 /\ phase = 0
          /\ SenderWrote(q) = PushFilter(opt) /\ SenderRead(q) = PullFilter(opt)
        BY <1>2, <1>3, <1>9 DEF SendFileList, AtSender
    <2>2. /\ pcS' = "inject" /\ r2s' = r2s /\ UNCHANGED <<phase, sBye, removed>>
        BY <1>4, <1>9 DEF SendFileList, SupportedOptions, Push
    <2>3. PICK t :
             /\ t \in Seq(SenderFrames) /\ s2r' = s2r \o t
             /\ Len(t) = ListLen(opt) - (pending' + pending') /\ pending' \in {0, 1}
             /\ pending' = 1 => opt.inc /\ opt.groups = 2
             /\ \A i \in 1..Len(t) : /\ t[i].kind = SenderWord(opt, Requests, SenderWrote(q) + i)
                                     /\ t[i].kind = "done" => t[i].file = 0
        <3>1. Mark("flist") \in SenderFrames /\ Mark("root") \in SenderFrames /\ Mark("flist_eof") \in SenderFrames
            BY <1>5 DEF Mark, Frame, SenderFrames
        <3>2. Mark("flist").kind = "flist" /\ Mark("root").kind = "root" /\ Mark("flist_eof").kind = "flist_eof"
            BY DEF Mark, Frame
        <3> HIDE DEF Mark
        <3>3. CASE ~opt.inc
            <4>1. s2r' = s2r \o <<Mark("flist")>> /\ pending' = 0 /\ ListLen(opt) = 1
                BY <1>9, <3>3 DEF SendFileList, ListLen
            <4>2. SenderWord(opt, Requests, SenderWrote(q) + 1) = "flist"
                <5>1. /\ SenderWrote(q) + 1 \in Int /\ PushFilter(opt) < SenderWrote(q) + 1
                      /\ SenderWrote(q) + 1 <= PushFilter(opt) + ListLen(opt)
                    BY <1>4, <2>1, <4>1
                <5> QED
                    BY <1>4, <1>5, <3>3, <5>1, SenderWordIs
            <4> <<Mark("flist")>> \in Seq(SenderFrames)
                BY <3>1
            <4> WITNESS <<Mark("flist")>>
            <4> QED
                BY <3>1, <3>2, <4>1, <4>2
        <3>4. CASE opt.inc /\ opt.groups = 1
            <4>1. s2r' = s2r \o <<Mark("root"), Mark("flist_eof")>> /\ pending' = 0 /\ ListLen(opt) = 2
                BY <1>9, <3>4 DEF SendFileList, ListLen
            <4>2. /\ SenderWord(opt, Requests, SenderWrote(q) + 1) = "root"
                  /\ SenderWord(opt, Requests, SenderWrote(q) + 2) = "flist_eof"
                BY <1>4, <1>5, <2>1, <3>4, <4>1, SenderWordIs
            <4> <<Mark("root"), Mark("flist_eof")>> \in Seq(SenderFrames)
                BY <3>1
            <4> WITNESS <<Mark("root"), Mark("flist_eof")>>
            <4> QED
                BY <3>1, <3>2, <4>1, <4>2
        <3>5. CASE opt.inc /\ opt.groups = 2
            <4>1. s2r' = s2r \o <<Mark("root")>> /\ pending' = 1 /\ ListLen(opt) = 3
                BY <1>9, <3>5 DEF SendFileList, ListLen
            <4>2. SenderWord(opt, Requests, SenderWrote(q) + 1) = "root"
                BY <1>4, <1>5, <2>1, <3>5, <4>1, SenderWordIs
            <4> <<Mark("root")>> \in Seq(SenderFrames)
                BY <3>1
            <4> WITNESS <<Mark("root")>>
            <4> QED
                BY <3>1, <3>2, <3>5, <4>1, <4>2
        <3>6. ~opt.inc \/ (opt.inc /\ opt.groups = 1) \/ (opt.inc /\ opt.groups = 2)
            BY <1>4
        <3> QED
            BY <3>3, <3>4, <3>5, <3>6, Zenon
    <2>4. /\ ToReceiver(q)' /\ SenderWrote(q)' = SenderWrote(q) + Len(t)
          /\ ToSender(q)' /\ SenderRead(q)' = SenderRead(q)
        <3>1. ToReceiver(q)' /\ SenderWrote(q)' = SenderWrote(q) + Len(t)
            BY <1>1, <1>3, <2>3, SenderWrites, Zenon
        <3> QED
            BY <1>1, <1>3, <2>2, <3>1, SenderSilent
    <2>5. s2r' \in Seq(SenderFrames) /\ r2s' \in Seq(ReceiverFrames)
        BY <2>2, <2>3, QueueWrite DEF TypeOK
    <2>6. Answered(q)' = 0
        <3>1. Len(t) \in Int /\ pending' \in Int /\ Len(t) = ListLen(opt) - (pending' + pending')
            BY <2>3
        <3>2. LoopBase' = PushFilter(opt) + Len(t)
            BY <1>N, <1>6, <2>1, <2>2, <3>1 DEF LoopBase
        <3> QED
            BY <1>N, <2>1, <2>4, <3>1, <3>2 DEF Answered
    <2>7. Skipped(q)' = 0
        BY <1>N, <1>6, <2>1, <2>2, <2>4, <2>6 DEF Skipped
    <2>8. AtSender("inject", q)'
        BY <1>5, <1>6, <2>1, <2>2, <2>3, <2>6, <2>7 DEF AtSender
    <2>9. Complete("inject", q)'
        BY <1>3, <1>6, <2>1, <2>2 DEF Complete
    <2>10. /\ pending' \in 0..2 /\ phase' \in 0..(MaxPhase + 1) /\ "inject" \in SenderStages
           /\ sBye' = sBye /\ removed' \subseteq 1..Files
        BY <2>2, <2>3 DEF TypeOK, ShortByes, SenderStages
    <2> QED
        BY <1>K, <2>2, <2>4, <2>5, <2>8, <2>9, <2>10
<1>10. CASE Inject
    <2>1. p = "inject" /\ pending \in {0, 1}
        BY <1>2, <1>3, <1>10 DEF Inject, AtSender
    <2>2. pcS' = "read" /\ r2s' = r2s /\ pending' = 0 /\ UNCHANGED <<phase, sBye, removed>>
        BY <1>10, <2>1 DEF Inject
    <2>3. /\ ToReceiver(q)' /\ SenderWrote(q)' = SenderWrote(q) + (pending + pending)
          /\ s2r' \in Seq(SenderFrames)
        <3>1. CASE pending = 0
            BY <1>1, <1>3, <1>5, <1>10, <3>1, SenderSilent DEF Inject, TypeOK
        <3>2. CASE pending = 1
            <4> DEFINE t == <<Mark("group"), Mark("flist_eof")>>
            <4>1. s2r' = s2r \o t
                BY <1>10, <3>2 DEF Inject
            <4>2. /\ t \in Seq(SenderFrames) /\ Len(t) = 2
                  /\ t[1].kind = "group" /\ t[2].kind = "flist_eof"
                BY <1>5 DEF Mark, Frame, SenderFrames
            <4>3. /\ opt.inc /\ ListLen(opt) = 3 /\ Answered(q) = 0 /\ phase = 0
                BY <1>3, <2>1, <3>2 DEF AtSender, ListLen
            <4>4. SenderWrote(q) = PushFilter(opt) + 1
                BY <1>N, <3>2, <4>3 DEF LoopBase, Answered
            <4>5. /\ SenderWord(opt, Requests, SenderWrote(q) + 1) = "group"
                  /\ SenderWord(opt, Requests, SenderWrote(q) + 2) = "flist_eof"
                <5>1. /\ SenderWrote(q) + 1 \in Int /\ SenderWrote(q) + 2 \in Int
                      /\ PushFilter(opt) + 1 < SenderWrote(q) + 1
                      /\ SenderWrote(q) + 1 < PushFilter(opt) + ListLen(opt)
                      /\ SenderWrote(q) + 2 = PushFilter(opt) + ListLen(opt)
                    BY <1>4, <4>3, <4>4
                <5> QED
                    BY <1>4, <1>5, <4>3, <5>1, SenderWordIs
            <4> HIDE DEF t
            <4>6. \A i \in 1..Len(t) : /\ t[i].kind = SenderWord(opt, Requests, SenderWrote(q) + i)
                                       /\ t[i].kind = "done" => t[i].file = 0
                BY <4>2, <4>5
            <4>7. ToReceiver(q)' /\ SenderWrote(q)' = SenderWrote(q) + Len(t)
                BY <1>1, <1>3, <4>1, <4>2, <4>6, SenderWrites, Zenon
            <4>8. s2r' \in Seq(SenderFrames)
                BY <4>1, <4>2, QueueWrite DEF TypeOK
            <4> QED
                BY <3>2, <4>2, <4>7, <4>8
        <3> QED
            BY <2>1, <3>1, <3>2
    <2>4. ToSender(q)' /\ SenderRead(q)' = SenderRead(q)
        BY <1>1, <1>3, <2>2, SenderSilent
    <2>5. Answered(q)' = Answered(q)
        <3>1. LoopBase' = LoopBase + (pending + pending)
            BY <1>N, <1>6, <2>2 DEF LoopBase
        <3> QED
            BY <1>N, <2>3, <3>1 DEF Answered
    <2>6. Skipped(q)' = Skipped(q)
        BY <1>6, <2>2, <2>4, <2>5 DEF Skipped
    <2>7. AtSender("read", q)'
        BY <1>3, <1>6, <2>1, <2>2, <2>5, <2>6 DEF AtSender
    <2>8. Complete("read", q)'
        BY <1>3, <1>6, <2>1, <2>2 DEF Complete
    <2>9. /\ pending' \in 0..2 /\ phase' \in 0..(MaxPhase + 1) /\ "read" \in SenderStages
          /\ sBye' = sBye /\ removed' \subseteq 1..Files
          /\ r2s' \in Seq(ReceiverFrames)
        BY <2>2, <2>3 DEF TypeOK, ShortByes, SenderStages
    <2> QED
        BY <1>K, <2>2, <2>3, <2>4, <2>7, <2>8, <2>9
<1>11. CASE SenderReadReq
    <2>1. /\ p = "read" /\ pending = 0 /\ r2s # <<>> /\ Head(r2s).kind \in {"req", "req_head"}
          /\ UNCHANGED <<pending, phase, sBye, removed>>
        BY <1>2, <1>3, <1>11 DEF SenderReadReq, AtSender
    <2>2. Head(r2s).kind = ReceiverWord(opt, Requests, SenderRead(q) + 1)
        BY <1>3, <2>1, NextFrame
    <2>3. /\ SenderRead(q) + 1 <= PullFilter(opt) + Requests
          /\ Head(r2s).kind = IF opt.append THEN "req_head" ELSE "req"
        BY <1>4, <1>5, <2>1, <2>2, ReceiverWordIs
    <2>4. /\ Answered(q) \in 0..Requests /\ Skipped(q) \in 0..Requests /\ phase <= MaxPhase
          /\ Skipped(q) > 0 => Answered(q) = Requests
          /\ phase > 0 => Answered(q) = Requests /\ Skipped(q) = Requests
        BY <1>3, <2>1 DEF AtSender
    <2>5. /\ SenderWrote(q) = PushFilter(opt) + ListLen(opt) + Answered(q) + phase
          /\ SenderRead(q) = PullFilter(opt) + Answered(q) + Skipped(q) + phase
        <3>1. SenderWrote(q) = PushFilter(opt) + ListLen(opt) + Answered(q) + phase
            <4>1. LoopBase = PushFilter(opt) + ListLen(opt) + phase
                BY <1>N, <2>1 DEF LoopBase
            <4> QED
                BY <1>N, <4>1 DEF Answered
        <3>2. SenderRead(q) = PullFilter(opt) + Answered(q) + Skipped(q) + phase
            BY <1>N DEF Skipped
        <3> QED
            BY <3>1, <3>2
    <2>6. Answered(q) < Requests /\ Skipped(q) = 0 /\ phase = 0
        BY <1>4, <1>5, <2>3, <2>4, <2>5
    <2>7. /\ pcS' = "inject" /\ r2s' = Tail(r2s)
          /\ s2r' = Append(s2r, Frame("resp", Head(r2s).file))
        BY <1>4, <1>11, <2>3 DEF SenderReadReq, SenderTakes, SupportedOptions, Push
    <2>8. SenderWord(opt, Requests, SenderWrote(q) + 1) = "resp"
        <3>1. /\ SenderWrote(q) + 1 \in Int /\ PushFilter(opt) + ListLen(opt) < SenderWrote(q) + 1
              /\ SenderWrote(q) + 1 <= PushFilter(opt) + ListLen(opt) + Requests
            BY <1>4, <1>5, <2>4, <2>5, <2>6
        <3> QED
            BY <1>4, <1>5, <3>1, SenderWordIs
    <2>9. /\ Frame("resp", Head(r2s).file) \in SenderFrames
          /\ Frame("resp", Head(r2s).file).kind = "resp"
        <3>1. Head(r2s) \in ReceiverFrames
            BY <2>1 DEF TypeOK
        <3> QED
            BY <3>1 DEF ReceiverFrames, SenderFrames, Frame
    <2>10. ToReceiver(q)' /\ SenderWrote(q)' = SenderWrote(q) + 1 /\ s2r' \in Seq(SenderFrames)
        BY <1>1, <1>3, <2>7, <2>8, <2>9, SenderWritesOne
    <2>11. ToSender(q)' /\ SenderRead(q)' = SenderRead(q) + 1
        BY <1>1, <1>3, <2>1, <2>7, SenderReads
    <2>12. Answered(q)' = Answered(q) + 1
        <3>1. LoopBase' = LoopBase
            BY <1>6, <2>1 DEF LoopBase
        <3> QED
            BY <1>N, <2>10, <3>1 DEF Answered
    <2>13. Skipped(q)' = Skipped(q)
        BY <1>N, <1>6, <2>1, <2>11, <2>12 DEF Skipped
    <2>14. AtSender("inject", q)'
        BY <1>5, <1>6, <2>1, <2>4, <2>6, <2>12, <2>13 DEF AtSender
    <2>15. Complete("inject", q)'
        BY <1>3, <1>6, <2>1 DEF Complete
    <2>16. /\ pending' \in 0..2 /\ phase' \in 0..(MaxPhase + 1) /\ "inject" \in SenderStages
           /\ sBye' = sBye /\ removed' \subseteq 1..Files
           /\ r2s' \in Seq(ReceiverFrames)
        BY <2>1, <2>7 DEF TypeOK, ShortByes, SenderStages
    <2> QED
        BY <1>K, <2>7, <2>10, <2>11, <2>14, <2>15, <2>16
<1>12. CASE SenderReadSuccess
    <2>1. /\ p = "read" /\ pending = 0 /\ r2s # <<>> /\ Head(r2s).kind = "success"
          /\ r2s' = Tail(r2s) /\ pcS' = "read" /\ UNCHANGED <<pending, phase, sBye, removed, s2r>>
        BY <1>2, <1>3, <1>12 DEF SenderReadSuccess, AtSender, sendVars
    <2>2. Head(r2s).kind = ReceiverWord(opt, Requests, SenderRead(q) + 1)
        BY <1>3, <2>1, NextFrame
    <2>3. /\ PullFilter(opt) + Requests < SenderRead(q) + 1
          /\ SenderRead(q) + 1 <= PullFilter(opt) + Requests + Requests
        BY <1>4, <1>5, <2>1, <2>2, ReceiverWordIs
    <2>4. /\ Answered(q) \in 0..Requests /\ Skipped(q) \in 0..Requests /\ phase <= MaxPhase
          /\ Skipped(q) > 0 => Answered(q) = Requests
          /\ phase > 0 => Answered(q) = Requests /\ Skipped(q) = Requests
        BY <1>3, <2>1 DEF AtSender
    <2>5. SenderRead(q) = PullFilter(opt) + Answered(q) + Skipped(q) + phase
        BY <1>4, <1>5, <2>1 DEF Skipped
    <2>6. Answered(q) = Requests /\ Skipped(q) < Requests /\ phase = 0
        BY <1>4, <1>5, <2>3, <2>4, <2>5
    <2>7. ToReceiver(q)' /\ SenderWrote(q)' = SenderWrote(q)
        BY <1>1, <1>3, <2>1, SenderSilent
    <2>8. ToSender(q)' /\ SenderRead(q)' = SenderRead(q) + 1
        BY <1>1, <1>3, <2>1, SenderReads
    <2>9. Answered(q)' = Answered(q)
        BY <1>6, <2>1, <2>7 DEF LoopBase, Answered
    <2>10. Skipped(q)' = Skipped(q) + 1
        BY <1>N, <1>6, <2>1, <2>8, <2>9 DEF Skipped
    <2>11. AtSender("read", q)'
        BY <1>5, <1>6, <2>1, <2>4, <2>6, <2>9, <2>10 DEF AtSender
    <2>12. Complete("read", q)'
        BY <1>3, <1>6, <2>1 DEF Complete
    <2>13. /\ pending' \in 0..2 /\ phase' \in 0..(MaxPhase + 1) /\ "read" \in SenderStages
           /\ sBye' = sBye /\ removed' \subseteq 1..Files
           /\ r2s' \in Seq(ReceiverFrames) /\ s2r' \in Seq(SenderFrames)
        BY <2>1 DEF TypeOK, ShortByes, SenderStages
    <2> QED
        BY <1>K, <2>1, <2>7, <2>8, <2>11, <2>12, <2>13
<1>13. CASE SenderReadDone
    <2>1. /\ p = "read" /\ pending = 0 /\ r2s # <<>>
          /\ Head(r2s).kind \notin {"req", "req_head", "success"}
          /\ UNCHANGED <<pending, sBye, removed>>
        BY <1>2, <1>3, <1>13 DEF SenderReadDone, AtSender
    <2>2. Head(r2s).kind = ReceiverWord(opt, Requests, SenderRead(q) + 1)
        BY <1>3, <2>1, NextFrame, Zenon
    <2>3. /\ Answered(q) \in 0..Requests /\ Skipped(q) \in 0..Requests /\ phase <= MaxPhase
          /\ Skipped(q) > 0 => Answered(q) = Requests
          /\ phase > 0 => Answered(q) = Requests /\ Skipped(q) = Requests
        BY <1>3, <2>1 DEF AtSender
    <2>4. /\ SenderWrote(q) = PushFilter(opt) + ListLen(opt) + Answered(q) + phase
          /\ SenderRead(q) = PullFilter(opt) + Answered(q) + Skipped(q) + phase
        <3>1. LoopBase = PushFilter(opt) + ListLen(opt) + phase
            BY <1>N, <2>1 DEF LoopBase
        <3>2. SenderWrote(q) = PushFilter(opt) + ListLen(opt) + Answered(q) + phase
            BY <1>N, <3>1 DEF Answered
        <3>3. SenderRead(q) = PullFilter(opt) + Answered(q) + Skipped(q) + phase
            BY <1>N DEF Skipped
        <3> QED
            BY <3>2, <3>3
    <2>5. /\ PullFilter(opt) + Requests + Requests < SenderRead(q) + 1
          /\ Head(r2s).kind = "done"
        <3>1. PullFilter(opt) < SenderRead(q) + 1
            BY <1>N, <1>5, <2>3, <2>4
        <3>2. ReceiverWord(opt, Requests, SenderRead(q) + 1) \notin {"req", "req_head", "success"}
            BY <2>1, <2>2
        <3>3. /\ PullFilter(opt) + Requests + Requests < SenderRead(q) + 1
              /\ ReceiverWord(opt, Requests, SenderRead(q) + 1) = "done"
            BY <1>4, <1>5, <3>1, <3>2, ReceiverWordIs
        <3> QED
            BY <2>2, <3>3
    <2>6. Answered(q) = Requests /\ Skipped(q) = Requests
        BY <1>N, <1>5, <2>3, <2>4, <2>5
    <2>7. /\ pcS' = IF phase + 1 > MaxPhase THEN "after" ELSE "inject"
          /\ r2s' = Tail(r2s) /\ s2r' = Append(s2r, Mark("done")) /\ phase' = phase + 1
        BY <1>13, <2>5 DEF SenderReadDone, SenderTakes
    <2>8. SenderWord(opt, Requests, SenderWrote(q) + 1) = "done"
        <3>1. /\ SenderWrote(q) + 1 \in Int
              /\ PushFilter(opt) + ListLen(opt) + Requests < SenderWrote(q) + 1
              /\ SenderWrote(q) + 1 <= PushFilter(opt) + ListLen(opt) + Requests + MaxPhase + 1
            BY <1>N, <1>5, <2>3, <2>4, <2>6
        <3> QED
            BY <1>4, <1>5, <3>1, SenderWordIs
    <2>9. Mark("done") \in SenderFrames /\ Mark("done").kind = "done" /\ Mark("done").file = 0
        BY <1>5 DEF Mark, Frame, SenderFrames
    <2>10. ToReceiver(q)' /\ SenderWrote(q)' = SenderWrote(q) + 1 /\ s2r' \in Seq(SenderFrames)
        BY <1>1, <1>3, <2>7, <2>8, <2>9, SenderWritesOne
    <2>11. ToSender(q)' /\ SenderRead(q)' = SenderRead(q) + 1
        BY <1>1, <1>3, <2>1, <2>7, SenderReads
    <2>12. /\ sBye' = sBye /\ removed' \subseteq 1..Files
           /\ r2s' \in Seq(ReceiverFrames) /\ pending' \in 0..2 /\ phase' \in 0..(MaxPhase + 1)
        BY <1>5, <2>1, <2>3, <2>7 DEF TypeOK, ShortByes
    <2>13. CASE phase + 1 <= MaxPhase
        <3>1. pcS' = "inject"
            BY <1>N, <2>7, <2>13
        <3>2. Answered(q)' = Answered(q)
            <4>1. LoopBase' = LoopBase + 1
                <5>1. pending' = pending /\ phase' = phase + 1 /\ opt' = opt
                    BY <1>6, <2>1, <2>7
                <5> QED
                    BY <1>N, <5>1 DEF LoopBase
            <4> QED
                BY <1>N, <2>10, <4>1 DEF Answered
        <3>3. Skipped(q)' = Skipped(q)
            BY <1>N, <1>6, <2>7, <2>11, <3>2 DEF Skipped
        <3>4. AtSender("inject", q)'
            BY <1>5, <1>6, <2>1, <2>6, <2>7, <2>13, <3>2, <3>3 DEF AtSender
        <3>5. Complete("inject", q)' /\ "inject" \in SenderStages
            BY <1>3, <1>6, <2>1 DEF Complete, SenderStages
        <3> QED
            BY <1>K, <2>10, <2>11, <2>12, <3>1, <3>4, <3>5
    <2>14. CASE phase = MaxPhase
        <3>1. pcS' = "after"
            BY <1>N, <2>7, <2>14
        <3>2. /\ SenderWrote(q)' = PushFilter(opt) + ListLen(opt) + Requests + MaxPhase + 1
              /\ SenderRead(q)' = PullFilter(opt) + Requests + Requests + MaxPhase + 1
            BY <1>N, <2>4, <2>6, <2>10, <2>11, <2>14
        <3>3. sBye = SenderGoodbye(opt) /\ removed = {}
            BY <1>3, <2>1 DEF Complete
        <3>4. SenderByeRead' = 0 /\ SenderByeWrote' = 0
            BY <1>6, <2>1, <3>3, CountType DEF SenderByeRead, SenderByeWrote
        <3>5. AtSender("after", q)'
            BY <1>N, <1>6, <2>1, <3>2, <3>4 DEF AtSender
        \* The last marker came from a receiver in its last round, or past it.
        <3>6. q \in {"phase_read", "stats", "bye", "over"} /\ rounds >= MaxPhase
            <4>1. SenderRead(q)' <= ReceiverWrote(q)
                <5>1. ReceiverWrote(q)' = ReceiverWrote(q) /\ Len(r2s') \in Nat
                    BY <1>1, <2>12 DEF ReceiverWrote, ReceiverByeWrote, Requests, recvVars
                <5>2. SenderRead(q)' = ReceiverWrote(q)' - Len(r2s') /\ ReceiverWrote(q) \in Int
                    BY CountsType DEF SenderRead
                <5> QED
                    BY <5>1, <5>2
            <4> QED
                BY <1>3, <3>2, <4>1, LastMarker
        <3>7. Complete("after", q)' /\ "after" \in SenderStages
            BY <1>6, <2>1, <3>3, <3>6 DEF Complete, SenderStages
        <3> QED
            BY <1>K, <2>10, <2>11, <2>12, <3>1, <3>5, <3>7
    <2> QED
        BY <1>N, <2>3, <2>13, <2>14
<1>14. CASE SenderAfter
    <2>1. /\ p = "after" /\ sBye = SenderGoodbye(opt) /\ pcS' = "bye" /\ r2s' = r2s
          /\ UNCHANGED <<pending, phase, sBye>>
          /\ q \in {"phase_read", "stats", "bye", "over"} /\ rounds >= MaxPhase
        BY <1>2, <1>3, <1>14 DEF SenderAfter, Complete
    <2>2. SenderByeRead = 0 /\ SenderByeWrote = 0
        BY <2>1, CountType DEF SenderByeRead, SenderByeWrote
    <2>3. /\ SenderWrote(q) = PushFilter(opt) + ListLen(opt) + Requests + MaxPhase + 1
          /\ SenderRead(q) = PullFilter(opt) + Requests + Requests + MaxPhase + 1
        BY <1>N, <1>3, <2>1, <2>2 DEF AtSender
    <2>4. /\ ToReceiver(q)' /\ SenderWrote(q)' = SenderWrote(q) + PullFilter(opt)
          /\ s2r' \in Seq(SenderFrames)
        <3>1. CASE Push
            <4>1. s2r' = s2r /\ PullFilter(opt) = 0
                BY <1>14, <3>1 DEF SenderAfter, Push, Pull, PullFilter
            <4> QED
                BY <1>N, <1>1, <1>3, <4>1, SenderSilent DEF TypeOK
        <3>2. CASE Pull
            <4>1. s2r' = Append(s2r, Mark("stats")) /\ PullFilter(opt) = 1
                BY <1>14, <3>2 DEF SenderAfter, Pull, PullFilter
            <4>2. Mark("stats") \in SenderFrames /\ Mark("stats").kind = "stats"
                BY <1>5 DEF Mark, Frame, SenderFrames
            <4>3. SenderWord(opt, Requests, SenderWrote(q) + 1) = "stats"
                <5>1. /\ SenderWrote(q) + 1 \in Int
                      /\ SenderWrote(q) + 1 = PushFilter(opt) + ListLen(opt) + Requests + MaxPhase + 2
                    BY <1>N, <2>3
                <5> QED
                    BY <1>4, <1>5, <3>2, <5>1, SenderWordIs DEF Pull
            <4> QED
                BY <1>1, <1>3, <4>1, <4>2, <4>3, SenderWritesOne
        <3> QED
            BY <1>4, <3>1, <3>2 DEF Push, Pull
    <2>5. ToSender(q)' /\ SenderRead(q)' = SenderRead(q)
        BY <1>1, <1>3, <2>1, SenderSilent
    <2>6. AtSender("bye", q)'
        <3>1. SenderByeRead' = 0 /\ SenderByeWrote' = 0
            BY <1>B, <2>1, <2>2
        <3>2. /\ SenderWrote(q)' = PushFilter(opt) + ListLen(opt) + Requests + MaxPhase + 1 + PullFilter(opt)
              /\ SenderRead(q)' = PullFilter(opt) + Requests + Requests + MaxPhase + 1
            BY <1>N, <2>3, <2>4, <2>5
        <3> QED
            BY <1>N, <1>6, <3>1, <3>2 DEF AtSender
    <2>7. Complete("bye", q)'
        BY <1>6, <2>1 DEF Complete
    <2>8. /\ sBye' = sBye /\ removed' \subseteq 1..Files
          /\ r2s' \in Seq(ReceiverFrames) /\ pending' \in 0..2 /\ phase' \in 0..(MaxPhase + 1)
          /\ "bye" \in SenderStages
        BY <1>14, <2>1 DEF SenderAfter, TypeOK, ShortByes, SenderStages
    <2> QED
        BY <1>K, <2>1, <2>4, <2>5, <2>6, <2>7, <2>8
<1>15. CASE SenderBye
    <2>1. /\ p = "bye" /\ UNCHANGED <<pending, phase, removed>>
          /\ q \in {"phase_read", "stats", "bye", "over"} /\ rounds >= MaxPhase
        BY <1>2, <1>3, <1>15 DEF SenderBye, Complete
    <2>2. SenderWrote(q) = PushFilter(opt) + ListLen(opt) + Requests + MaxPhase + 1
                           + PullFilter(opt) + SenderByeWrote
        BY <1>3, <2>1 DEF AtSender
    <2>3. \/ SenderRead(q) = PullFilter(opt) + Requests + Requests + MaxPhase + 1 + SenderByeRead
          \/ pcR = "failed" /\ r2s = <<>>
        BY <1>3, <2>1 DEF AtSender
    <2>4. SenderByeRead \in Nat /\ SenderByeWrote \in Nat
        BY DEF ShortByes
    <2>5. removed' \subseteq 1..Files /\ pending' \in 0..2 /\ phase' \in 0..(MaxPhase + 1)
        BY <2>1 DEF TypeOK
    <2>6. "bye" \in SenderStages /\ "over" \in SenderStages
        BY DEF SenderStages
    \* One step of the goodbye is done.
    <2>7. ASSUME sBye # <<>>, sBye' = Tail(sBye), NEW c \in {"r", "w"}, Head(sBye) = c
          PROVE  /\ sBye' \in Seq({"r", "w"}) /\ Len(sBye') <= 4
                 /\ SenderByeRead' = SenderByeRead + (IF c = "r" THEN 1 ELSE 0)
                 /\ SenderByeWrote' = SenderByeWrote + (IF c = "w" THEN 1 ELSE 0)
        <3>1. sBye \in Seq({"r", "w"}) /\ Len(sBye) <= 4
            BY DEF TypeOK, ShortByes
        <3>2. /\ Count(sBye, "r") = Count(sBye', "r") + (IF c = "r" THEN 1 ELSE 0)
              /\ Count(sBye, "w") = Count(sBye', "w") + (IF c = "w" THEN 1 ELSE 0)
            BY <2>7, <3>1, CountTail
        <3>3. /\ Count(sBye', "r") \in Int /\ Count(sBye', "w") \in Int
              /\ Count(SenderGoodbye(opt), "r") \in Int /\ Count(SenderGoodbye(opt), "w") \in Int
            BY CountType
        <3>4. /\ SenderByeRead' = SenderByeRead + (IF c = "r" THEN 1 ELSE 0)
              /\ SenderByeWrote' = SenderByeWrote + (IF c = "w" THEN 1 ELSE 0)
            <4>1. CASE c = "r"
                BY <1>6, <3>2, <3>3, <4>1 DEF SenderByeRead, SenderByeWrote
            <4>2. CASE c = "w"
                BY <1>6, <3>2, <3>3, <4>2 DEF SenderByeRead, SenderByeWrote
            <4> QED
                BY <2>7, <4>1, <4>2
        <3>5. sBye' \in Seq({"r", "w"}) /\ Len(sBye') <= 4
            BY <2>7, <3>1, QueueRead
        <3> QED
            BY <3>4, <3>5
    <2>8. CASE sBye = <<>> /\ pcS' = "over" /\ UNCHANGED <<sBye, s2r, r2s>>
        <3>1. /\ ToReceiver(q)' /\ SenderWrote(q)' = SenderWrote(q)
              /\ ToSender(q)' /\ SenderRead(q)' = SenderRead(q)
            BY <1>1, <1>3, <2>8, SenderSilent
        <3>2. SenderByeRead' = SenderByeRead /\ SenderByeWrote' = SenderByeWrote
            BY <1>B, <2>8
        <3>3. AtSender("over", q)'
            BY <1>6, <2>2, <2>3, <2>8, <3>1, <3>2 DEF AtSender
        <3>4. Complete("over", q)'
            BY <1>6, <2>1, <2>8 DEF Complete
        <3>5. s2r' \in Seq(SenderFrames) /\ r2s' \in Seq(ReceiverFrames)
            BY <2>8 DEF TypeOK
        <3> QED
            BY <1>K, <2>5, <2>6, <2>8, <3>1, <3>3, <3>4, <3>5
    <2>9. CASE /\ sBye # <<>> /\ Head(sBye) = "w" /\ s2r' = Append(s2r, Mark("done"))
               /\ sBye' = Tail(sBye) /\ UNCHANGED <<pcS, r2s>>
        <3>1. /\ sBye' \in Seq({"r", "w"}) /\ Len(sBye') <= 4
              /\ SenderByeRead' = SenderByeRead /\ SenderByeWrote' = SenderByeWrote + 1
            BY <2>4, <2>7, <2>9
        <3>2. Mark("done") \in SenderFrames /\ Mark("done").kind = "done" /\ Mark("done").file = 0
            BY <1>5 DEF Mark, Frame, SenderFrames
        <3>3. SenderWord(opt, Requests, SenderWrote(q) + 1) = "done"
            <4>1. CASE opt.dir = "push"
                <5>1. /\ SenderWrote(q) + 1 \in Int
                      /\ PushFilter(opt) + ListLen(opt) + Requests < SenderWrote(q) + 1
                    BY <1>N, <1>4, <1>5, <2>2, <2>4
                <5> QED
                    BY <1>4, <1>5, <4>1, <5>1, SenderWordIs
            <4>2. CASE opt.dir = "pull"
                <5>1. PullFilter(opt) = 1
                    BY <4>2 DEF PullFilter
                <5>2. /\ SenderWrote(q) + 1 \in Int
                      /\ PushFilter(opt) + ListLen(opt) + Requests + MaxPhase + 2 < SenderWrote(q) + 1
                    BY <1>N, <2>2, <2>4, <5>1
                <5> QED
                    BY <1>4, <1>5, <5>2, SenderWordIs
            <4> QED
                BY <1>4, <4>1, <4>2
        <3>4. ToReceiver(q)' /\ SenderWrote(q)' = SenderWrote(q) + 1 /\ s2r' \in Seq(SenderFrames)
            BY <1>1, <1>3, <2>9, <3>2, <3>3, SenderWritesOne
        <3>5. ToSender(q)' /\ SenderRead(q)' = SenderRead(q)
            BY <1>1, <1>3, <2>9, SenderSilent
        <3>6. AtSender("bye", q)'
            <4>1. SenderWrote(q)' = PushFilter(opt) + ListLen(opt) + Requests + MaxPhase + 1
                                    + PullFilter(opt) + SenderByeWrote'
                <5> DEFINE base == PushFilter(opt) + ListLen(opt) + Requests + MaxPhase + 1 + PullFilter(opt)
                <5>1. base \in Int
                    BY <1>N
                <5>2. SenderWrote(q) = base + SenderByeWrote
                    BY <2>2
                <5> HIDE DEF base
                <5>3. SenderWrote(q)' = base + SenderByeWrote'
                    BY <1>N, <2>4, <3>1, <3>4, <5>1, <5>2
                <5> QED
                    BY <5>3 DEF base
            <4> QED
                BY <1>6, <2>3, <2>9, <3>1, <3>5, <4>1 DEF AtSender
        <3>7. Complete("bye", q)'
            BY <1>6, <2>1 DEF Complete
        <3>8. pcS' = "bye" /\ r2s' \in Seq(ReceiverFrames) /\ SenderByeRead' \in Nat /\ SenderByeWrote' \in Nat
            BY <1>2, <2>1, <2>4, <2>9, <3>1 DEF TypeOK
        <3> QED
            BY <1>7, <2>5, <2>6, <3>1, <3>4, <3>5, <3>6, <3>7, <3>8
    <2>10. CASE /\ sBye # <<>> /\ Head(sBye) = "r" /\ r2s # <<>>
                /\ SenderTakes({"done", "success"}, "bye")
                /\ sBye' = IF Head(r2s).kind = "success" THEN sBye ELSE Tail(sBye)
                /\ UNCHANGED s2r
        <3>1. SenderRead(q) = PullFilter(opt) + Requests + Requests + MaxPhase + 1 + SenderByeRead
            BY <2>3, <2>10
        <3>2. Head(r2s).kind = "done"
            <4>1. Head(r2s).kind = ReceiverWord(opt, Requests, SenderRead(q) + 1)
                BY <1>3, <2>10, NextFrame, Zenon
            <4>2. /\ SenderRead(q) + 1 \in Int
                  /\ PullFilter(opt) + Requests + Requests < SenderRead(q) + 1
                BY <1>N, <1>5, <2>4, <3>1
            <4> QED
                BY <1>4, <1>5, <4>1, <4>2, ReceiverWordIs
        <3>3. r2s' = Tail(r2s) /\ pcS' = "bye" /\ sBye' = Tail(sBye) /\ s2r' = s2r
            BY <2>10, <3>2 DEF SenderTakes
        <3>4. /\ sBye' \in Seq({"r", "w"}) /\ Len(sBye') <= 4
              /\ SenderByeRead' = SenderByeRead + 1 /\ SenderByeWrote' = SenderByeWrote
            BY <2>4, <2>7, <2>10, <3>3
        <3>5. ToReceiver(q)' /\ SenderWrote(q)' = SenderWrote(q)
            BY <1>1, <1>3, <3>3, SenderSilent
        <3>6. ToSender(q)' /\ SenderRead(q)' = SenderRead(q) + 1
            BY <1>1, <1>3, <2>10, <3>3, SenderReads
        <3>7. AtSender("bye", q)'
            <4>1. SenderRead(q)' = PullFilter(opt) + Requests + Requests + MaxPhase + 1 + SenderByeRead'
                <5> DEFINE base == PullFilter(opt) + Requests + Requests + MaxPhase + 1
                <5>1. base \in Int
                    BY <1>N
                <5>2. SenderRead(q) = base + SenderByeRead
                    BY <3>1
                <5> HIDE DEF base
                <5>3. SenderRead(q)' = base + SenderByeRead'
                    BY <1>N, <2>4, <3>4, <3>6, <5>1, <5>2
                <5> QED
                    BY <5>3 DEF base
            <4> QED
                BY <1>6, <2>2, <3>4, <3>5, <4>1 DEF AtSender
        <3>8. Complete("bye", q)'
            BY <1>6, <2>1 DEF Complete
        <3>9. /\ s2r' \in Seq(SenderFrames) /\ r2s' \in Seq(ReceiverFrames)
              /\ SenderByeRead' \in Nat /\ SenderByeWrote' \in Nat
            BY <2>4, <2>10, <3>3, <3>4, QueueRead DEF TypeOK
        <3> QED
            BY <1>7, <2>5, <2>6, <3>3, <3>4, <3>5, <3>6, <3>7, <3>8, <3>9
    <2>11. CASE /\ sBye # <<>> /\ Head(sBye) = "r" /\ r2s = <<>> /\ Gone(pcR)
                /\ sBye' = Tail(sBye) /\ UNCHANGED <<pcS, s2r, r2s>>
        <3>1. /\ sBye' \in Seq({"r", "w"}) /\ Len(sBye') <= 4
              /\ SenderByeRead' = SenderByeRead + 1 /\ SenderByeWrote' = SenderByeWrote
            BY <2>4, <2>7, <2>11
        \* A receiver that ended well has written every marker that the sender reads.
        <3>2. pcR = "failed"
            <4> SUFFICES ASSUME pcR # "failed" PROVE FALSE
                OBVIOUS
            <4>1. q = "over" /\ rBye = <<>> /\ rounds = MaxPhase + 1 /\ acked = Requests
                BY <1>3, <2>11 DEF Gone, ReceiverStages, AtReceiver
            <4>2. /\ Count(SenderGoodbye(opt), "r") = Count(ReceiverGoodbye(opt), "w")
                  /\ Count(SenderGoodbye(opt), "r") \in Int /\ Count(rBye, "w") = 0
                BY <1>4, <4>1, GoodbyeCounts, CountType, CountEmpty
            <4>3. ReceiverByeWrote = Count(SenderGoodbye(opt), "r")
                BY <4>2 DEF ReceiverByeWrote
            <4>4. ReceiverWrote(q) = PullFilter(opt) + Requests + Requests + MaxPhase + 1
                                     + Count(SenderGoodbye(opt), "r")
                <5>1. ReceiverWrote(q) = PullFilter(opt) + Requests + acked + rounds + ReceiverByeWrote
                    BY <4>1, ReceiverCounts DEF StageCounts
                <5>2. PullFilter(opt) + Requests + acked + rounds = PullFilter(opt) + Requests + Requests + MaxPhase + 1
                    <6>1. rounds = MaxPhase + 1 /\ acked = Requests
                        BY <4>1
                    <6> QED
                        BY <1>N, <6>1
                <5> QED
                    BY <4>3, <5>1, <5>2
            <4>5. SenderRead(q) = ReceiverWrote(q)
                <5>1. Len(r2s) = 0 /\ ReceiverWrote(q) \in Int
                    BY <2>11, CountsType
                <5> QED
                    BY <5>1 DEF SenderRead
            <4>6. SenderByeRead = Count(SenderGoodbye(opt), "r")
                BY <1>N, <2>3, <2>4, <4>2, <4>4, <4>5
            <4>7. SenderByeRead' <= Count(SenderGoodbye(opt), "r")
                <5>1. Count(sBye', "r") \in 0..4
                    BY CountType
                <5> QED
                    BY <1>6, <4>2, <5>1 DEF SenderByeRead
            <4> QED
                BY <3>1, <4>2, <4>6, <4>7
        <3>3. /\ ToReceiver(q)' /\ SenderWrote(q)' = SenderWrote(q)
              /\ ToSender(q)' /\ SenderRead(q)' = SenderRead(q)
            BY <1>1, <1>3, <2>11, SenderSilent
        <3>4. AtSender("bye", q)'
            BY <1>6, <2>2, <2>11, <3>1, <3>2, <3>3 DEF AtSender
        <3>5. Complete("bye", q)'
            BY <1>6, <2>1 DEF Complete
        <3>6. /\ s2r' \in Seq(SenderFrames) /\ r2s' \in Seq(ReceiverFrames) /\ pcS' = "bye"
              /\ SenderByeRead' \in Nat /\ SenderByeWrote' \in Nat
            BY <1>2, <2>1, <2>4, <2>11, <3>1 DEF TypeOK
        <3> QED
            BY <1>7, <2>5, <2>6, <3>1, <3>3, <3>4, <3>5, <3>6
    <2> QED
        BY <1>15, <2>8, <2>9, <2>10, <2>11 DEF SenderBye
<1> QED
    BY <1>8, <1>9, <1>10, <1>11, <1>12, <1>13, <1>14, <1>15 DEF SenderNext
=============================================================================
