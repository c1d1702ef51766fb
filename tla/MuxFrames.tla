------------------------------ MODULE MuxFrames ------------------------------
(***************************************************************************)
(* The frames of a multiplexed connection, byte by byte: a header of four  *)
(* bytes with the length of the payload and a tag, then the payload.       *)
(***************************************************************************)
EXTENDS Varint

CONSTANT DataChunk    \* DATA_CHUNK_SIZE

ASSUME ChunkAssumption == DataChunk \in Nat \ {0}

MAX_PAYLOAD == 16777215
MPLEX_BASE == 7
DataCode == 0

\* write_message: the header, then the payload if there is one.
Frame(code, payload) ==
    LET len == Len(payload)
        header == <<Byte(len, 1), Byte(len, 2), Byte(len, 3), MPLEX_BASE + code>>
    IN IF payload = <<>> THEN <<header>> ELSE <<header, payload>>

\* Sequences written one after the other.
Concat(ss) ==
    LET upTo[i \in 0..Len(ss)] == IF i = 0 THEN <<>> ELSE upTo[i - 1] \o ss[i]
    IN upTo[Len(ss)]

\* write_data: one frame for each chunk.
DataFrames(data) ==
    LET n == (Len(data) + DataChunk - 1) \div DataChunk
        chunk(i) == SubSeq(data, (i - 1) * DataChunk + 1, Min({i * DataChunk, Len(data)}))
    IN Concat([i \in 1..n |-> Frame(DataCode, chunk(i))])

\* The loop body: a whole frame leaves the staging buffer; data is queued, control
\* messages are decoded and logged, bad tags are skipped.
TakeFrame(p) ==
    LET s == p.staging
        len == s[1] + 256 * (s[2] + 256 * s[3])
    IN IF Len(s) < 4 THEN p
       ELSE IF Len(s) < 4 + len THEN p
       ELSE [staging |-> From(s, 5 + len),
             queue |-> IF s[4] = MPLEX_BASE + DataCode THEN Append(p.queue, SubSeq(s, 5, 4 + len))
                       ELSE p.queue]

\* What n rounds of the loop leave; a round without a whole frame changes nothing.
Rounds(s, queue) ==
    LET loop[n \in Nat] == IF n = 0 THEN [staging |-> s, queue |-> queue] ELSE TakeFrame(loop[n - 1])
    IN loop

\* A frame has at least four bytes.
parse_frames_from_staging(s, queue) == Rounds(s, queue)[Len(s) \div 4]
=============================================================================
