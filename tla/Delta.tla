------------------------------- MODULE Delta --------------------------------
(***************************************************************************)
(* One file travels as a delta: the generator signs the blocks of the      *)
(* basis, the sender matches the source against the signatures and writes  *)
(* tokens, the receiver rebuilds the file and compares checksums.          *)
(*                                                                         *)
(* A strong checksum is the data it was computed from (no collisions); the *)
(* rolling checksum is computed as in the code, in words of size Word, so  *)
(* that it wraps and collides.  A job either matches real files, or sends  *)
(* a given list of operations through one of the token encodings.          *)
(***************************************************************************)
EXTENDS Integers, Sequences, SequencesExt, FiniteSetsExt

CONSTANTS
    Jobs,           \* the inputs: see JobSet
    Word,           \* 2^16 in the code: the halves of the rolling checksum
    MinBlockLen, MaxBlockLen, BlockAlign,   \* 700, 2^17 and 8
    MaxBlockCount,  \* 2^24: the most signatures read from the wire
    DataChunk,      \* DATA_CHUNK_SIZE
    MaxDataCount,   \* the most compressed bytes in one frame
    MaxRel, MaxRun  \* 63 and 65536: limits of the run encoding

JobSet ==
    [basis : Seq(Nat), source : Seq(Nat), ops : Seq([lit : Seq(Nat), copy : Int]),
     blockSize : Nat, chunk : Nat, offset : Nat, digest : Nat,
     enc : {"plain", "zlib", "zstd", "lz4"}, kind : {"batch", "stream", "tokens"}]

ASSUME DeltaAssumption ==
    /\ {Word, MinBlockLen, MaxBlockLen, BlockAlign, MaxBlockCount, DataChunk, MaxDataCount, MaxRun}
          \subseteq Nat \ {0}
    /\ MaxRel \in Nat
    /\ Jobs \subseteq JobSet
    /\ \A j \in Jobs : j.kind = "stream" => j.chunk > 0

VARIABLES
    job,       \* the input
    phase,     \* where the exchange is
    sums,      \* the signatures, as the sender read them
    m,         \* StreamingMatcher
    hashed,    \* what the sender fed to the file checksum
    written,   \* the operations handed to the token writer
    tw,        \* the token writer and, in tw.wire, what it wrote
    tr,        \* the token reader
    out        \* the file the receiver has written

vars == <<job, phase, sums, m, hashed, written, tw, tr, out>>

\* Rust's data[from..to].
Slice(data, from, to) == SubSeq(data, from + 1, to)

-----------------------------------------------------------------------------
\* Checksums.

\* checksum1 and RollingChecksum::compute: the low halves of the two sums.
compute(data, offset) ==
    FoldLeft(LAMBDA r, byte :
                 LET s1 == (r.s1 + byte + offset) % Word
                 IN [r EXCEPT !.s1 = s1, !.s2 = (@ + s1) % Word],
             [s1 |-> 0, s2 |-> 0, count |-> Len(data)], data)

roll_keeps_offset(r, oldByte, newByte, offset) ==
    LET s1 == (r.s1 + newByte - oldByte) % Word
    IN [r EXCEPT !.s1 = s1, !.s2 = (@ + s1 - r.count * oldByte) % Word]

\* RollingChecksum::roll.
roll(r, oldByte, newByte, offset) ==
    LET s1 == (r.s1 + newByte - oldByte) % Word
    IN [r EXCEPT !.s1 = s1, !.s2 = (@ + s1 - r.count * (oldByte + offset)) % Word]

\* RollingChecksum::digest.
digest(r) == <<r.s1, r.s2>>

checksum1(data, offset) == digest(compute(data, offset))

\* checksum2: seeded, of one algorithm on both sides, and free of collisions.
checksum2(data) == data

\* file_checksum: of the data alone; IncrementalChecksum computes the same.
file_checksum(data) == data
update(hash, data) == hash \o data

-----------------------------------------------------------------------------
\* Block signatures.

Isqrt(n) == CHOOSE r \in 0..n : r * r <= n /\ (r + 1) * (r + 1) > n

compute_block_length(n) ==
    IF n <= 0 THEN MinBlockLen
    ELSE LET clamped == Min({Max({Isqrt(n), MinBlockLen}), MaxBlockLen})
         IN ((clamped + BlockAlign - 1) \div BlockAlign) * BlockAlign

\* Bytes of the strong checksum for a false match rate of 2^-80.
compute_s2length(n, blength) ==
    LET count == (n + blength - 1) \div blength
        bits == 80 + CHOOSE b \in 0..n : 2 ^ b >= count /\ (b > 0 => 2 ^ (b - 1) < count)
    IN IF n <= 0 THEN 2 ELSE Min({(bits + 7) \div 8, 32})

NoSums == [count |-> 0, blength |-> 0, s2length |-> 0, remainder |-> 0, sums |-> <<>>]

compute_signatures(data, j) ==
    LET n == Len(data)
        blength == IF j.blockSize > 0 THEN j.blockSize ELSE compute_block_length(n)
        count == (n + blength - 1) \div blength
        block(i) == Slice(data, (i - 1) * blength, Min({i * blength, n}))
    IN IF n = 0 THEN NoSums
       ELSE [count |-> count, blength |-> blength,
             s2length |-> compute_s2length(n, blength),
             remainder |-> IF n % blength = 0 THEN blength ELSE n % blength,
             sums |-> [i \in 1..count |->
                          [sum1 |-> checksum1(block(i), j.offset), sum2 |-> checksum2(block(i))]]]

\* read_sums: what write_sums wrote, or an error for a value out of range.
read_sums_ok(s) == s.count <= MaxBlockCount /\ s.s2length <= 64

-----------------------------------------------------------------------------
\* Operations and the whole-file matcher.

Literal(data) == [lit |-> data, copy |-> -1]
Copy(offset) == [lit |-> <<>>, copy |-> offset]
block_index(op, blength) == op.copy \div blength

\* build_hash_table and its lookup: blocks with this rolling checksum, in order.
candidates(s, d) == SelectSeq([i \in 1..Len(s.sums) |-> i - 1],
                              LAMBDA i : s.sums[i + 1].sum1 = d)

FindBlock_weak(s, d, window) == IF candidates(s, d) = <<>> THEN -1 ELSE candidates(s, d)[1]

\* The first candidate whose strong checksum is that of the window, or -1.
FindBlock(s, d, window) ==
    LET hits == SelectSeq(candidates(s, d), LAMBDA i : s.sums[i + 1].sum2 = checksum2(window))
    IN IF hits = <<>> THEN -1 ELSE hits[1]

\* block_byte_length: the last block may be shorter.
block_byte_length(idx, blength, count, remainder) ==
    IF count > 0 /\ idx = count - 1 /\ remainder > 0 /\ remainder < blength
    THEN remainder ELSE blength

\* The loop of match_blocks, from position pos with literals pending since lit.
RECURSIVE Scan(_, _, _, _, _, _)
Scan(source, s, offset, pos, lit, r) ==
    LET n == Len(source)
        b == s.blength
        idx == FindBlock(s, digest(r), Slice(source, pos, pos + b))
        next == pos + b
        flushed == IF lit < pos THEN <<Literal(Slice(source, lit, pos))>> ELSE <<>>
    IN IF pos + b > n
       THEN IF lit < n THEN <<Literal(Slice(source, lit, n))>> ELSE <<>>
       ELSE IF idx >= 0
       THEN flushed \o <<Copy(idx * b)>>
            \o Scan(source, s, offset, next, next,
                    IF next + b <= n THEN compute(Slice(source, next, next + b), offset) ELSE r)
       ELSE Scan(source, s, offset, pos + 1, lit,
                 IF next < n THEN roll(r, source[pos + 1], source[next + 1], offset) ELSE r)

match_blocks(source, s, offset) ==
    IF source = <<>> THEN <<>>
    ELSE IF s.count <= 0 \/ s.blength <= 0 \/ Len(source) < s.blength THEN <<Literal(source)>>
    ELSE Scan(source, s, offset, 0, 0, compute(Slice(source, 0, s.blength), offset))

\* apply_diffops, with the length that block_byte_length gives a copied block.
apply_diffops(basis, ops, s) ==
    FoldLeft(LAMBDA acc, op :
                 IF op.copy < 0 THEN acc \o op.lit
                 ELSE LET len == block_byte_length(block_index(op, s.blength), s.blength,
                                                   s.count, s.remainder)
                      IN acc \o Slice(basis, op.copy, Min({op.copy + len, Len(basis)})),
             <<>>, ops)

-----------------------------------------------------------------------------
\* Compression backends (flate2, zstd, lz4_flex).  A chunk of n bytes becomes n
\* symbols that say which chunk they belong to; only zlib ends with a trailer.

Sync == [chunk |-> <<>>, at |-> 0]
Symbols(chunk) == [i \in 1..Len(chunk) |-> [chunk |-> chunk, at |-> i]]
zlib_compress(chunk) == IF chunk = <<>> THEN <<>> ELSE Append(Symbols(chunk), Sync)
zstd_compress(chunk) == Symbols(chunk)
lz4_compress(chunk) == Symbols(chunk)

compress(enc, chunk) ==
    CASE enc = "zlib" -> zlib_compress(chunk)
      [] enc = "zstd" -> zstd_compress(chunk)
      [] enc = "lz4"  -> lz4_compress(chunk)

\* What decoding one frame may give: the bytes, and the state for the next frame.
\* A decoder that is given what no encoder wrote reports an error or makes up bytes.
Rubbish == -1
Garbled(state) == {[data |-> <<>>, state |-> "corrupt"], [data |-> <<Rubbish>>, state |-> state]}

\* "poisoned" is a deflate decoder inside the header of a block nobody wrote.
zlib_decompress(state, frame) ==
    LET body == SelectSeq(frame, LAMBDA x : x # Sync)
        whole == body # <<>> /\ body = Symbols(body[1].chunk)
    IN IF state = "poisoned" \/ ~whole THEN Garbled("poisoned")
       ELSE {[data |-> body[1].chunk,
              state |-> IF Len(frame) = Len(body) + 1 THEN "ok" ELSE "poisoned"]}

\* The decoder keeps an incomplete block for the next call.
zstd_decompress(held, frame) ==
    LET input == held \o frame
    IN {IF input = Symbols(input[1].chunk) THEN [data |-> input[1].chunk, state |-> <<>>]
        ELSE [data |-> <<>>, state |-> input]}

\* Every call decodes one whole size-prefixed block.
lz4_decompress(frame) ==
    IF frame = Symbols(frame[1].chunk) THEN {[data |-> frame[1].chunk, state |-> "ok"]}
    ELSE Garbled("ok")

decompress(enc, state, frame) ==
    CASE enc = "zlib" -> zlib_decompress(state, frame)
      [] enc = "zstd" -> zstd_decompress(state, frame)
      [] enc = "lz4"  -> lz4_decompress(frame)

InitialDecoder(enc) == IF enc = "zstd" THEN <<>> ELSE "ok"

-----------------------------------------------------------------------------
\* Token writers.  A wire item is data (or a frame), a block token or the end.

Item(kind, data, tok, run) == [kind |-> kind, data |-> data, tok |-> tok, run |-> run]
Data(data) == Item("data", data, 0, 0)
Match(tok, run) == Item("match", <<>>, tok, run)
Relative(tok, run) == Item("rel", <<>>, tok, run)
End == Item("end", <<>>, 0, 0)

NewTokenWriter ==
    [wire |-> <<>>, last |-> -1, runStart |-> 0, runEnd |-> 0, flush |-> FALSE, pending |-> <<>>]

\* The pieces of data of at most n elements.
Pieces(data, n) ==
    [i \in 1..((Len(data) + n - 1) \div n) |-> Slice(data, (i - 1) * n, Min({i * n, Len(data)}))]

Put(w, items) == [w EXCEPT !.wire = @ \o items]
Frames(data, n) == [i \in 1..Len(Pieces(data, n)) |-> Data(Pieces(data, n)[i])]

send_data(w, data) == Put(w, Frames(data, DataChunk))
send_block_match(w, index) == Put(w, <<Match(index, 0)>>)
send_eof(w) == Put(w, <<End>>)

\* flush_run: one token for the blocks runStart..last; the count has two bytes.
flush_run(w) ==
    LET r == w.runStart - w.runEnd
        n == (w.last - w.runStart) % MaxRun
        item == IF r \in 0..MaxRel THEN Relative(r, n) ELSE Match(w.runStart, n)
    IN [Put(w, <<item>>) EXCEPT !.runEnd = w.last]

maybe_strip_trailer(compressed, enc) ==
    IF enc = "zlib" /\ compressed # <<>> /\ Last(compressed) = Sync
    THEN Front(compressed) ELSE compressed

\* compress_and_send: every piece is compressed, the last one loses its trailer
\* when the token flushes, and what is too long for a frame is split.
compress_and_send(w, enc, data, doFlush) ==
    LET pieces == IF data = <<>> THEN <<data>> ELSE Pieces(data, DataChunk)
        output(i) == IF i = Len(pieces) /\ doFlush
                     THEN maybe_strip_trailer(compress(enc, pieces[i]), enc)
                     ELSE compress(enc, pieces[i])
    IN Put(w, FlattenSeq([i \in 1..Len(pieces) |-> Frames(output(i), MaxDataCount)]))

send_token_long_run(w, enc, data, token) ==
    LET opened ==
            IF w.last = -1
            THEN [w EXCEPT !.runEnd = 0, !.runStart = token, !.flush = FALSE]
            ELSE IF w.last = -2 THEN [w EXCEPT !.runStart = token]
            ELSE IF data # <<>> \/ token # w.last + 1
            THEN [flush_run(w) EXCEPT !.runStart = token]
            ELSE w
        noted == [opened EXCEPT !.last = token]
        sent == IF data # <<>> THEN compress_and_send(noted, enc, data, TRUE) ELSE noted
    IN IF token = -1 THEN Put(sent, <<End>>) ELSE sent

\* send_token: a block index, -1 for the end of the file, -2 for data alone.
send_token(w, enc, data, token) ==
    LET opened ==
            IF w.last = -1
            THEN [w EXCEPT !.runEnd = 0, !.runStart = token, !.flush = FALSE]
            ELSE IF w.last = -2 THEN [w EXCEPT !.runStart = token]
            ELSE IF data # <<>> \/ token # w.last + 1 \/ token >= w.runStart + MaxRun
            THEN [flush_run(w) EXCEPT !.runStart = token]
            ELSE w
        noted == [opened EXCEPT !.last = token]
        sent == IF data # <<>> \/ noted.flush
                THEN [compress_and_send(noted, enc, data, token # -2) EXCEPT !.flush = (token = -2)]
                ELSE noted
    IN IF token = -1 THEN Put(sent, <<End>>) ELSE sent

\* write_data of CompressedTokenWriter: data waits for the token after it.
write_data(w, enc, data) ==
    IF enc = "plain" THEN send_data(w, data)
    ELSE IF w.pending = <<>> THEN [w EXCEPT !.pending = data]
    ELSE send_token([w EXCEPT !.pending = data], enc, w.pending, -2)

write_block_match(w, enc, index) ==
    IF enc = "plain" THEN send_block_match(w, index)
    ELSE send_token([w EXCEPT !.pending = <<>>], enc, w.pending, index)

write_eof(w, enc) ==
    IF enc = "plain" THEN send_eof(w)
    ELSE send_token([w EXCEPT !.pending = <<>>], enc, w.pending, -1)

write_diffops(w, enc, ops, blength) ==
    FoldLeft(LAMBDA acc, op :
                 IF op.copy < 0 THEN write_data(acc, enc, op.lit)
                 ELSE write_block_match(acc, enc, block_index(op, blength)),
             w, ops)

-----------------------------------------------------------------------------
\* The exchange.

\* carried: history, the rolling checksum was kept across a refill.
NewMatcher ==
    [buf |-> <<>>, pos |-> 0, lit |-> 0, read |-> 0, roll |-> compute(<<>>, 0),
     initialized |-> FALSE, exhausted |-> FALSE, needInit |-> TRUE, carried |-> FALSE]

NewTokenReader(enc) == [state |-> "Idle", tok |-> 0, run |-> 0, decoder |-> InitialDecoder(enc)]

Init ==
    /\ job \in Jobs
    /\ phase = "sign"
    /\ sums = NoSums
    /\ m = NewMatcher
    /\ hashed = <<>>
    /\ written = <<>>
    /\ tw = NewTokenWriter
    /\ tr = NewTokenReader(job.enc)
    /\ out = <<>>

Enter(p) == phase' = p

\* The generator signs the basis; slicing a digest shorter than s2length panics.
\* The sender reads the signatures and picks the streaming path by file size.
Sign ==
    LET s == compute_signatures(job.basis, job) IN
    /\ phase = "sign"
    /\ IF s.count > 0 /\ s.s2length > job.digest THEN Enter("panic") /\ UNCHANGED sums
       ELSE IF ~read_sums_ok(s) THEN Enter("failed") /\ UNCHANGED sums
       ELSE /\ sums' = s
            /\ Enter(IF job.kind = "stream" THEN "fill" ELSE "whole")
    /\ UNCHANGED <<job, m, hashed, written, tw, tr, out>>

\* Tokens go out as operations are found; the end mark follows the last one.
Write(ops, done) ==
    LET w == write_diffops(tw, job.enc, ops, sums.blength) IN
    /\ written' = written \o ops
    /\ tw' = IF done THEN write_eof(w, job.enc) ELSE w

\* The memory-mapped path: match_blocks on the whole file.
SendWhole ==
    LET given == job.kind = "tokens"
        ops == IF given THEN job.ops ELSE match_blocks(job.source, sums, job.offset)
    IN /\ phase = "whole"
       /\ Write(ops, TRUE)
       /\ hashed' = file_checksum(IF given THEN apply_diffops(job.basis, ops, sums) ELSE job.source)
       /\ Enter("recv")
       /\ UNCHANGED <<job, sums, m, tr, out>>

no_sums == sums.count <= 0 \/ sums.blength <= 0

\* read_fill: up to n bytes, short reads retried.
read_fill(n) == Slice(job.source, m.read, Min({m.read + n, Len(job.source)}))

\* process_chunk up to its match loop: refill the buffer, keeping the last
\* blength bytes, and the early returns.
Fill ==
    LET b == IF no_sums THEN 0 ELSE sums.blength
        shifting == m.initialized /\ ~no_sums
        fresh == read_fill(job.chunk)
        shift == IF shifting THEN Max({Len(m.buf) - b, 0}) ELSE 0
        flushed == IF shifting /\ m.lit < shift THEN <<Literal(Slice(m.buf, m.lit, shift))>> ELSE <<>>
        buf == IF shifting THEN Slice(m.buf, shift, Len(m.buf)) \o fresh ELSE fresh
        pos == m.pos - shift
        exhausted == m.exhausted \/ Len(fresh) < job.chunk
        whole == Len(buf) < b \/ no_sums            \* all of it is literal
        rest == IF whole /\ buf # <<>> THEN <<Literal(buf)>> ELSE <<>>
        done == buf = <<>> \/ (IF no_sums THEN exhausted ELSE Len(buf) < b)
    IN /\ phase = "fill"
       /\ m' = [buf |-> buf, pos |-> pos, lit |-> Max({m.lit, shift}) - shift,
                read |-> m.read + Len(fresh), initialized |-> TRUE, exhausted |-> exhausted,
                roll |-> IF m.needInit /\ ~whole
                         THEN compute(Slice(buf, pos, Min({pos + b, Len(buf)})), job.offset)
                         ELSE m.roll,
                needInit |-> m.needInit /\ whole,
                carried |-> ~m.needInit]
       /\ hashed' = update(hashed, fresh)
       /\ Write(flushed \o rest, done)
       /\ Enter(IF done THEN "recv" ELSE IF whole THEN "fill" ELSE "match")
       /\ UNCHANGED <<job, sums, tr, out>>

WindowAt(pos) == Slice(m.buf, pos, pos + sums.blength)
Scanning == phase = "match" /\ m.pos + sums.blength <= Len(m.buf)
Found == FindBlock(sums, digest(m.roll), WindowAt(m.pos))

\* The matcher after a match that ends at next: a new window, or a note that one
\* must be computed once the buffer is refilled.
AfterHit(next) ==
    LET inside == next + sums.blength <= Len(m.buf)
    IN [m EXCEPT !.pos = next, !.lit = next, !.needInit = ~inside,
                 !.roll = IF inside THEN compute(WindowAt(next), job.offset) ELSE @,
                 !.carried = IF inside THEN FALSE ELSE @]

\* A block of the basis: flush the literal before it, copy, start a new window.
MatchHit ==
    /\ Scanning
    /\ Found >= 0
    /\ Write((IF m.lit < m.pos THEN <<Literal(Slice(m.buf, m.lit, m.pos))>> ELSE <<>>)
                \o <<Copy(Found * sums.blength)>>, FALSE)
    /\ m' = AfterHit(m.pos + sums.blength)
    /\ UNCHANGED <<job, phase, sums, hashed, tr, out>>

\* No block here: the window moves one byte, and rolls if it still fits.
MatchMiss ==
    /\ Scanning
    /\ Found < 0
    /\ m' = [m EXCEPT !.pos = @ + 1,
                      !.roll = IF m.pos + 1 + sums.blength <= Len(m.buf)
                               THEN roll(@, m.buf[m.pos + 1], m.buf[m.pos + 1 + sums.blength],
                                         job.offset)
                               ELSE @]
    /\ UNCHANGED <<job, phase, sums, hashed, written, tw, tr, out>>

\* The end of process_chunk: the remaining literal if the source is exhausted.
ChunkEnd ==
    /\ phase = "match"
    /\ ~Scanning
    /\ IF m.exhausted
       THEN /\ Write(IF m.lit < Len(m.buf) THEN <<Literal(Slice(m.buf, m.lit, Len(m.buf)))>>
                     ELSE <<>>, TRUE)
            /\ Enter("recv")
       ELSE /\ Enter("fill")
            /\ UNCHANGED <<written, tw>>
    /\ UNCHANGED <<job, sums, m, hashed, tr, out>>

-----------------------------------------------------------------------------
\* The receiver.

\* A matched block is copied from the basis, if there is such a block.
Receive_block(idx) ==
    LET b == sums.blength
        n == Len(job.basis)
        count == IF b > 0 /\ n > 0 THEN (n + b - 1) \div b ELSE 0
        remainder == IF b > 0 /\ n > 0 /\ n % b # 0 THEN n % b ELSE b
        len == IF idx = count - 1 /\ remainder > 0 /\ remainder < b THEN remainder ELSE b
    IN IF idx >= count THEN Enter("failed") /\ UNCHANGED out
       ELSE /\ out' = out \o Slice(job.basis, idx * b, Min({idx * b + len, n}))
            /\ UNCHANGED phase

Take == tw' = [tw EXCEPT !.wire = Tail(@)]

\* The state Running of the compressed reader: the next block of a run.
ReadRun ==
    /\ phase = "recv"
    /\ tr.state = "Running"
    /\ tr' = [tr EXCEPT !.tok = @ + 1, !.run = @ - 1,
                        !.state = IF tr.run = 1 THEN "Idle" ELSE @]
    /\ Receive_block(tr.tok + 1)
    /\ UNCHANGED <<job, sums, m, hashed, written, tw>>

\* A data item: as it is, or a frame with the trailer zlib's sender stripped.
ReadData ==
    /\ phase = "recv" /\ tr.state = "Idle" /\ tw.wire # <<>>
    /\ Head(tw.wire).kind = "data"
    /\ Take
    /\ LET frame == Head(tw.wire).data
           input == IF job.enc = "zlib" THEN Append(frame, Sync) ELSE frame
           results == IF job.enc = "plain" THEN {[data |-> frame, state |-> tr.decoder]}
                      ELSE decompress(job.enc, tr.decoder, input)
       IN \E r \in results :
             IF r.state = "corrupt" THEN Enter("failed") /\ UNCHANGED <<tr, out>>
             ELSE /\ tr' = [tr EXCEPT !.decoder = r.state]
                  /\ out' = out \o r.data
                  /\ UNCHANGED phase
    /\ UNCHANGED <<job, sums, m, hashed, written>>

\* A block token, absolute or relative to the last one, perhaps with a run.
ReadMatch ==
    /\ phase = "recv" /\ tr.state = "Idle" /\ tw.wire # <<>>
    /\ Head(tw.wire).kind \in {"match", "rel"}
    /\ Take
    /\ LET item == Head(tw.wire)
           tok == IF item.kind = "rel" THEN tr.tok + item.tok ELSE item.tok
       IN /\ tr' = [tr EXCEPT !.tok = tok, !.run = item.run,
                              !.state = IF item.run # 0 THEN "Running" ELSE "Idle"]
          /\ Receive_block(tok)
    /\ UNCHANGED <<job, sums, m, hashed, written>>

\* The end mark, then the file checksum that follows it.
ReadEnd ==
    /\ phase = "recv" /\ tr.state = "Idle" /\ tw.wire # <<>>
    /\ Head(tw.wire).kind = "end"
    /\ Take
    /\ tr' = NewTokenReader(job.enc)
    /\ Enter(IF hashed = file_checksum(out) THEN "done" ELSE "failed")
    /\ UNCHANGED <<job, sums, m, hashed, written, out>>

Next ==
    \/ Sign \/ SendWhole \/ Fill \/ MatchHit \/ MatchMiss \/ ChunkEnd
    \/ ReadRun \/ ReadData \/ ReadMatch \/ ReadEnd

Spec == Init /\ [][Next]_vars

-----------------------------------------------------------------------------
\* Properties.

\* What the receiver should end up with.
Expected == IF job.kind = "tokens" THEN apply_diffops(job.basis, job.ops, sums) ELSE job.source

\* The streaming matcher gives up on a file whose first chunk is shorter than a
\* block, so it is only trusted with chunks that hold one.
ChunkHoldsBlock == job.kind = "stream" /\ ~no_sums => job.chunk >= sums.blength

\* Literal data that the frames of a compressed stream do not carry: zlib needs
\* every piece to be the last of its token and to fit a frame, lz4 to fit one.
RECURSIVE TooLong(_)
TooLong(ops) ==
    /\ ops # <<>>
    /\ \/ TooLong(Tail(ops))
       \/ /\ job.enc = "zlib"
          /\ \/ Len(Head(ops).lit) > Min({DataChunk, MaxDataCount})
             \/ Len(ops) > 1 /\ ops[1].copy < 0 /\ ops[2].copy < 0
       \/ job.enc = "lz4" /\ Min({Len(Head(ops).lit), DataChunk}) > MaxDataCount

\* The file the receiver writes is at every moment a prefix of the sender's
\* file, and all of it when the receiver accepts the checksum: block matching,
\* runs of tokens, frames and the shorter last block never lose, repeat or
\* misplace data (match_blocks, process_chunk, send_token, recv_token).  Literal
\* data the frames do not carry may come out as rubbish, which is never accepted.
Reconstruction ==
    ChunkHoldsBlock /\ phase \in {"recv", "done"} =>
        /\ IsPrefix(out, Expected) \/ (phase = "recv" /\ TooLong(written))
        /\ phase = "done" => out = Expected

\* The rolling checksum is that of the window under examination, whatever was
\* rolled, recomputed or wrapped before.  The exception is the code's: after a
\* refill that follows a miss, until the next recomputation (matcher.rs:350).
RollingInStep ==
    Scanning /\ ~m.carried => digest(m.roll) = checksum1(WindowAt(m.pos), job.offset)

\* A transfer fails only for a known reason: more blocks than the reader
\* accepts, or literal data the compressed framing cannot carry; and only a
\* digest of fewer than 16 bytes is shorter than the signature wants.
FailuresExplained ==
    /\ phase = "failed" =>
          (sums = NoSums /\ Len(job.basis) > MaxBlockCount) \/ TooLong(written)
    /\ phase = "panic" => job.digest < 16
=============================================================================
