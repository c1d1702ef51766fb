------------------------------- MODULE MCDelta -------------------------------
(***************************************************************************)
(* Jobs for TLC: every source of up to six bits against a choice of bases, *)
(* whole and in chunks; and lists of operations for each token encoding.   *)
(***************************************************************************)
EXTENDS Delta

MCBases ==
    {<<>>, <<0, 1, 1>>, <<0, 1, 0, 1>>, <<1, 1, 0, 1, 0>>, <<0, 0, 0, 0, 0, 0>>,
     <<0, 1, 1, 1, 0, 1>>, <<1, 0, 1, 1, 0, 0, 1>>}

MCSources == UNION {[1..n -> {0, 1}] : n \in 0..6}

Job(basis, source, ops, blockSize, chunk, offset, hash, enc, kind) ==
    [basis |-> basis, source |-> source, ops |-> ops, blockSize |-> blockSize, chunk |-> chunk,
     offset |-> offset, digest |-> hash, enc |-> enc, kind |-> kind]

Matching ==
    {Job(b, s, <<>>, 0, 0, 0, 16, "plain", "batch") : b \in MCBases, s \in MCSources}
    \cup {Job(b, s, <<>>, 0, c, o, 16, "plain", "stream") :
              b \in MCBases, s \in MCSources, c \in {3, 4}, o \in {0, 31}}
    \cup {Job(b, <<1, 0, 1>>, <<>>, 2, 2, 0, h, "zstd", "stream") : b \in MCBases, h \in {8, 16}}
    \cup {Job([i \in 1..n |-> 0], <<0>>, <<>>, 1, 0, 0, 16, "plain", "batch") : n \in {10, 11}}

\* Ten one-byte blocks, and literals of one byte and of more than a chunk.
TokenBasis == [i \in 1..10 |-> i]
Ops == {Literal(<<11>>), Literal(<<11, 12, 13, 14>>)} \cup {Copy(i) : i \in {0, 1, 2, 3, 9}}
Runs == {[i \in 1..n |-> Copy(k + i - 1)] : n \in 3..6, k \in 0..2}
OpLists == UNION {[1..n -> Ops] : n \in 0..3}
           \cup {a \o r \o b : a, b \in UNION {[1..n -> Ops] : n \in 0..1}, r \in Runs}

Sending ==
    {Job(TokenBasis, <<>>, ops, 1, 0, 0, 16, e, "tokens") :
         ops \in OpLists, e \in {"plain", "zlib", "zstd", "lz4"}}

MCJobs == Matching \cup Sending
=============================================================================
