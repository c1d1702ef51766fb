------------------------------- MODULE Varint -------------------------------
(***************************************************************************)
(* The integer encodings of the wire.  A 32 or 64 bit value is the sequence *)
(* of its bytes, least significant first.  A reader takes the bytes that    *)
(* have arrived and returns [ok, val, rest]; ok is FALSE when read_exact    *)
(* would fail or the encoding is refused.                                   *)
(***************************************************************************)
EXTENDS Integers, Sequences, FiniteSetsExt

MaxByte == 255
Bytes == 0..MaxByte

Refused == [ok |-> FALSE, val |-> <<>>, rest |-> <<>>]
Accept(val, rest) == [ok |-> TRUE, val |-> val, rest |-> rest]
Zeros(n) == [i \in 1..n |-> 0]
From(s, i) == SubSeq(s, i, Len(s))

\* n bytes as they are: read_byte, read_shortint, read_int.
read_fixed(s, n) == IF Len(s) < n THEN Refused ELSE Accept(SubSeq(s, 1, n), From(s, n + 1))
write_fixed(le) == le

\* Four bytes, or four bytes of ones and then eight.
read_longint(s) ==
    LET low == SubSeq(s, 1, 4)
        sign == IF low[4] >= 128 THEN 255 ELSE 0
    IN IF Len(s) < 4 THEN Refused
       ELSE IF low # <<255, 255, 255, 255>>
       THEN Accept(low \o [i \in 1..4 |-> sign], From(s, 5))
       ELSE read_fixed(From(s, 5), 8)

write_longint(le) ==
    IF From(le, 5) = Zeros(4) /\ le[4] < 128 THEN SubSeq(le, 1, 4)
    ELSE <<255, 255, 255, 255>> \o le

\* INT_BYTE_EXTRA: how many bytes follow, from the leading ones of the first.
IntByteExtra(byte) ==
    CASE byte < 128 -> 0 [] byte < 192 -> 1 [] byte < 224 -> 2 [] byte < 240 -> 3
      [] byte < 248 -> 4 [] byte < 252 -> 5 [] OTHER -> 6

\* The first byte holds a prefix of ones and what fits of the highest byte.
read_varint(s) ==
    LET extra == IntByteExtra(s[1])
        top == IF extra < 4 THEN <<s[1] % 2 ^ (8 - extra)>> ELSE <<>>
    IN IF s = <<>> THEN Refused
       ELSE IF extra = 0 THEN Accept(<<s[1], 0, 0, 0>>, Tail(s))
       ELSE IF extra > 4 \/ Len(s) < 1 + extra THEN Refused
       ELSE Accept(SubSeq(s, 2, 1 + extra) \o top \o Zeros(4 - extra - Len(top)), From(s, extra + 2))

write_varint(le) ==
    LET cnt == Max({1} \cup {i \in 1..4 : le[i] # 0})
        bit == 2 ^ (8 - cnt)
    IN IF le[cnt] >= bit THEN <<256 - bit>> \o SubSeq(le, 1, cnt)
       ELSE IF cnt > 1 THEN <<le[cnt] + 256 - 2 * bit>> \o SubSeq(le, 1, cnt - 1)
       ELSE <<le[1]>>

\* The same for 64 bits, with at least min bytes.
read_varlong(s, min) ==
    LET extra == IntByteExtra(s[1])
        filled == min - 1 + extra
    IN IF Len(s) < min THEN Refused
       ELSE IF extra > 0 /\ (filled >= 8 \/ Len(s) < min + extra) THEN Refused
       ELSE Accept(SubSeq(s, 2, min + extra) \o <<s[1] % 2 ^ (8 - extra)>> \o Zeros(7 - filled),
                   From(s, min + extra + 1))

write_varlong(le, min) ==
    LET cnt == Max({min} \cup {i \in min..8 : le[i] # 0})
        bit == 2 ^ (7 - (cnt - min))
    IN IF le[cnt] >= bit THEN <<256 - bit>> \o SubSeq(le, 1, cnt)
       ELSE IF cnt > min THEN <<le[cnt] + 256 - 2 * bit>> \o SubSeq(le, 1, cnt - 1)
       ELSE <<le[min]>> \o SubSeq(le, 1, min - 1)

\* The encodings by protocol version.
read_varint30(s, codec) == IF codec = "Fixed" THEN read_fixed(s, 4) ELSE read_varint(s)
write_varint30(le, codec) == IF codec = "Fixed" THEN write_fixed(le) ELSE write_varint(le)
read_varlong30(s, min, codec) == IF codec = "Fixed" THEN read_longint(s) ELSE read_varlong(s, min)
write_varlong30(le, min, codec) == IF codec = "Fixed" THEN write_longint(le) ELSE write_varlong(le, min)

-----------------------------------------------------------------------------
\* File list indices, relative to the previous one of the same sign.

NDX_DONE == -1
MaxNdx == 2147483647
NdxState == [positive |-> -1, negative |-> 1]

\* A machine integer as its four bytes, and back.
Byte(n, i) == (n \div 256 ^ (i - 1)) % 256
BytesOf(n) == [i \in 1..4 |-> IF n >= 0 THEN Byte(n, i) ELSE 255 - Byte(-(n + 1), i)]
IntOf(b) ==
    LET v(c) == c[1] + 256 * (c[2] + 256 * (c[3] + 256 * c[4]))
    IN IF b[4] < 128 THEN v(b) ELSE -v([i \in 1..4 |-> 255 - b[i]]) - 1

\* Mutant: negative indices share the base of the positive ones.
Signed_positive(ndx) == "positive"

Signed(ndx) == IF ndx < 0 THEN "negative" ELSE "positive"

\* An index as its distance from the base, or whole when the distance is too large.
NdxBody(abs, diff) ==
    LET b == BytesOf(abs)
    IN IF diff > 0 /\ diff < 254 THEN <<diff>>
       ELSE IF 0 <= diff /\ diff <= 32767 THEN <<254, diff \div 256, diff % 256>>
       ELSE <<254, b[4] + 128, b[1], b[2], b[3]>>

\* What write_ndx appends, and the state it leaves.
write_ndx(ndx, state, codec) ==
    LET abs == IF ndx < 0 THEN -ndx ELSE ndx
        side == Signed(ndx)
        body == NdxBody(abs, abs - state[side])
    IN IF codec = "Fixed" THEN [bytes |-> BytesOf(ndx), state |-> state]
       ELSE IF ndx = NDX_DONE THEN [bytes |-> <<0>>, state |-> state]
       ELSE [bytes |-> (IF ndx < 0 THEN <<255>> ELSE <<>>) \o body,
             state |-> [state EXCEPT ![side] = abs]]

\* How many bytes read_ndx takes from s, or one more than there are.
NdxLength(s, codec) ==
    LET neg == IF s[1] = 255 THEN 1 ELSE 0
    IN IF codec = "Fixed" THEN 4
       ELSE IF s = <<>> \/ s[1] = 0 THEN 1
       ELSE IF Len(s) < neg + 1 THEN neg + 1
       ELSE IF s[neg + 1] # 254 THEN neg + 1
       ELSE IF Len(s) < neg + 2 THEN neg + 3
       ELSE IF s[neg + 2] >= 128 THEN neg + 5 ELSE neg + 3

\* The index that a body stands for.
NdxValue(body, base) ==
    IF body[1] # 254 THEN base + body[1]
    ELSE IF body[2] >= 128 THEN IntOf(<<body[3], body[4], body[5], body[2] - 128>>)
    ELSE base + 256 * body[2] + body[3]

\* read_ndx on exactly those bytes.
read_ndx(s, state, codec) ==
    LET neg == s[1] = 255
        side == IF neg THEN "negative" ELSE "positive"
        abs == NdxValue(IF neg THEN Tail(s) ELSE s, state[side])
    IN IF codec = "Fixed" THEN [ndx |-> IntOf(s), state |-> state]
       ELSE IF s[1] = 0 THEN [ndx |-> NDX_DONE, state |-> state]
       ELSE [ndx |-> IF neg THEN -abs ELSE abs, state |-> [state EXCEPT ![side] = abs]]
=============================================================================
