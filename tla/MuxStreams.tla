----------------------------- MODULE MuxStreams -----------------------------
(***************************************************************************)
(* What one direction of a multiplexed connection holds, as slices of two  *)
(* histories: the data bytes its writer was given and the bytes of all the *)
(* frames made from them.  Lemmas say what each step of Mux does to the    *)
(* slices; MuxProofs applies them to the actions.                          *)
(***************************************************************************)
EXTENDS MuxFrames, WellFoundedInduction, TLAPS

\* The longer contexts take a prover more than its default time.
USE SMTT(20), ZenonT(20)

-----------------------------------------------------------------------------
\* Induction and iteration.

\* A set of natural numbers has a least member.
LEMMA LeastNatural ==
    ASSUME NEW T, T \subseteq Nat, T # {}
    PROVE  \E x \in T : \A y \in T : x <= y
<1> DEFINE R == {ss \in Nat \X Nat : ss[1] < ss[2]}
<1>1. IsWellFoundedOn(R, Nat)
    BY NatLessThanWellFounded DEF OpToRel
<1>2. PICK x \in T : \A y \in T : <<y, x>> \notin R
    <2> HIDE DEF R
    <2> QED
        BY <1>1, WFMin, Zenon
<1>3. \A y \in T : ~(y < x)
    BY <1>2, Zenon
<1> QED
    BY <1>3

\* Induction, with a set in the place of the predicate.
LEMMA SetInduction ==
    ASSUME NEW T, 0 \in T, \A n \in Nat : n \in T => n + 1 \in T
    PROVE  Nat \subseteq T
<1> SUFFICES ASSUME Nat \ T # {}
             PROVE  FALSE
    OBVIOUS
<1> PICK x \in Nat \ T : \A y \in Nat \ T : x <= y
    BY LeastNatural, Zenon
<1>1. x # 0 /\ x - 1 \in Nat
    OBVIOUS
<1>2. x - 1 \in T
    OBVIOUS
<1> QED
    BY <1>1, <1>2

\* A function can be iterated: some sequence of values starts at b and follows g.
Iterates(f, S, b, g) == f \in [Nat -> S] /\ f[0] = b /\ \A n \in Nat : f[n + 1] = g[f[n]]

LEMMA Iteration ==
    ASSUME NEW S, NEW g \in [S -> S], NEW b \in S
    PROVE  \E f : Iterates(f, S, b, g)
<1> DEFINE Starts(n) == {h \in [0..n -> S] : h[0] = b /\ \A i \in 0..(n - 1) : h[i + 1] = g[h[i]]}
<1>1. \A n \in Nat : Starts(n) # {}
    <2> DEFINE T == {n \in Nat : Starts(n) # {}}
    <2>1. 0 \in T
        <3>1. [i \in 0..0 |-> b] \in Starts(0)
            OBVIOUS
        <3> QED
            BY <3>1
    <2>2. ASSUME NEW n \in Nat, n \in T
          PROVE  n + 1 \in T
        <3> PICK h \in Starts(n) : TRUE
            BY <2>2
        <3> DEFINE h2 == [i \in 0..(n + 1) |-> IF i <= n THEN h[i] ELSE g[h[n]]]
        <3>1. h2 \in [0..(n + 1) -> S]
            OBVIOUS
        <3>2. h2[0] = b
            OBVIOUS
        <3>3. ASSUME NEW i \in 0..((n + 1) - 1)
              PROVE  h2[i + 1] = g[h2[i]]
            <4>1. CASE i < n
                BY <4>1
            <4>2. CASE i = n
                BY <4>2
            <4> QED
                BY <4>1, <4>2
        <3>4. h2 \in Starts(n + 1)
            <4> HIDE DEF h2
            <4> QED
                BY <3>1, <3>2, <3>3
        <3> QED
            BY <3>4
    <2> HIDE DEF T
    <2>3. Nat \subseteq T
        BY <2>1, <2>2, SetInduction
    <2> QED
        BY <2>3 DEF T
<1>2. ASSUME NEW n \in Nat, NEW m \in Nat, NEW h \in Starts(n), NEW k \in Starts(m)
      PROVE  \A i \in Nat : i <= n /\ i <= m => h[i] = k[i]
    <2> DEFINE T == {i \in Nat : i <= n /\ i <= m => h[i] = k[i]}
    <2>1. 0 \in T
        OBVIOUS
    <2>2. ASSUME NEW i \in Nat, i \in T
          PROVE  i + 1 \in T
        <3>1. i + 1 <= n /\ i + 1 <= m => h[i + 1] = g[h[i]] /\ k[i + 1] = g[k[i]] /\ h[i] = k[i]
            BY <2>2
        <3> QED
            BY <3>1
    <2> HIDE DEF T
    <2>3. Nat \subseteq T
        BY <2>1, <2>2, SetInduction
    <2> QED
        BY <2>3 DEF T
<1> DEFINE C(n) == CHOOSE h : h \in Starts(n)
           f == [n \in Nat |-> C(n)[n]]
<1>3. \A n \in Nat : C(n) \in Starts(n)
    <2> HIDE DEF Starts
    <2> QED
        BY <1>1
<1>4. f \in [Nat -> S]
    <2>1. ASSUME NEW n \in Nat PROVE C(n)[n] \in S
        <3> HIDE DEF C
        <3> QED
            BY <1>3
    <2> HIDE DEF C
    <2> QED
        BY <2>1
<1>5. f[0] = b
    <2> HIDE DEF C
    <2> QED
        BY <1>3
<1>6. ASSUME NEW n \in Nat
      PROVE  f[n + 1] = g[f[n]]
    <2> HIDE DEF C
    <2>1. C(n) \in Starts(n) /\ C(n + 1) \in Starts(n + 1)
        BY <1>3
    <2>2. C(n + 1)[n + 1] = g[C(n + 1)[n]]
        BY <2>1
    <2>3. C(n + 1)[n] = C(n)[n]
        <3> HIDE DEF Starts
        <3> QED
            BY <2>1, <1>2
    <2> QED
        BY <2>2, <2>3
<1> HIDE DEF f
<1> QED
    BY <1>4, <1>5, <1>6, Zenon DEF Iterates

\* The same with a function for each of n steps.
Recurs(f, S, b, n, g) == f \in [0..n -> S] /\ f[0] = b /\ \A i \in 1..n : f[i] = g[i][f[i - 1]]

LEMMA Recursion ==
    ASSUME NEW S, NEW b \in S, NEW n \in Nat, NEW g \in [1..n -> [S -> S]]
    PROVE  \E f : Recurs(f, S, b, n, g)
<1> DEFINE P == Nat \X S
           step == [x \in P |-> <<x[1] + 1, IF x[1] + 1 <= n THEN g[x[1] + 1][x[2]] ELSE x[2]>>]
<1>1. step \in [P -> P]
    <2>1. ASSUME NEW x \in P
          PROVE  <<x[1] + 1, IF x[1] + 1 <= n THEN g[x[1] + 1][x[2]] ELSE x[2]>> \in P
        <3>1. x[1] \in Nat /\ x[2] \in S /\ x[1] + 1 \in Nat
            OBVIOUS
        <3>2. x[1] + 1 <= n => g[x[1] + 1][x[2]] \in S
            BY <3>1
        <3> QED
            BY <3>1, <3>2
    <2> QED
        BY <2>1, Zenon
<1>2. <<0, b>> \in P
    OBVIOUS
<1>3. PICK h \in [Nat -> P] : h[0] = <<0, b>> /\ \A i \in Nat : h[i + 1] = step[h[i]]
    <2> HIDE DEF P, step
    <2>1. PICK h : Iterates(h, P, <<0, b>>, step)
        BY <1>1, <1>2, Iteration
    <2> QED
        BY <2>1, Zenon DEF Iterates
<1>4. \A i \in Nat : h[i][1] = i
    <2> DEFINE J == {i \in Nat : h[i][1] = i}
    <2>1. 0 \in J
        BY <1>3
    <2>2. ASSUME NEW i \in Nat, i \in J
          PROVE  i + 1 \in J
        <3>1. h[i] \in P /\ h[i + 1] = step[h[i]] /\ h[i][1] = i
            BY <1>3, <2>2, Zenon
        <3> QED
            BY <3>1
    <2> HIDE DEF J
    <2>3. Nat \subseteq J
        BY <2>1, <2>2, SetInduction, Zenon
    <2> QED
        BY <2>3 DEF J
<1> DEFINE f == [i \in 0..n |-> h[i][2]]
<1>5. f \in [0..n -> S] /\ f[0] = b
    BY <1>3
<1>6. ASSUME NEW i \in 1..n
      PROVE  f[i] = g[i][f[i - 1]]
    <2>1. i - 1 \in Nat /\ (i - 1) + 1 = i /\ i <= n /\ i \in Nat /\ i \in 0..n /\ i - 1 \in 0..n
        OBVIOUS
    <2>2. h[i - 1] \in P /\ h[i - 1][1] = i - 1 /\ h[i] = step[h[i - 1]]
        BY <1>3, <1>4, <2>1, Zenon
    <2>3. h[i][2] = g[i][h[i - 1][2]]
        BY <2>1, <2>2
    <2> QED
        BY <2>1, <2>3
<1> HIDE DEF f
<1> QED
    BY <1>5, <1>6, Zenon DEF Recurs

-----------------------------------------------------------------------------
\* Slices.

\* The elements of s from a + 1 to b.
Slice(s, a, b) == SubSeq(s, a + 1, b)

\* Sequences with the same elements are equal.
LEMMA SameSequence ==
    ASSUME NEW S, NEW s \in Seq(S), NEW t \in Seq(S), Len(s) = Len(t),
           \A i \in 1..Len(s) : s[i] = t[i]
    PROVE  s = t
OBVIOUS

\* Its length and elements.
LEMMA SliceFacts ==
    ASSUME NEW S, NEW s \in Seq(S), NEW a \in 0..Len(s), NEW b \in a..Len(s)
    PROVE  /\ Slice(s, a, b) \in Seq(S)
           /\ Len(Slice(s, a, b)) = b - a
           /\ \A i \in 1..(b - a) : Slice(s, a, b)[i] = s[a + i]
BY DEF Slice

\* Two adjacent slices.
LEMMA SliceCat ==
    ASSUME NEW S, NEW s \in Seq(S), NEW a \in 0..Len(s), NEW b \in a..Len(s), NEW c \in b..Len(s)
    PROVE  Slice(s, a, b) \o Slice(s, b, c) = Slice(s, a, c)
<1> DEFINE x == Slice(s, a, b)
           y == Slice(s, b, c)
           z == Slice(s, a, c)
<1>0. b \in 0..Len(s) /\ c \in a..Len(s)
    OBVIOUS
<1>1. x \in Seq(S) /\ Len(x) = b - a /\ \A i \in 1..(b - a) : x[i] = s[a + i]
    BY SliceFacts
<1>2. y \in Seq(S) /\ Len(y) = c - b /\ \A i \in 1..(c - b) : y[i] = s[b + i]
    BY <1>0, SliceFacts
<1>3. z \in Seq(S) /\ Len(z) = c - a /\ \A i \in 1..(c - a) : z[i] = s[a + i]
    BY <1>0, SliceFacts
<1> HIDE DEF x, y, z
<1>4. x \o y \in Seq(S) /\ Len(x \o y) = c - a
    BY <1>1, <1>2
<1>5. ASSUME NEW i \in 1..(c - a)
      PROVE  (x \o y)[i] = z[i]
    <2>1. CASE i <= b - a
        BY <2>1, <1>1, <1>2, <1>3
    <2>2. CASE i > b - a
        <3>1. i - (b - a) \in 1..(c - b) /\ b + (i - (b - a)) = a + i
            BY <2>2
        <3>2. (x \o y)[i] = y[i - (b - a)]
            BY <2>2, <1>1, <1>2
        <3> QED
            BY <3>1, <3>2, <1>2, <1>3
    <2>3. i <= b - a \/ i > b - a
        OBVIOUS
    <2> QED
        BY <2>1, <2>2, <2>3, Zenon
<1>6. x \o y = z
    BY <1>3, <1>4, <1>5, SameSequence, Zenon
<1> QED
    BY <1>6 DEF x, y, z

\* The elements of a concatenation.
LEMMA CatFacts ==
    ASSUME NEW S, NEW s \in Seq(S), NEW t \in Seq(S)
    PROVE  /\ s \o t \in Seq(S) /\ Len(s \o t) = Len(s) + Len(t)
           /\ \A i \in 1..Len(s) : (s \o t)[i] = s[i]
           /\ \A i \in 1..Len(t) : (s \o t)[Len(s) + i] = t[i]
OBVIOUS

\* Three sequences.
LEMMA CatCat ==
    ASSUME NEW S, NEW s \in Seq(S), NEW t \in Seq(S), NEW u \in Seq(S)
    PROVE  t \o u \in Seq(S) /\ (s \o t) \o u = s \o (t \o u)
<1>1. /\ t \o u \in Seq(S) /\ (s \o t) \o u \in Seq(S) /\ s \o (t \o u) \in Seq(S)
      /\ Len((s \o t) \o u) = Len(s \o (t \o u))
    OBVIOUS
<1>2. \A i \in 1..Len((s \o t) \o u) : ((s \o t) \o u)[i] = (s \o (t \o u))[i]
    OBVIOUS
<1> QED
    BY <1>1, <1>2, SameSequence

\* Three sequences of bytes.
Joined(s, t, u) == t \o u \in Seq(Bytes) /\ (s \o t) \o u = s \o (t \o u)

LEMMA ByteJoined ==
    ASSUME NEW s \in Seq(Bytes), NEW t \in Seq(Bytes), NEW u \in Seq(Bytes)
    PROVE  Joined(s, t, u)
BY CatCat DEF Joined

\* Two sequences of one element.
LEMMA PairCat ==
    ASSUME NEW S, NEW x \in S, NEW y \in S
    PROVE  <<x>> \o <<y>> = <<x, y>>
<1>1. <<x>> \in Seq(S) /\ <<y>> \in Seq(S) /\ <<x, y>> \in Seq(S)
    OBVIOUS
<1>2. /\ <<x>> \o <<y>> \in Seq(S) /\ Len(<<x>> \o <<y>>) = 2 /\ Len(<<x, y>>) = 2
      /\ (<<x>> \o <<y>>)[1] = x /\ (<<x>> \o <<y>>)[2] = y
    BY <1>1, CatFacts
<1>3. \A i \in 1..2 : (<<x>> \o <<y>>)[i] = <<x, y>>[i]
    BY <1>2
<1> QED
    BY <1>1, <1>2, <1>3, SameSequence, Zenon

\* The two parts of a slice.
LEMMA SliceParts ==
    ASSUME NEW S, NEW s \in Seq(S), NEW a \in 0..Len(s), NEW b \in a..Len(s), NEW n \in 0..(b - a)
    PROVE  /\ SubSeq(Slice(s, a, b), 1, n) = Slice(s, a, a + n)
           /\ From(Slice(s, a, b), n + 1) = Slice(s, a + n, b)
BY DEF Slice, From

\* A slice t of bytes, cut at n.
CutAt(s, a, b, n, t) == SubSeq(t, 1, n) = Slice(s, a, a + n) /\ From(t, n + 1) = Slice(s, a + n, b)

LEMMA SliceCut ==
    ASSUME NEW s \in Seq(Bytes), NEW a \in 0..Len(s), NEW b \in a..Len(s), NEW n \in 0..(b - a),
           NEW t, t = Slice(s, a, b)
    PROVE  CutAt(s, a, b, n, t)
<1>1. CutAt(s, a, b, n, Slice(s, a, b))
    BY SliceParts DEF CutAt
<1> QED
    BY <1>1, Zenon

\* A slice of a slice.
LEMMA SliceOfSlice ==
    ASSUME NEW S, NEW s \in Seq(S), NEW a \in 0..Len(s), NEW b \in a..Len(s),
           NEW m \in 0..(b - a), NEW n \in m..(b - a)
    PROVE  Slice(Slice(s, a, b), m, n) = Slice(s, a + m, a + n)
BY DEF Slice

\* More elements at the end leave a slice as it is.
LEMMA SliceKept ==
    ASSUME NEW S, NEW s \in Seq(S), NEW t \in Seq(S), NEW a \in 0..Len(s), NEW b \in a..Len(s)
    PROVE  Slice(s \o t, a, b) = Slice(s, a, b)
BY DEF Slice

\* What was put at the end.
LEMMA SliceNew ==
    ASSUME NEW S, NEW s \in Seq(S), NEW t \in Seq(S)
    PROVE  Slice(s \o t, Len(s), Len(s) + Len(t)) = t
BY DEF Slice

\* The whole and nothing.
LEMMA SliceEnds ==
    ASSUME NEW S, NEW s \in Seq(S), NEW a \in 0..Len(s)
    PROVE  Slice(s, 0, Len(s)) = s /\ Slice(s, a, a) = <<>>
BY DEF Slice

-----------------------------------------------------------------------------
\* Integers as bytes.

\* Bytes are the numbers below 256.
LEMMA ByteRange == \A x : x \in Bytes <=> x \in Int /\ 0 <= x /\ x < 256
<1>1. MaxByte = 255
    BY DEF MaxByte
<1> QED
    BY <1>1 DEF Bytes

\* The bytes of a number below 2^32.
LEMMA ByteValues ==
    ASSUME NEW n \in Nat, n < 4294967296
    PROVE  /\ Byte(n, 1) \in Bytes /\ Byte(n, 2) \in Bytes /\ Byte(n, 3) \in Bytes /\ Byte(n, 4) \in Bytes
           /\ n = Byte(n, 1) + 256 * (Byte(n, 2) + 256 * (Byte(n, 3) + 256 * Byte(n, 4)))
           /\ n < 2147483648 => Byte(n, 4) < 128
           /\ n < 16777216 => Byte(n, 4) = 0
<1>1. 256 ^ (1 - 1) = 1 /\ 256 ^ (2 - 1) = 256 /\ 256 ^ (3 - 1) = 65536 /\ 256 ^ (4 - 1) = 16777216
    BY SMT
<1>2. /\ Byte(n, 1) = n % 256 /\ Byte(n, 2) = (n \div 256) % 256
      /\ Byte(n, 3) = (n \div 65536) % 256 /\ Byte(n, 4) = (n \div 16777216) % 256
    <2>1. n \div 1 = n
        BY SMT
    <2> QED
        BY <1>1, <2>1, SMT DEF Byte
<1>3. /\ n % 256 \in Int /\ 0 <= n % 256 /\ n % 256 < 256
      /\ (n \div 256) % 256 \in Int /\ 0 <= (n \div 256) % 256 /\ (n \div 256) % 256 < 256
      /\ (n \div 65536) % 256 \in Int /\ 0 <= (n \div 65536) % 256 /\ (n \div 65536) % 256 < 256
      /\ (n \div 16777216) % 256 \in Int /\ 0 <= (n \div 16777216) % 256
      /\ (n \div 16777216) % 256 < 256
    BY SMT
<1>4. n = (n % 256) + 256 * (((n \div 256) % 256)
              + 256 * (((n \div 65536) % 256) + 256 * ((n \div 16777216) % 256)))
    BY SMT
<1>5. n < 2147483648 => (n \div 16777216) % 256 < 128
    BY SMT
<1>6. n < 16777216 => (n \div 16777216) % 256 = 0
    BY SMT
<1> QED
    BY <1>2, <1>3, <1>4, <1>5, <1>6, ByteRange, SMT

\* A machine integer survives its four bytes.
LEMMA IntRoundTrip ==
    ASSUME NEW n \in Int, -2147483649 < n, n < 2147483648
    PROVE  BytesOf(n) \in [1..4 -> Bytes] /\ IntOf(BytesOf(n)) = n
<1> DEFINE b == BytesOf(n)
<1>1. CASE n >= 0
    <2>1. n \in Nat /\ n < 4294967296
        BY <1>1, SMT
    <2>2. b = [i \in 1..4 |-> Byte(n, i)]
        BY <1>1, SMT DEF BytesOf
    <2>3. b[1] = Byte(n, 1) /\ b[2] = Byte(n, 2) /\ b[3] = Byte(n, 3) /\ b[4] = Byte(n, 4)
        BY <2>2, SMT
    <2>4. /\ Byte(n, 4) < 128
          /\ n = Byte(n, 1) + 256 * (Byte(n, 2) + 256 * (Byte(n, 3) + 256 * Byte(n, 4)))
        BY <2>1, ByteValues, SMT
    <2>5. b \in [1..4 -> Bytes]
        <3>1. \A i \in 1..4 : Byte(n, i) \in Bytes
            BY <2>1, ByteValues, SMT
        <3> QED
            BY <2>2, <3>1, SMT
    <2> HIDE DEF b
    <2>6. b[4] < 128 /\ n = b[1] + 256 * (b[2] + 256 * (b[3] + 256 * b[4]))
        BY <2>3, <2>4, SMT
    <2>7. IntOf(b) = n
        BY <2>6, SMT DEF IntOf
    <2> QED
        BY <2>5, <2>7 DEF b
<1>2. CASE n < 0
    <2> DEFINE m == -(n + 1)
    <2>1. m \in Nat /\ m < 4294967296 /\ m < 2147483648 /\ n = (-m) - 1
        BY <1>2, SMT
    <2>2. b = [i \in 1..4 |-> 255 - Byte(m, i)]
        BY <1>2, SMT DEF BytesOf
    <2> HIDE DEF m
    <2>3. \A i \in 1..4 : b[i] = 255 - Byte(m, i)
        BY <2>2, SMT
    <2>4. /\ Byte(m, 4) < 128 /\ \A i \in 1..4 : Byte(m, i) \in Int /\ 0 <= Byte(m, i) /\ Byte(m, i) < 256
          /\ m = Byte(m, 1) + 256 * (Byte(m, 2) + 256 * (Byte(m, 3) + 256 * Byte(m, 4)))
        BY <2>1, ByteValues, ByteRange, SMT
    <2>5. b \in [1..4 -> Bytes]
        <3>1. \A i \in 1..4 : 255 - Byte(m, i) \in Bytes
            BY <2>4, ByteRange, SMT
        <3> QED
            BY <2>2, <3>1, SMT
    <2>6. ~(b[4] < 128)
        BY <2>3, <2>4, SMT
    <2>7. \A i \in 1..4 : 255 - b[i] = Byte(m, i)
        BY <2>3, <2>4, SMT
    <2> DEFINE c == [i \in 1..4 |-> 255 - b[i]]
    <2>8. m = c[1] + 256 * (c[2] + 256 * (c[3] + 256 * c[4]))
        BY <2>4, <2>7, SMT
    <2> HIDE DEF b
    <2>9. IntOf(b) = (-(c[1] + 256 * (c[2] + 256 * (c[3] + 256 * c[4])))) - 1
        BY <2>6, SMT DEF IntOf
    <2> HIDE DEF c
    <2>10. IntOf(b) = n
        BY <2>1, <2>8, <2>9, SMT
    <2> QED
        BY <2>5, <2>10 DEF b
<1> QED
    BY <1>1, <1>2, SMT

-----------------------------------------------------------------------------
\* File list indices.

\* The length that read_ndx derives from the first bytes of an encoding is never
\* too long, and too short only before it has seen enough of them.
LEMMA NdxPrefix ==
    ASSUME NEW t \in Seq(Bytes), NEW codec, Len(t) = NdxLength(t, codec), NEW m \in 0..(Len(t) - 1)
    PROVE  NdxLength(SubSeq(t, 1, m), codec) \in (m + 1)..Len(t)
<1> DEFINE s == SubSeq(t, 1, m)
<1>1. s \in Seq(Bytes) /\ Len(s) = m /\ \A i \in 1..m : s[i] = t[i]
    OBVIOUS
<1>2. \A i \in 1..Len(t) : t[i] \in Int
    BY ByteRange
<1>3. m \in Nat /\ Len(t) \in Nat /\ m < Len(t)
    OBVIOUS
<1> HIDE DEF s
<1>4. CASE codec = "Fixed"
    <2>1. NdxLength(s, codec) = 4 /\ Len(t) = 4
        BY <1>4 DEF NdxLength
    <2> QED
        BY <1>3, <2>1 DEF s
<1>5. CASE codec # "Fixed" /\ m = 0
    <2>1. s = <<>>
        BY <1>1, <1>5
    <2>2. NdxLength(s, codec) = 1
        BY <1>5, <2>1 DEF NdxLength
    <2> QED
        BY <1>3, <1>5, <2>2 DEF s
<1>6. CASE codec # "Fixed" /\ m > 0
    <2>1. s # <<>> /\ t # <<>> /\ s[1] = t[1]
        BY <1>1, <1>3, <1>6
    <2>2. t[1] # 0
        <3>1. t[1] = 0 => NdxLength(t, codec) = 1
            BY <1>6 DEF NdxLength
        <3> QED
            BY <1>3, <1>6, <3>1
    <2>3. ASSUME NEW neg \in {0, 1}, neg = IF t[1] = 255 THEN 1 ELSE 0
          PROVE  NdxLength(s, codec) \in (m + 1)..Len(t)
        <3>1. NdxLength(t, codec) = IF Len(t) < neg + 1 THEN neg + 1
                                    ELSE IF t[neg + 1] # 254 THEN neg + 1
                                    ELSE IF Len(t) < neg + 2 THEN neg + 3
                                    ELSE IF t[neg + 2] >= 128 THEN neg + 5 ELSE neg + 3
            BY <1>6, <2>1, <2>2, <2>3 DEF NdxLength
        <3>2. NdxLength(s, codec) = IF Len(s) < neg + 1 THEN neg + 1
                                    ELSE IF s[neg + 1] # 254 THEN neg + 1
                                    ELSE IF Len(s) < neg + 2 THEN neg + 3
                                    ELSE IF s[neg + 2] >= 128 THEN neg + 5 ELSE neg + 3
            BY <1>6, <2>1, <2>2, <2>3 DEF NdxLength
        <3>3. neg + 1 <= m => s[neg + 1] = t[neg + 1]
            BY <1>1, <1>3, <2>3
        <3>4. neg + 2 <= m => s[neg + 2] = t[neg + 2]
            BY <1>1, <1>3, <2>3
        <3> QED
            BY <1>1, <1>3, <3>1, <3>2, <3>3, <3>4
    <2> QED
        BY <2>3 DEF s
<1> QED
    BY <1>3, <1>4, <1>5, <1>6

\* The indices that have an absolute value among the 32-bit integers.
Indices == (-MaxNdx)..MaxNdx

LEMMA IndexRange == \A x : x \in Indices <=> x \in Int /\ -2147483648 < x /\ x < 2147483648
<1>1. MaxNdx \in Nat /\ MaxNdx = 2147483647
    BY SMT DEF MaxNdx
<1>2. \A x : x \in Indices <=> x \in Int /\ -MaxNdx <= x /\ x <= MaxNdx
    <2>1. MaxNdx \in Nat
        BY <1>1, SMT
    <2> QED
        BY <2>1, SMT DEF Indices
<1> QED
    BY <1>1, <1>2, SMT

\* The states of the two bases.
NdxStates == [positive : Int, negative : Int]

\* The three forms of the distance from base to abs.
IsBody(b, abs, base) ==
    \/ \E d \in Bytes : 0 < d /\ d < 254 /\ b = <<d>> /\ abs = base + d
    \/ \E h, l \in Bytes : h < 128 /\ b = <<254, h, l>> /\ abs = base + 256 * h + l
    \/ \E b1, b2, b3, b4 \in Bytes :
           /\ b4 < 128 /\ b = <<254, b4 + 128, b1, b2, b3>>
           /\ abs = b1 + 256 * (b2 + 256 * (b3 + 256 * b4))

\* The body is one of them.
LEMMA NdxBodies ==
    ASSUME NEW abs \in Nat, abs \in Indices, NEW base \in Int, NEW diff \in Int, diff = abs - base
    PROVE  NdxBody(abs, diff) \in Seq(Bytes) /\ IsBody(NdxBody(abs, diff), abs, base)
<1>0. abs = base + diff
    BY SMT
<1>1. CASE diff > 0 /\ diff < 254
    <2>1. diff \in Bytes
        BY <1>0, <1>1, ByteRange, SMT
    <2>2. NdxBody(abs, diff) = <<diff>>
        BY <1>1, SMT DEF NdxBody
    <2>3. IsBody(<<diff>>, abs, base)
        BY <1>0, <1>1, <2>1, SMT DEF IsBody
    <2>4. <<diff>> \in Seq(Bytes)
        BY <2>1, SMT
    <2> QED
        BY <2>2, <2>3, <2>4, Zenon
<1>2. CASE ~(diff > 0 /\ diff < 254) /\ 0 <= diff /\ diff <= 32767
    <2> DEFINE h == diff \div 256
               l == diff % 256
    <2>1. h \in Int /\ 0 <= h /\ h < 128 /\ l \in Int /\ 0 <= l /\ l < 256 /\ diff = 256 * h + l
        BY <1>0, <1>2, SMT
    <2>2. NdxBody(abs, diff) = <<254, h, l>>
        BY <1>2, SMT DEF NdxBody
    <2> HIDE DEF h, l
    <2>3. h \in Bytes /\ l \in Bytes /\ 254 \in Bytes
        BY <2>1, ByteRange, SMT
    <2>4. abs = base + 256 * h + l
        BY <1>0, <2>1, SMT
    <2>5. IsBody(<<254, h, l>>, abs, base)
        BY <2>1, <2>3, <2>4, SMT DEF IsBody
    <2>6. <<254, h, l>> \in Seq(Bytes)
        BY <2>3
    <2> QED
        BY <2>2, <2>5, <2>6, Zenon
<1>3. CASE ~(diff > 0 /\ diff < 254) /\ ~(0 <= diff /\ diff <= 32767)
    <2> DEFINE b == BytesOf(abs)
    <2>1. abs \in Int /\ abs >= 0 /\ abs < 4294967296 /\ abs < 2147483648
        BY IndexRange, SMT
    <2>2. b[1] = Byte(abs, 1) /\ b[2] = Byte(abs, 2) /\ b[3] = Byte(abs, 3) /\ b[4] = Byte(abs, 4)
        BY <2>1, SMT DEF BytesOf
    <2>3. /\ b[1] \in Bytes /\ b[2] \in Bytes /\ b[3] \in Bytes /\ b[4] \in Bytes /\ b[4] < 128
          /\ abs = b[1] + 256 * (b[2] + 256 * (b[3] + 256 * b[4]))
        BY <2>1, <2>2, ByteValues, SMT
    <2>4. NdxBody(abs, diff) = <<254, b[4] + 128, b[1], b[2], b[3]>>
        BY <1>3, SMT DEF NdxBody
    <2> HIDE DEF b
    <2>5. b[4] + 128 \in Bytes /\ 254 \in Bytes
        BY <2>3, ByteRange, SMT
    <2>6. IsBody(<<254, b[4] + 128, b[1], b[2], b[3]>>, abs, base)
        BY <2>3, SMT DEF IsBody
    <2>7. <<254, b[4] + 128, b[1], b[2], b[3]>> \in Seq(Bytes)
        BY <2>3, <2>5
    <2> QED
        BY <2>4, <2>6, <2>7, Zenon
<1> QED
    BY <1>0, <1>1, <1>2, <1>3, SMT

\* What write_ndx appends: four bytes, or the marker of NDX_DONE, or the marker of a
\* negative index and a body; and the base it leaves.
NdxForm(ndx, st, codec, w) ==
    /\ codec = "Fixed" => w.bytes = BytesOf(ndx) /\ w.state = st
    /\ codec # "Fixed" /\ ndx = -1 => w.bytes = <<0>> /\ w.state = st
    /\ codec # "Fixed" /\ ndx < -1 =>
           /\ w.state = [st EXCEPT !.negative = -ndx]
           /\ \E b \in Seq(Bytes) : w.bytes = <<255>> \o b /\ IsBody(b, -ndx, st.negative)
    /\ codec # "Fixed" /\ ndx >= 0 =>
           /\ w.state = [st EXCEPT !.positive = ndx]
           /\ w.bytes \in Seq(Bytes) /\ IsBody(w.bytes, ndx, st.positive)
    /\ codec = "Fixed" \/ ndx = -1 \/ ndx < -1 \/ ndx >= 0

LEMMA NdxForms ==
    ASSUME NEW ndx \in Indices, NEW st \in NdxStates, NEW codec, NEW w, w = write_ndx(ndx, st, codec)
    PROVE  NdxForm(ndx, st, codec, w)
<1>1. ndx \in Int /\ -2147483648 < ndx
    BY IndexRange, SMT
<1>2. codec = "Fixed" => w.bytes = BytesOf(ndx) /\ w.state = st
    BY SMT DEF write_ndx
<1>3. codec # "Fixed" /\ ndx = -1 => w.bytes = <<0>> /\ w.state = st
    BY SMT DEF write_ndx, NDX_DONE
<1>4. ASSUME codec # "Fixed", ndx < -1, NEW abs \in Int, abs = -ndx
      PROVE  /\ w.state = [st EXCEPT !.negative = abs]
             /\ \E b \in Seq(Bytes) : w.bytes = <<255>> \o b /\ IsBody(b, abs, st.negative)
    <2>1. Signed(ndx) = "negative" /\ ndx # NDX_DONE /\ ndx < 0
        BY <1>1, <1>4, SMT DEF Signed, NDX_DONE
    <2>2. w.bytes = <<255>> \o NdxBody(abs, abs - st.negative) /\ w.state = [st EXCEPT !.negative = abs]
        <3>1. w.bytes = <<255>> \o NdxBody(-ndx, (-ndx) - st.negative) /\ w.state = [st EXCEPT !.negative = -ndx]
            BY <1>4, <2>1, Zenon DEF write_ndx
        <3> QED
            BY <1>4, <3>1, SMT
    <2>3. abs \in Nat
        BY <1>1, <1>4, SMT
    <2>4. abs \in Indices
        <3>1. -2147483648 < abs /\ abs < 2147483648
            BY <1>1, <1>4, SMT
        <3> QED
            BY <3>1, IndexRange, SMT
    <2>5. st.negative \in Int
        BY SMT DEF NdxStates
    <2>6. abs - st.negative \in Int
        BY <2>5, SMT
    <2>7. /\ NdxBody(abs, abs - st.negative) \in Seq(Bytes)
          /\ IsBody(NdxBody(abs, abs - st.negative), abs, st.negative)
        BY <2>3, <2>4, <2>5, <2>6, NdxBodies, Zenon
    <2> QED
        BY <2>2, <2>7, Zenon
<1>5. ASSUME codec # "Fixed", ndx >= 0
      PROVE  /\ w.state = [st EXCEPT !.positive = ndx]
             /\ w.bytes \in Seq(Bytes) /\ IsBody(w.bytes, ndx, st.positive)
    <2>1. Signed(ndx) = "positive" /\ ndx # NDX_DONE /\ ~(ndx < 0)
        BY <1>1, <1>5, SMT DEF Signed, NDX_DONE
    <2>2. w.bytes = <<>> \o NdxBody(ndx, ndx - st.positive) /\ w.state = [st EXCEPT !.positive = ndx]
        BY <1>5, <2>1, Zenon DEF write_ndx
    <2>3. ndx \in Nat
        BY <1>1, <1>5, SMT
    <2>4. st.positive \in Int
        BY SMT DEF NdxStates
    <2>5. ndx - st.positive \in Int
        BY <1>1, <2>4, SMT
    <2>6. /\ NdxBody(ndx, ndx - st.positive) \in Seq(Bytes)
          /\ IsBody(NdxBody(ndx, ndx - st.positive), ndx, st.positive)
        BY <2>3, <2>4, <2>5, NdxBodies, Zenon
    <2>7. w.bytes = NdxBody(ndx, ndx - st.positive)
        BY <2>2, <2>6, SMT
    <2> QED
        BY <2>2, <2>6, <2>7, Zenon
<1>6. codec = "Fixed" \/ ndx = -1 \/ ndx < -1 \/ ndx >= 0
    BY <1>1, SMT
<1>7. -ndx \in Int
    BY <1>1, SMT
<1> QED
    BY <1>2, <1>3, <1>4, <1>5, <1>6, <1>7, Zenon DEF NdxForm

\* A body is read back as the index it was made from.
BodyForm(b, abs, base) ==
    /\ b[1] # 255 /\ b[1] # 0
    /\ Len(b) = IF b[1] # 254 THEN 1 ELSE IF b[2] >= 128 THEN 5 ELSE 3
    /\ NdxValue(b, base) = abs

LEMMA BodyFacts ==
    ASSUME NEW b \in Seq(Bytes), NEW abs \in Int, NEW base \in Int, IsBody(b, abs, base)
    PROVE  BodyForm(b, abs, base)
<1>1. ASSUME NEW d \in Bytes, 0 < d /\ d < 254 /\ b = <<d>> /\ abs = base + d
      PROVE  b[1] # 255 /\ b[1] # 0 /\ b[1] # 254 /\ Len(b) = 1 /\ abs = base + b[1]
    BY <1>1, ByteRange, SMT
<1>2. ASSUME NEW h \in Bytes, NEW l \in Bytes,
             h < 128 /\ b = <<254, h, l>> /\ abs = base + 256 * h + l
      PROVE  b[1] = 254 /\ Len(b) = 3 /\ b[2] < 128 /\ abs = base + 256 * b[2] + b[3] /\ b[2] \in Int
    BY <1>2, ByteRange, SMT
<1>3. ASSUME NEW b1 \in Bytes, NEW b2 \in Bytes, NEW b3 \in Bytes, NEW b4 \in Bytes,
             b4 < 128, b = <<254, b4 + 128, b1, b2, b3>>,
             abs = b1 + 256 * (b2 + 256 * (b3 + 256 * b4))
      PROVE  /\ b[1] = 254 /\ Len(b) = 5 /\ b[2] >= 128
             /\ IntOf(<<b[3], b[4], b[5], b[2] - 128>>) = abs
    <2>1. b[1] = 254 /\ Len(b) = 5 /\ b[2] = b4 + 128 /\ b[3] = b1 /\ b[4] = b2 /\ b[5] = b3
        BY <1>3, SMT
    <2>2. b4 \in Int /\ b4 >= 0 /\ b4 + 128 >= 128 /\ (b4 + 128) - 128 = b4
        BY ByteRange, SMT
    <2>3. IntOf(<<b1, b2, b3, b4>>) = abs
        BY <1>3, SMT DEF IntOf
    <2> QED
        BY <2>1, <2>2, <2>3, SMT
<1>4. CASE \E d \in Bytes : 0 < d /\ d < 254 /\ b = <<d>> /\ abs = base + d
    BY <1>1, <1>4, SMT DEF NdxValue, BodyForm
<1>5. CASE \E h, l \in Bytes : h < 128 /\ b = <<254, h, l>> /\ abs = base + 256 * h + l
    BY <1>2, <1>5, SMT DEF NdxValue, BodyForm
<1>6. CASE \E b1, b2, b3, b4 \in Bytes :
           /\ b4 < 128 /\ b = <<254, b4 + 128, b1, b2, b3>>
           /\ abs = b1 + 256 * (b2 + 256 * (b3 + 256 * b4))
    BY <1>3, <1>6, SMT DEF NdxValue, BodyForm
<1> QED
    BY <1>4, <1>5, <1>6, SMT DEF IsBody

\* Four bytes are a sequence.
LEMMA FourBytes ==
    ASSUME NEW f \in [1..4 -> Bytes]
    PROVE  f \in Seq(Bytes) /\ Len(f) = 4
<1>1. [i \in 1..4 |-> f[i]] \in Seq(Bytes) /\ Len([i \in 1..4 |-> f[i]]) = 4
    OBVIOUS
<1>2. f = [i \in 1..4 |-> f[i]]
    OBVIOUS
<1> QED
    BY <1>1, <1>2, Zenon

\* read_ndx takes exactly what write_ndx wrote, from the same base, and both keep the
\* same next one.
Decodes(ndx, st, codec, w) ==
    /\ w.bytes \in Seq(Bytes) /\ Len(w.bytes) >= 1 /\ Len(w.bytes) <= 6
    /\ w.state \in NdxStates
    /\ NdxLength(w.bytes, codec) = Len(w.bytes)
    /\ read_ndx(w.bytes, st, codec).ndx = ndx
    /\ read_ndx(w.bytes, st, codec).state = w.state

LEMMA NdxRoundTrip ==
    ASSUME NEW ndx \in Indices, NEW st \in NdxStates, NEW codec, NEW w, w = write_ndx(ndx, st, codec)
    PROVE  Decodes(ndx, st, codec, w)
<1> SUFFICES /\ w.bytes \in Seq(Bytes) /\ Len(w.bytes) >= 1 /\ Len(w.bytes) <= 6
             /\ w.state \in NdxStates
             /\ NdxLength(w.bytes, codec) = Len(w.bytes)
             /\ read_ndx(w.bytes, st, codec).ndx = ndx
             /\ read_ndx(w.bytes, st, codec).state = w.state
    BY Zenon DEF Decodes
<1> DEFINE t == w.bytes
           r == read_ndx(t, st, codec)
<1>0. NdxForm(ndx, st, codec, w)
    BY NdxForms, Zenon
<1>1. ndx \in Int
    BY IndexRange, SMT
<1>2. CASE codec = "Fixed"
    <2>1. t = BytesOf(ndx) /\ w.state = st
        BY <1>2, <1>0 DEF NdxForm
    <2>2. -2147483649 < ndx /\ ndx < 2147483648
        BY IndexRange, SMT
    <2>3. t \in [1..4 -> Bytes] /\ IntOf(t) = ndx
        BY <1>1, <2>1, <2>2, IntRoundTrip, SMT
    <2>4. t \in Seq(Bytes) /\ Len(t) = 4
        BY <2>3, FourBytes, Zenon
    <2>5. NdxLength(t, codec) = 4
        BY <1>2, Zenon DEF NdxLength
    <2>6. r.ndx = ndx /\ r.state = st
        BY <1>2, <2>3, Zenon DEF read_ndx
    <2> QED
        BY <2>1, <2>4, <2>5, <2>6, SMT
<1>3. CASE codec # "Fixed" /\ ndx = -1
    <2>1. t = <<0>> /\ w.state = st
        BY <1>3, <1>0 DEF NdxForm
    <2>2. t[1] = 0 /\ Len(t) = 1 /\ t # <<>> /\ t \in Seq(Bytes)
        BY <2>1, ByteRange, SMT
    <2>3. NdxLength(t, codec) = 1
        BY <1>3, <2>2, Zenon DEF NdxLength
    <2>4. r.ndx = NDX_DONE /\ r.state = st
        BY <1>3, <2>2, Zenon DEF read_ndx
    <2>5. NDX_DONE = ndx
        BY <1>3, SMT DEF NDX_DONE
    <2> QED
        BY <2>1, <2>2, <2>3, <2>4, <2>5, SMT
<1>4. ASSUME codec # "Fixed", ndx < -1
      PROVE  /\ t \in Seq(Bytes) /\ Len(t) >= 1 /\ Len(t) <= 6
             /\ w.state \in NdxStates /\ NdxLength(t, codec) = Len(t)
             /\ r.ndx = ndx /\ r.state = w.state
    <2> DEFINE abs == -ndx
    <2>1. abs \in Int /\ -abs = ndx
        BY <1>1, SMT
    <2> HIDE DEF abs
    <2>2. w.state = [st EXCEPT !.negative = abs]
        BY <1>4, <1>0 DEF NdxForm, abs
    <2>3. PICK b \in Seq(Bytes) : t = <<255>> \o b /\ IsBody(b, abs, st.negative)
        BY <1>4, <1>0 DEF NdxForm, abs
    <2>4. st.negative \in Int /\ w.state \in NdxStates
        BY <2>1, <2>2, SMT DEF NdxStates
    <2>5. /\ NdxValue(b, st.negative) = abs
          /\ Len(b) = IF b[1] # 254 THEN 1 ELSE IF b[2] >= 128 THEN 5 ELSE 3
        <3>1. BodyForm(b, abs, st.negative)
            BY <2>1, <2>3, <2>4, BodyFacts, Zenon
        <3> QED
            BY <3>1, Zenon DEF BodyForm
    <2>6. Len(b) = 1 \/ (Len(b) > 1 /\ Len(b) <= 5)
        BY <2>5, SMT
    <2>7. 255 \in Bytes
        BY ByteRange, SMT
    <2> HIDE DEF t
    <2>8. t \in Seq(Bytes) /\ Len(t) = 1 + Len(b) /\ t[1] = 255 /\ Tail(t) = b
        BY <2>3, <2>7, SMT DEF t
    <2>9. t # <<>> /\ t[1] # 0 /\ (Len(b) >= 1 => t[2] = b[1]) /\ (Len(b) >= 2 => t[3] = b[2])
        BY <2>3, <2>7, <2>8, SMT DEF t
    <2>10. NdxLength(t, codec) = IF Len(t) < 1 + 1 THEN 1 + 1
                                 ELSE IF t[1 + 1] # 254 THEN 1 + 1
                                 ELSE IF Len(t) < 1 + 2 THEN 1 + 3
                                 ELSE IF t[1 + 2] >= 128 THEN 1 + 5 ELSE 1 + 3
        BY <1>4, <2>8, <2>9, Zenon DEF NdxLength
    <2>11. NdxLength(t, codec) = Len(t)
        BY <2>5, <2>6, <2>8, <2>9, <2>10, SMT
    <2>12. r.ndx = -abs /\ r.state = [st EXCEPT !.negative = abs]
        BY <1>4, <2>5, <2>8, <2>9, Zenon DEF read_ndx
    <2>13. Len(t) >= 1 /\ Len(t) <= 6
        BY <2>6, <2>8, SMT
    <2> QED
        BY <2>1, <2>2, <2>4, <2>8, <2>11, <2>12, <2>13, Zenon
<1>5. ASSUME codec # "Fixed", ndx >= 0
      PROVE  /\ t \in Seq(Bytes) /\ Len(t) >= 1 /\ Len(t) <= 6
             /\ w.state \in NdxStates /\ NdxLength(t, codec) = Len(t)
             /\ r.ndx = ndx /\ r.state = w.state
    <2>1. w.state = [st EXCEPT !.positive = ndx] /\ t \in Seq(Bytes) /\ IsBody(t, ndx, st.positive)
        BY <1>5, <1>0 DEF NdxForm
    <2>2. st.positive \in Int /\ w.state \in NdxStates
        BY <1>1, <2>1, SMT DEF NdxStates
    <2>3. /\ NdxValue(t, st.positive) = ndx /\ t[1] # 255 /\ t[1] # 0
          /\ Len(t) = IF t[1] # 254 THEN 1 ELSE IF t[2] >= 128 THEN 5 ELSE 3
        <3>1. BodyForm(t, ndx, st.positive)
            BY <1>1, <2>1, <2>2, BodyFacts, Zenon
        <3> QED
            BY <3>1, Zenon DEF BodyForm
    <2> HIDE DEF t
    <2>4. PICK n \in {1, 3, 5} : Len(t) = n
        BY <2>3, SMT
    <2>5. t # <<>>
        BY <2>4, SMT
    <2>6. NdxLength(t, codec) = IF Len(t) < 0 + 1 THEN 0 + 1
                                ELSE IF t[0 + 1] # 254 THEN 0 + 1
                                ELSE IF Len(t) < 0 + 2 THEN 0 + 3
                                ELSE IF t[0 + 2] >= 128 THEN 0 + 5 ELSE 0 + 3
        BY <1>5, <2>3, <2>5, Zenon DEF NdxLength
    <2>7. NdxLength(t, codec) = Len(t)
        BY <2>3, <2>4, <2>6, SMT
    <2>8. r.ndx = ndx /\ r.state = [st EXCEPT !.positive = ndx]
        BY <1>5, <2>3, Zenon DEF read_ndx
    <2>9. Len(t) >= 1 /\ Len(t) <= 6
        <3>1. n >= 1 /\ n <= 6
            BY SMT
        <3> QED
            BY <2>4, <3>1, Zenon
    <2> QED
        BY <2>1, <2>2, <2>7, <2>8, <2>9, Zenon
<1>6. codec = "Fixed" \/ ndx = -1 \/ ndx < -1 \/ ndx >= 0
    BY <1>0 DEF NdxForm
<1> QED
    BY <1>2, <1>3, <1>4, <1>5, <1>6, Zenon

-----------------------------------------------------------------------------
\* Sequences cut into pieces.

\* ps are the consecutive, nonempty slices of s from a to b.
Pieces(s, a, b, ps) ==
    /\ ps \in Seq(Seq(Bytes)) /\ a \in 0..Len(s) /\ b \in a..Len(s)
    /\ \E c \in [0..Len(ps) -> a..b] :
          /\ c[0] = a /\ c[Len(ps)] = b
          /\ \A i \in 1..Len(ps) : c[i - 1] < c[i] /\ ps[i] = Slice(s, c[i - 1], c[i])

\* No pieces.
LEMMA PiecesNone ==
    ASSUME NEW s \in Seq(Bytes), NEW a \in 0..Len(s)
    PROVE  /\ Pieces(s, a, a, <<>>)
           /\ \A b : Pieces(s, a, b, <<>>) => b = a
<1>1. Len(<<>>) = 0 /\ <<>> \in Seq(Seq(Bytes))
    OBVIOUS
<1>2. a \in a..Len(s)
    OBVIOUS
<1>3. \E c \in [0..0 -> a..a] : c[0] = a
    <2>1. [i \in 0..0 |-> a] \in [0..0 -> a..a] /\ [i \in 0..0 |-> a][0] = a
        OBVIOUS
    <2> QED
        BY <2>1, Zenon
<1>4. Pieces(s, a, a, <<>>)
    <2>1. \A i \in 1..0 : FALSE
        OBVIOUS
    <2> QED
        BY <1>1, <1>2, <1>3, <2>1 DEF Pieces
<1>5. ASSUME NEW b, Pieces(s, a, b, <<>>)
      PROVE  b = a
    BY <1>1, <1>5 DEF Pieces
<1> QED
    BY <1>4, <1>5

\* One piece.
LEMMA PiecesOne ==
    ASSUME NEW s \in Seq(Bytes), NEW a \in 0..Len(s), NEW b \in a..Len(s), a < b
    PROVE  Pieces(s, a, b, <<Slice(s, a, b)>>)
<1> DEFINE ps == <<Slice(s, a, b)>>
           c == [i \in 0..1 |-> IF i = 0 THEN a ELSE b]
<1>1. Slice(s, a, b) \in Seq(Bytes)
    BY SliceFacts
<1>2. ps \in Seq(Seq(Bytes)) /\ Len(ps) = 1 /\ ps[1] = Slice(s, a, b)
    BY <1>1
<1>3. c \in [0..1 -> a..b] /\ c[0] = a /\ c[1] = b
    OBVIOUS
<1> HIDE DEF ps, c
<1>4. \A i \in 1..1 : c[i - 1] < c[i] /\ ps[i] = Slice(s, c[i - 1], c[i])
    BY <1>2, <1>3
<1> QED
    BY <1>2, <1>3, <1>4 DEF Pieces, ps

\* Pieces after pieces.
LEMMA PiecesCat ==
    ASSUME NEW s \in Seq(Bytes), NEW a, NEW b, NEW d, NEW ps, NEW qs,
           Pieces(s, a, b, ps), Pieces(s, b, d, qs)
    PROVE  Pieces(s, a, d, ps \o qs)
<1>1. /\ ps \in Seq(Seq(Bytes)) /\ qs \in Seq(Seq(Bytes))
      /\ a \in 0..Len(s) /\ b \in a..Len(s) /\ d \in b..Len(s)
    BY DEF Pieces
<1>2. PICK c \in [0..Len(ps) -> a..b] :
          /\ c[0] = a /\ c[Len(ps)] = b
          /\ \A i \in 1..Len(ps) : c[i - 1] < c[i] /\ ps[i] = Slice(s, c[i - 1], c[i])
    BY Zenon DEF Pieces
<1>3. PICK e \in [0..Len(qs) -> b..d] :
          /\ e[0] = b /\ e[Len(qs)] = d
          /\ \A i \in 1..Len(qs) : e[i - 1] < e[i] /\ qs[i] = Slice(s, e[i - 1], e[i])
    BY Zenon DEF Pieces
<1>4. PICK m \in Nat, n \in Nat : m = Len(ps) /\ n = Len(qs)
    BY <1>1
<1> DEFINE f == [i \in 0..(m + n) |-> IF i <= m THEN c[i] ELSE e[i - m]]
           t == ps \o qs
<1>5. f \in [0..(m + n) -> a..d]
    <2>1. ASSUME NEW i \in 0..(m + n)
          PROVE  (IF i <= m THEN c[i] ELSE e[i - m]) \in a..d
        <3>1. CASE i <= m
            <4>0. i \in 0..m
                BY <3>1
            <4>1. c[i] \in a..b
                BY <1>4, <4>0
            <4> QED
                BY <1>1, <3>1, <4>1
        <3>2. CASE ~(i <= m)
            <4>1. i - m \in 0..n
                BY <3>2
            <4>2. e[i - m] \in b..d
                BY <1>3, <1>4, <4>1, Zenon
            <4> QED
                BY <1>1, <3>2, <4>2
        <3> QED
            BY <3>1, <3>2
    <2> QED
        BY <2>1
<1>6. t \in Seq(Seq(Bytes)) /\ Len(t) = m + n
    BY <1>1, <1>4
<1>7. f[0] = a /\ f[m + n] = d
    <2>1. f[0] = c[0]
        OBVIOUS
    <2>2. CASE n = 0
        <3>1. f[m + n] = c[m] /\ b = d
            BY <1>3, <1>4, <2>2
        <3> QED
            BY <1>2, <1>4, <2>1, <3>1
    <2>3. CASE n # 0
        <3>1. f[m + n] = e[n]
            BY <2>3
        <3> QED
            BY <1>2, <1>3, <1>4, <2>1, <3>1
    <2> QED
        BY <2>2, <2>3
<1>8. ASSUME NEW i \in 1..(m + n)
      PROVE  f[i - 1] < f[i] /\ t[i] = Slice(s, f[i - 1], f[i])
    <2>1. CASE i <= m
        <3>1. f[i] = c[i] /\ f[i - 1] = c[i - 1]
            BY <2>1
        <3>2. t[i] = ps[i]
            BY <1>1, <1>4, <2>1
        <3> HIDE DEF f, t
        <3> QED
            BY <1>2, <1>4, <2>1, <3>1, <3>2
    <2>2. CASE ~(i <= m)
        <3>1. i - m \in 1..n /\ (i - m) - 1 = (i - 1) - m
            BY <2>2
        <3>2. f[i] = e[i - m]
            BY <2>2
        <3>3. f[i - 1] = e[(i - m) - 1]
            <4>1. CASE i - 1 <= m
                <5>1. i - 1 = m
                    BY <2>2, <4>1
                <5>2. f[i - 1] = c[m] /\ (i - m) - 1 = 0
                    BY <5>1
                <5> QED
                    BY <1>2, <1>3, <1>4, <5>2
            <4>2. CASE ~(i - 1 <= m)
                BY <3>1, <4>2
            <4> QED
                BY <4>1, <4>2
        <3>4. t[i] = qs[i - m]
            BY <1>1, <1>4, <2>2
        <3> HIDE DEF f, t
        <3> QED
            BY <1>3, <1>4, <3>1, <3>2, <3>3, <3>4
    <2> QED
        BY <2>1, <2>2, Zenon
<1>9. d \in a..Len(s)
    BY <1>1
<1> HIDE DEF f, t
<1>10. Pieces(s, a, d, t)
    BY <1>1, <1>5, <1>6, <1>7, <1>8, <1>9, Zenon DEF Pieces
<1> QED
    BY <1>10 DEF t

\* The first piece and the others.
LEMMA PiecesHead ==
    ASSUME NEW s \in Seq(Bytes), NEW a, NEW b, NEW ps, Pieces(s, a, b, ps), ps # <<>>
    PROVE  \E m \in a..b :
               /\ a < m /\ Head(ps) = Slice(s, a, m) /\ ps[1] = Head(ps)
               /\ Pieces(s, m, b, Tail(ps))
<1>1. ps \in Seq(Seq(Bytes)) /\ a \in 0..Len(s) /\ b \in a..Len(s)
    BY DEF Pieces
<1>2. PICK n \in Nat : n = Len(ps) /\ n > 0
    BY <1>1
<1>3. PICK c \in [0..n -> a..b] :
          /\ c[0] = a /\ c[n] = b
          /\ \A i \in 1..n : c[i - 1] < c[i] /\ ps[i] = Slice(s, c[i - 1], c[i])
    BY <1>2, Zenon DEF Pieces
<1> DEFINE m == c[1]
           f == [i \in 0..(n - 1) |-> c[i + 1]]
           t == Tail(ps)
<1>4. 1 \in 1..n /\ 1 \in 0..n /\ 1 - 1 = 0
    BY <1>2
<1>5. m \in a..b /\ a < m /\ ps[1] = Slice(s, a, m)
    BY <1>3, <1>4
<1>6. t \in Seq(Seq(Bytes)) /\ Len(t) = n - 1 /\ (\A i \in 1..(n - 1) : t[i] = ps[i + 1]) /\ Head(ps) = ps[1]
    BY <1>1, <1>2
<1>7. \A i \in 1..n : c[1] <= c[i]
    <2> DEFINE T == {i \in Nat : i + 1 <= n => c[1] <= c[i + 1]}
    <2>1. 0 \in T
        BY <1>4, <1>5
    <2>2. ASSUME NEW i \in Nat, i \in T
          PROVE  i + 1 \in T
        <3>1. CASE (i + 1) + 1 <= n
            <4>1. (i + 1) + 1 \in 1..n /\ ((i + 1) + 1) - 1 = i + 1 /\ i + 1 \in 0..n /\ (i + 1) + 1 \in 0..n
                BY <3>1
            <4>2. c[i + 1] < c[(i + 1) + 1] /\ c[1] <= c[i + 1]
                BY <1>3, <2>2, <3>1, <4>1
            <4>3. c[1] \in Int /\ c[i + 1] \in Int /\ c[(i + 1) + 1] \in Int
                BY <1>1, <1>4, <4>1
            <4> QED
                BY <4>2, <4>3
        <3>2. CASE ~((i + 1) + 1 <= n)
            BY <3>2
        <3> QED
            BY <3>1, <3>2
    <2> HIDE DEF T
    <2>3. Nat \subseteq T
        BY <2>1, <2>2, SetInduction
    <2>4. ASSUME NEW i \in 1..n
          PROVE  c[1] <= c[i]
        <3>1. i - 1 \in Nat /\ (i - 1) + 1 = i /\ i <= n
            OBVIOUS
        <3> QED
            BY <2>3, <3>1 DEF T
    <2> QED
        BY <2>4
<1>8. f \in [0..(n - 1) -> m..b]
    <2>1. ASSUME NEW i \in 0..(n - 1)
          PROVE  c[i + 1] \in m..b
        <3>1. i + 1 \in 1..n /\ i + 1 \in 0..n
            BY <1>2
        <3>2. c[i + 1] \in a..b /\ c[1] <= c[i + 1]
            BY <1>3, <1>7, <3>1
        <3> QED
            BY <1>1, <1>5, <3>2
    <2> HIDE DEF m
    <2> QED
        BY <2>1
<1>9. f[0] = m /\ f[n - 1] = b
    <2>1. 0 \in 0..(n - 1) /\ n - 1 \in 0..(n - 1) /\ (n - 1) + 1 = n
        BY <1>2
    <2> QED
        BY <1>3, <2>1
<1>10. ASSUME NEW i \in 1..(n - 1)
       PROVE  f[i - 1] < f[i] /\ t[i] = Slice(s, f[i - 1], f[i])
    <2>1. i + 1 \in 1..n /\ (i + 1) - 1 = i /\ (i - 1) + 1 = i
        BY <1>2
    <2>2. f[i] = c[i + 1] /\ f[i - 1] = c[i]
        <3>1. i \in 0..(n - 1) /\ i - 1 \in 0..(n - 1)
            BY <1>2
        <3> QED
            BY <2>1, <3>1
    <2>3. t[i] = ps[i + 1]
        BY <1>6
    <2> HIDE DEF f, t
    <2> QED
        BY <1>3, <2>1, <2>2, <2>3
<1>11. m \in 0..Len(s) /\ b \in m..Len(s)
    BY <1>1, <1>5
<1> HIDE DEF f, t, m
<1>12. Pieces(s, m, b, t)
    <2>1. t \in Seq(Seq(Bytes)) /\ Len(t) = n - 1
        BY <1>6
    <2>2. /\ f \in [0..Len(t) -> m..b] /\ f[0] = m /\ f[Len(t)] = b
          /\ \A i \in 1..Len(t) : f[i - 1] < f[i] /\ t[i] = Slice(s, f[i - 1], f[i])
        BY <1>8, <1>9, <1>10, <2>1, Zenon
    <2> QED
        BY <1>11, <2>1, <2>2, Zenon DEF Pieces
<1> QED
    BY <1>5, <1>6, <1>12 DEF t

\* More elements at the end leave the pieces as they are.
LEMMA PiecesKept ==
    ASSUME NEW s \in Seq(Bytes), NEW t \in Seq(Bytes), NEW a, NEW b, NEW ps, Pieces(s, a, b, ps)
    PROVE  Pieces(s \o t, a, b, ps)
<1>1. ps \in Seq(Seq(Bytes)) /\ a \in 0..Len(s) /\ b \in a..Len(s)
    BY DEF Pieces
<1>2. PICK c \in [0..Len(ps) -> a..b] :
          /\ c[0] = a /\ c[Len(ps)] = b
          /\ \A i \in 1..Len(ps) : c[i - 1] < c[i] /\ ps[i] = Slice(s, c[i - 1], c[i])
    BY Zenon DEF Pieces
<1>3. a \in 0..Len(s \o t) /\ b \in a..Len(s \o t)
    BY <1>1
<1>4. ASSUME NEW i \in 1..Len(ps)
      PROVE  Slice(s \o t, c[i - 1], c[i]) = Slice(s, c[i - 1], c[i])
    <2>1. i - 1 \in 0..Len(ps) /\ i \in 0..Len(ps)
        BY <1>1
    <2>2. c[i - 1] \in a..b /\ c[i] \in a..b /\ c[i - 1] < c[i]
        BY <1>2, <2>1
    <2>3. c[i - 1] \in 0..Len(s) /\ c[i] \in c[i - 1]..Len(s)
        BY <1>1, <2>2
    <2> QED
        BY <2>3, SliceKept
<1>5. \A i \in 1..Len(ps) : c[i - 1] < c[i] /\ ps[i] = Slice(s \o t, c[i - 1], c[i])
    BY <1>2, <1>4, Zenon
<1> QED
    BY <1>1, <1>2, <1>3, <1>5, Zenon DEF Pieces

-----------------------------------------------------------------------------
\* Frames.

\* The bytes of wire from a to b are a frame, and its data is what snt has from c to
\* d; a control message has none.
FrameAt(wire, snt, a, b, c, d) ==
    /\ a + 4 <= b
    /\ wire[a + 1] + 256 * (wire[a + 2] + 256 * wire[a + 3]) = b - (a + 4)
    /\ IF wire[a + 4] = MPLEX_BASE + DataCode
       THEN c < d /\ Slice(wire, a + 4, b) = Slice(snt, c, d)
       ELSE d = c

\* wire is n frames, which carry snt; cut and dp are where each of them ends.
Framed(wire, snt, n, cut, dp) ==
    /\ wire \in Seq(Bytes) /\ snt \in Seq(Bytes) /\ n \in Nat
    /\ cut \in [0..n -> 0..Len(wire)] /\ dp \in [0..n -> 0..Len(snt)]
    /\ cut[n] = Len(wire) /\ dp[n] = Len(snt)
    /\ \A k \in 1..n : FrameAt(wire, snt, cut[k - 1], cut[k], dp[k - 1], dp[k])

\* A frame stays what it is.
LEMMA FrameKept ==
    ASSUME NEW wire \in Seq(Bytes), NEW snt \in Seq(Bytes), NEW v \in Seq(Bytes), NEW t \in Seq(Bytes),
           NEW a \in 0..Len(wire), NEW b \in 0..Len(wire), NEW c \in 0..Len(snt), NEW d \in 0..Len(snt),
           FrameAt(wire, snt, a, b, c, d)
    PROVE  FrameAt(wire \o v, snt \o t, a, b, c, d)
<1> DEFINE w2 == wire \o v
           s2 == snt \o t
<1>1. a + 4 <= b
    BY DEF FrameAt
<1>2. w2[a + 1] = wire[a + 1] /\ w2[a + 2] = wire[a + 2] /\ w2[a + 3] = wire[a + 3] /\ w2[a + 4] = wire[a + 4]
    BY <1>1
<1>3. a + 4 \in 0..Len(wire) /\ b \in (a + 4)..Len(wire)
    BY <1>1
<1>4. Slice(w2, a + 4, b) = Slice(wire, a + 4, b)
    BY <1>3, SliceKept
<1>5. c < d => Slice(s2, c, d) = Slice(snt, c, d)
    <2> SUFFICES ASSUME c < d
                 PROVE  Slice(s2, c, d) = Slice(snt, c, d)
        OBVIOUS
    <2>1. d \in c..Len(snt)
        OBVIOUS
    <2> QED
        BY <2>1, SliceKept
<1> HIDE DEF w2, s2
<1>6. FrameAt(w2, s2, a, b, c, d)
    BY <1>2, <1>4, <1>5, Zenon DEF FrameAt
<1> QED
    BY <1>6 DEF w2, s2

\* One frame more.
LEMMA FramedMore ==
    ASSUME NEW wire, NEW snt, NEW n, NEW cut, NEW dp, Framed(wire, snt, n, cut, dp),
           NEW v \in Seq(Bytes), NEW t \in Seq(Bytes),
           FrameAt(wire \o v, snt \o t, Len(wire), Len(wire) + Len(v), Len(snt), Len(snt) + Len(t))
    PROVE  \E cut2, dp2 :
               /\ Framed(wire \o v, snt \o t, n + 1, cut2, dp2)
               /\ \A k \in 0..n : cut2[k] = cut[k] /\ dp2[k] = dp[k]
<1> DEFINE w2 == wire \o v
           s2 == snt \o t
           c2 == [k \in 0..(n + 1) |-> IF k <= n THEN cut[k] ELSE Len(w2)]
           d2 == [k \in 0..(n + 1) |-> IF k <= n THEN dp[k] ELSE Len(s2)]
<1>1. /\ wire \in Seq(Bytes) /\ snt \in Seq(Bytes) /\ n \in Nat
      /\ cut \in [0..n -> 0..Len(wire)] /\ dp \in [0..n -> 0..Len(snt)]
      /\ cut[n] = Len(wire) /\ dp[n] = Len(snt)
    BY DEF Framed
<1>2. \A k \in 1..n : FrameAt(wire, snt, cut[k - 1], cut[k], dp[k - 1], dp[k])
    BY DEF Framed
<1>3. w2 \in Seq(Bytes) /\ s2 \in Seq(Bytes) /\ Len(w2) = Len(wire) + Len(v) /\ Len(s2) = Len(snt) + Len(t)
    BY <1>1
<1>4. c2 \in [0..(n + 1) -> 0..Len(w2)] /\ d2 \in [0..(n + 1) -> 0..Len(s2)]
    <2>1. PICK x \in Nat, y \in Nat : x = Len(wire) /\ y = Len(w2) /\ x <= y
        BY <1>1, <1>3
    <2>2. PICK z \in Nat, u \in Nat : z = Len(snt) /\ u = Len(s2) /\ z <= u
        BY <1>1, <1>3
    <2>3. cut \in [0..n -> 0..x] /\ dp \in [0..n -> 0..z]
        BY <1>1, <2>1, <2>2, Zenon
    <2>4. [k \in 0..(n + 1) |-> IF k <= n THEN cut[k] ELSE y] \in [0..(n + 1) -> 0..y]
        BY <1>1, <2>1, <2>3
    <2>5. [k \in 0..(n + 1) |-> IF k <= n THEN dp[k] ELSE u] \in [0..(n + 1) -> 0..u]
        BY <1>1, <2>2, <2>3
    <2> QED
        BY <2>1, <2>2, <2>4, <2>5, Zenon
<1>5. (\A k \in 0..n : c2[k] = cut[k] /\ d2[k] = dp[k]) /\ c2[n + 1] = Len(w2) /\ d2[n + 1] = Len(s2)
    BY <1>1
<1> HIDE DEF c2, d2
<1>6. ASSUME NEW k \in 1..(n + 1)
      PROVE  FrameAt(w2, s2, c2[k - 1], c2[k], d2[k - 1], d2[k])
    <2>1. CASE k = n + 1
        <3>1. k - 1 = n /\ n \in 0..n
            BY <1>1, <2>1
        <3>2. c2[k - 1] = Len(wire) /\ d2[k - 1] = Len(snt)
            BY <1>1, <1>5, <3>1, Zenon
        <3>3. c2[k] = Len(wire) + Len(v) /\ d2[k] = Len(snt) + Len(t)
            BY <1>3, <1>5, <2>1, Zenon
        <3> QED
            BY <3>2, <3>3, Zenon
    <2>2. CASE k # n + 1
        <3>1. k \in 1..n /\ k \in 0..n /\ k - 1 \in 0..n
            BY <1>1, <2>2
        <3>2. FrameAt(wire, snt, cut[k - 1], cut[k], dp[k - 1], dp[k])
            BY <1>2, <3>1, Zenon
        <3>3. cut[k - 1] \in 0..Len(wire) /\ cut[k] \in 0..Len(wire) /\ dp[k - 1] \in 0..Len(snt) /\ dp[k] \in 0..Len(snt)
            BY <1>1, <3>1, Zenon
        <3>4. FrameAt(w2, s2, cut[k - 1], cut[k], dp[k - 1], dp[k])
            BY <1>1, <3>2, <3>3, FrameKept, Zenon
        <3> QED
            BY <1>5, <3>1, <3>4, Zenon
    <2> QED
        BY <2>1, <2>2
<1>7. n + 1 \in Nat
    BY <1>1
<1> HIDE DEF w2, s2
<1>8. Framed(w2, s2, n + 1, c2, d2)
    BY <1>3, <1>4, <1>5, <1>6, <1>7, Zenon DEF Framed
<1>9. Framed(wire \o v, snt \o t, n + 1, c2, d2)
    BY <1>8 DEF w2, s2
<1>10. \A k \in 0..n : c2[k] = cut[k] /\ d2[k] = dp[k]
    BY <1>5
<1> QED
    BY <1>9, <1>10, SMT

\* The length in a header is the length of the payload.
LEMMA HeaderBytes ==
    ASSUME NEW n \in Nat, n <= MAX_PAYLOAD
    PROVE  /\ Byte(n, 1) \in Bytes /\ Byte(n, 2) \in Bytes /\ Byte(n, 3) \in Bytes
           /\ Byte(n, 1) + 256 * (Byte(n, 2) + 256 * Byte(n, 3)) = n
<1>1. n < 4294967296 /\ n < 16777216
    BY SMT DEF MAX_PAYLOAD
<1>2. /\ Byte(n, 1) \in Bytes /\ Byte(n, 2) \in Bytes /\ Byte(n, 3) \in Bytes
      /\ n = Byte(n, 1) + 256 * (Byte(n, 2) + 256 * (Byte(n, 3) + 256 * Byte(n, 4)))
      /\ Byte(n, 4) = 0
    BY <1>1, ByteValues, SMT
<1>3. Byte(n, 3) \in Int
    BY <1>2, ByteRange, SMT
<1> QED
    BY <1>2, <1>3, SMT

\* A tag is a byte.
LEMMA TagByte ==
    ASSUME NEW code \in Int, 0 <= code, code <= 248
    PROVE  /\ MPLEX_BASE + code \in Bytes
           /\ MPLEX_BASE + code = MPLEX_BASE + DataCode <=> code = DataCode
BY ByteRange, SMT DEF MPLEX_BASE, DataCode

\* A header and what follows it.
LEMMA HeaderFirst ==
    ASSUME NEW h \in Seq(Bytes), Len(h) >= 4, NEW q \in Seq(Bytes)
    PROVE  /\ h \o q \in Seq(Bytes) /\ Len(h \o q) = Len(h) + Len(q)
           /\ (h \o q)[1] = h[1] /\ (h \o q)[2] = h[2] /\ (h \o q)[3] = h[3] /\ (h \o q)[4] = h[4]
           /\ Slice(h \o q, 0, Len(h)) = h /\ Slice(h \o q, Len(h), Len(h) + Len(q)) = q
<1>1. h \o q \in Seq(Bytes) /\ Len(h \o q) = Len(h) + Len(q)
    OBVIOUS
<1>2. (h \o q)[1] = h[1] /\ (h \o q)[2] = h[2] /\ (h \o q)[3] = h[3] /\ (h \o q)[4] = h[4]
    OBVIOUS
<1>3. 0 \in 0..Len(h) /\ Len(h) \in 0..Len(h)
    OBVIOUS
<1>4. Slice(h \o q, 0, Len(h)) = Slice(h, 0, Len(h)) /\ Slice(h, 0, Len(h)) = h
    BY <1>3, SliceKept, SliceEnds
<1>5. Slice(h \o q, Len(h), Len(h) + Len(q)) = q
    BY SliceNew
<1> QED
    BY <1>1, <1>2, <1>4, <1>5, Zenon

\* Its bytes behind others.
LEMMA HeaderBehind ==
    ASSUME NEW w \in Seq(Bytes), NEW v \in Seq(Bytes), Len(v) >= 4
    PROVE  /\ (w \o v)[Len(w) + 1] = v[1] /\ (w \o v)[Len(w) + 2] = v[2]
           /\ (w \o v)[Len(w) + 3] = v[3] /\ (w \o v)[Len(w) + 4] = v[4]
OBVIOUS

\* The data of a message.
DataOf(code, payload, t) == IF code = DataCode THEN t = payload /\ payload # <<>> ELSE t = <<>>

\* write_message makes a frame: of the data it was given, or of none.
LEMMA FrameMade ==
    ASSUME NEW wire \in Seq(Bytes), NEW snt \in Seq(Bytes), NEW payload \in Seq(Bytes),
           Len(payload) <= MAX_PAYLOAD, NEW code \in Int, 0 <= code, code <= 248, NEW t \in Seq(Bytes),
           DataOf(code, payload, t)
    PROVE  \E v \in Seq(Bytes) :
               /\ FrameAt(wire \o v, snt \o t, Len(wire), Len(wire) + Len(v), Len(snt), Len(snt) + Len(t))
               /\ Pieces(wire \o v, Len(wire), Len(wire) + Len(v), Frame(code, payload))
<1> DEFINE m == Len(payload)
           h == <<Byte(m, 1), Byte(m, 2), Byte(m, 3), MPLEX_BASE + code>>
           v == h \o payload
           w == wire \o v
<1>1. m \in Nat
    OBVIOUS
<1>2. /\ Byte(m, 1) \in Bytes /\ Byte(m, 2) \in Bytes /\ Byte(m, 3) \in Bytes
      /\ Byte(m, 1) + 256 * (Byte(m, 2) + 256 * Byte(m, 3)) = m
    BY <1>1, HeaderBytes
<1>3. MPLEX_BASE + code \in Bytes
    BY TagByte, Zenon
<1> HIDE DEF m
<1>4. /\ h \in Seq(Bytes) /\ Len(h) = 4
      /\ h[1] = Byte(m, 1) /\ h[2] = Byte(m, 2) /\ h[3] = Byte(m, 3) /\ h[4] = MPLEX_BASE + code
    BY <1>2, <1>3, SMT
<1> HIDE DEF h
<1>5. /\ v \in Seq(Bytes) /\ Len(v) = 4 + m
      /\ v[1] = h[1] /\ v[2] = h[2] /\ v[3] = h[3] /\ v[4] = h[4]
      /\ Slice(v, 0, 4) = h /\ Slice(v, 4, 4 + m) = payload
    <2>1. Len(h) >= 4
        BY <1>4
    <2>2. /\ v \in Seq(Bytes) /\ Len(v) = Len(h) + m
          /\ v[1] = h[1] /\ v[2] = h[2] /\ v[3] = h[3] /\ v[4] = h[4]
          /\ Slice(v, 0, Len(h)) = h /\ Slice(v, Len(h), Len(h) + m) = payload
        BY <1>4, <2>1, HeaderFirst, Zenon DEF m
    <2> QED
        BY <1>4, <2>2, Zenon
<1> HIDE DEF v
<1>7. PICK x \in Nat : x = Len(wire)
    OBVIOUS
<1>8. /\ w \in Seq(Bytes) /\ Len(w) = x + (4 + m)
      /\ w[x + 1] = v[1] /\ w[x + 2] = v[2] /\ w[x + 3] = v[3] /\ w[x + 4] = v[4]
    <2>1. Len(v) >= 4
        BY <1>1, <1>5
    <2>2. w[x + 1] = v[1] /\ w[x + 2] = v[2] /\ w[x + 3] = v[3] /\ w[x + 4] = v[4]
        BY <1>5, <1>7, <2>1, HeaderBehind, Zenon
    <2>3. w \in Seq(Bytes) /\ Len(w) = x + (4 + m)
        BY <1>5, <1>7, CatFacts, Zenon
    <2> QED
        BY <2>2, <2>3, Zenon
<1>9. Slice(w, x, x + (4 + m)) = v
    BY <1>5, <1>7, SliceNew, Zenon DEF w
<1> HIDE DEF w
<1>10. Slice(w, x, x + 4) = h /\ Slice(w, x + 4, x + (4 + m)) = payload
    <2>1. x \in 0..Len(w) /\ x + (4 + m) \in x..Len(w)
        BY <1>1, <1>8
    <2>2. 0 \in 0..((x + (4 + m)) - x) /\ 4 \in 0..((x + (4 + m)) - x)
        BY <1>1
    <2>3. 4 + m \in 4..((x + (4 + m)) - x)
        BY <1>1
    <2>4. w \in Seq(Bytes)
        BY <1>8, Zenon
    <2>5. 4 \in 0..((x + (4 + m)) - x)
        BY <2>2, Zenon
    <2>6. CutAt(w, x, x + (4 + m), 4, v)
        BY <1>9, <2>1, <2>4, <2>5, SliceCut, Zenon
    <2>7. 0 + 1 = 1 /\ Len(v) = 4 + m
        BY <1>5
    <2>8. Slice(v, 0, 4) = SubSeq(v, 1, 4) /\ Slice(v, 4, 4 + m) = From(v, 4 + 1)
        BY <2>7, Zenon DEF Slice, From
    <2> QED
        BY <1>5, <2>6, <2>8, Zenon DEF CutAt
<1>11. /\ x + 4 <= x + (4 + m)
       /\ w[x + 1] + 256 * (w[x + 2] + 256 * w[x + 3]) = (x + (4 + m)) - (x + 4)
    <2>1. w[x + 1] = Byte(m, 1) /\ w[x + 2] = Byte(m, 2) /\ w[x + 3] = Byte(m, 3)
        BY <1>4, <1>5, <1>8, Zenon
    <2>2. (x + (4 + m)) - (x + 4) = m /\ x + 4 <= x + (4 + m)
        BY <1>1
    <2> QED
        BY <1>2, <2>1, <2>2, Zenon
<1>12. w[x + 4] = MPLEX_BASE + code
    BY <1>4, <1>5, <1>8, Zenon
<1>13. w[x + 4] = MPLEX_BASE + DataCode <=> code = DataCode
    BY <1>12, TagByte, Zenon
<1>14. FrameAt(w, snt \o t, x, x + (4 + m), Len(snt), Len(snt) + Len(t))
    <2>1. CASE code = DataCode
        <3>1. t = payload /\ Len(t) = m /\ m > 0
            BY <2>1 DEF m, DataOf
        <3>2. Slice(snt \o t, Len(snt), Len(snt) + Len(t)) = payload
            BY <3>1, SliceNew
        <3>3. Len(snt) < Len(snt) + Len(t)
            BY <1>1, <3>1
        <3> QED
            BY <1>10, <1>11, <1>13, <2>1, <3>2, <3>3, Zenon DEF FrameAt
    <2>2. CASE code # DataCode
        <3>1. Len(snt) + Len(t) = Len(snt)
            BY <2>2 DEF DataOf
        <3> QED
            BY <1>11, <1>13, <2>2, <3>1, Zenon DEF FrameAt
    <2> QED
        BY <2>1, <2>2
<1>15. Pieces(w, x, x + (4 + m), Frame(code, payload))
    <2>1. x \in 0..Len(w) /\ x + 4 \in x..Len(w) /\ x < x + 4
        BY <1>1, <1>8
    <2>2. Pieces(w, x, x + 4, <<h>>)
        BY <1>8, <1>10, <2>1, PiecesOne
    <2>3. CASE payload = <<>>
        <3>1. m = 0 /\ x + (4 + m) = x + 4
            BY <2>3 DEF m
        <3>2. Frame(code, payload) = <<h>>
            BY <2>3, Zenon DEF Frame, h, m
        <3> QED
            BY <2>2, <3>1, <3>2, Zenon
    <2>4. CASE payload # <<>>
        <3>1. m > 0
            BY <2>4 DEF m
        <3>2. x + 4 \in 0..Len(w) /\ x + (4 + m) \in (x + 4)..Len(w) /\ x + 4 < x + (4 + m)
            BY <1>1, <1>8, <3>1
        <3>3. Pieces(w, x + 4, x + (4 + m), <<payload>>)
            BY <1>8, <1>10, <3>2, PiecesOne
        <3>4. Pieces(w, x, x + (4 + m), <<h>> \o <<payload>>)
            BY <1>8, <2>2, <3>3, PiecesCat
        <3>5. Frame(code, payload) = <<h, payload>>
            BY <2>4, Zenon DEF Frame, h, m
        <3>6. <<h>> \o <<payload>> = <<h, payload>>
            BY <1>4, PairCat
        <3> QED
            BY <3>4, <3>5, <3>6, Zenon
    <2> QED
        BY <2>3, <2>4
<1> QED
    <2>1. x + (4 + m) = Len(wire) + Len(v)
        BY <1>5, <1>7
    <2> QED
        BY <1>5, <1>7, <1>14, <1>15, <2>1, Zenon DEF w

\* More frames, given to write_all as the buffers td.
Grown(wire, snt, n, cut, dp, wire2, snt2, n2, cut2, dp2, td) ==
    /\ Framed(wire, snt, n, cut, dp) /\ Framed(wire2, snt2, n2, cut2, dp2) /\ n <= n2
    /\ \E v \in Seq(Bytes) : wire2 = wire \o v
    /\ \E t \in Seq(Bytes) : snt2 = snt \o t
    /\ \A k \in 0..n : cut2[k] = cut[k] /\ dp2[k] = dp[k]
    /\ Pieces(wire2, Len(wire), Len(wire2), td)

\* Nothing more.
LEMMA GrownNone ==
    ASSUME NEW wire, NEW snt, NEW n, NEW cut, NEW dp, Framed(wire, snt, n, cut, dp)
    PROVE  Grown(wire, snt, n, cut, dp, wire, snt, n, cut, dp, <<>>)
<1>1. wire \in Seq(Bytes) /\ snt \in Seq(Bytes) /\ n \in Nat
    BY DEF Framed
<1>2. <<>> \in Seq(Bytes) /\ wire = wire \o <<>> /\ snt = snt \o <<>> /\ Len(wire) \in 0..Len(wire) /\ n <= n
    BY <1>1
<1>3. Pieces(wire, Len(wire), Len(wire), <<>>)
    BY <1>1, <1>2, PiecesNone
<1> QED
    BY <1>2, <1>3, Zenon DEF Grown

\* One frame after others.
LEMMA GrownFrame ==
    ASSUME NEW wire, NEW snt, NEW n, NEW cut, NEW dp, NEW wire2, NEW snt2, NEW n2, NEW cut2, NEW dp2, NEW td,
           Grown(wire, snt, n, cut, dp, wire2, snt2, n2, cut2, dp2, td),
           NEW payload \in Seq(Bytes), Len(payload) <= MAX_PAYLOAD,
           NEW code \in Int, 0 <= code, code <= 248, NEW t \in Seq(Bytes), DataOf(code, payload, t)
    PROVE  \E wire3, n3, cut3, dp3 :
               Grown(wire, snt, n, cut, dp, wire3, snt2 \o t, n3, cut3, dp3, td \o Frame(code, payload))
<1>1. wire2 \in Seq(Bytes) /\ snt2 \in Seq(Bytes) /\ n2 \in Nat /\ wire \in Seq(Bytes) /\ snt \in Seq(Bytes) /\ n \in Nat
    BY DEF Grown, Framed
<1>2. PICK v \in Seq(Bytes) :
          /\ FrameAt(wire2 \o v, snt2 \o t, Len(wire2), Len(wire2) + Len(v), Len(snt2), Len(snt2) + Len(t))
          /\ Pieces(wire2 \o v, Len(wire2), Len(wire2) + Len(v), Frame(code, payload))
    BY <1>1, FrameMade
<1>3. PICK cut3, dp3 :
          /\ Framed(wire2 \o v, snt2 \o t, n2 + 1, cut3, dp3)
          /\ \A k \in 0..n2 : cut3[k] = cut2[k] /\ dp3[k] = dp2[k]
    <2>1. Framed(wire2, snt2, n2, cut2, dp2)
        BY DEF Grown
    <2> QED
        BY <1>2, <2>1, FramedMore
<1>4. n <= n2 + 1 /\ \A k \in 0..n : k \in 0..n2
    <2>1. n <= n2
        BY DEF Grown
    <2> QED
        BY <1>1, <2>1
<1>5. \A k \in 0..n : cut3[k] = cut[k] /\ dp3[k] = dp[k]
    <2>1. \A k \in 0..n : cut2[k] = cut[k] /\ dp2[k] = dp[k]
        BY DEF Grown
    <2> QED
        BY <1>3, <1>4, <2>1
<1>6. \E u \in Seq(Bytes) : wire2 \o v = wire \o u
    <2>1. PICK u \in Seq(Bytes) : wire2 = wire \o u
        BY DEF Grown
    <2>2. Joined(wire, u, v)
        BY <1>1, ByteJoined, Zenon
    <2> QED
        BY <2>1, <2>2, Zenon DEF Joined
<1>7. \E u \in Seq(Bytes) : snt2 \o t = snt \o u
    <2>1. PICK u \in Seq(Bytes) : snt2 = snt \o u
        BY Zenon DEF Grown
    <2>2. Joined(snt, u, t)
        BY <1>1, ByteJoined, Zenon
    <2> QED
        BY <2>1, <2>2, Zenon DEF Joined
<1>8. Pieces(wire2 \o v, Len(wire), Len(wire2 \o v), td \o Frame(code, payload))
    <2>1. Pieces(wire2, Len(wire), Len(wire2), td)
        BY DEF Grown
    <2>2. Pieces(wire2 \o v, Len(wire), Len(wire2), td)
        BY <1>1, <2>1, PiecesKept
    <2>3. wire2 \o v \in Seq(Bytes) /\ Len(wire2 \o v) = Len(wire2) + Len(v)
        BY <1>1, CatFacts
    <2>4. Pieces(wire2 \o v, Len(wire), Len(wire2) + Len(v), td \o Frame(code, payload))
        BY <1>2, <2>2, <2>3, PiecesCat, Zenon
    <2> QED
        BY <2>3, <2>4, Zenon
<1>9. Framed(wire, snt, n, cut, dp)
    BY DEF Grown
<1>10. Grown(wire, snt, n, cut, dp, wire2 \o v, snt2 \o t, n2 + 1, cut3, dp3, td \o Frame(code, payload))
    BY <1>3, <1>4, <1>5, <1>6, <1>7, <1>8, <1>9, Zenon DEF Grown
<1> QED
    BY <1>10, Zenon

\* Concat puts one sequence after the other.
LEMMA Flattened ==
    ASSUME NEW T, NEW ss \in Seq(Seq(T)), NEW n \in Nat, n = Len(ss), n > 0
    PROVE  \E fl : /\ fl[0] = <<>> /\ fl[n] = Concat(ss)
                   /\ \A i \in 1..n : fl[i] = fl[i - 1] \o ss[i]
<1> DEFINE Flat(h) == h = [i \in 0..n |-> IF i = 0 THEN <<>> ELSE h[i - 1] \o ss[i]]
<1>1. \E h : Flat(h)
    <2> DEFINE g == [i \in 1..n |-> [x \in Seq(T) |-> x \o ss[i]]]
    <2>1. \A i \in 1..n : ss[i] \in Seq(T)
        OBVIOUS
    <2>2. g \in [1..n -> [Seq(T) -> Seq(T)]] /\ <<>> \in Seq(T)
        BY <2>1
    <2>3. PICK f \in [0..n -> Seq(T)] : f[0] = <<>> /\ \A i \in 1..n : f[i] = g[i][f[i - 1]]
        <3> HIDE DEF g
        <3>1. PICK f : Recurs(f, Seq(T), <<>>, n, g)
            BY <2>2, Recursion, Zenon
        <3> QED
            BY <3>1, Zenon DEF Recurs
    <2>4. ASSUME NEW i \in 0..n
          PROVE  f[i] = IF i = 0 THEN <<>> ELSE f[i - 1] \o ss[i]
        <3>1. CASE i = 0
            BY <2>3, <3>1, Zenon
        <3>2. CASE i # 0
            <4>1. i \in 1..n /\ i - 1 \in 0..n
                BY <3>2
            <4>2. f[i - 1] \in Seq(T)
                BY <4>1, Zenon
            <4> QED
                BY <2>3, <3>2, <4>1, <4>2, Zenon
        <3> QED
            BY <3>1, <3>2, Zenon
    <2>5. f = [i \in 0..n |-> f[i]]
        BY Zenon
    <2>6. Flat(f)
        BY <2>4, <2>5, Zenon
    <2> QED
        BY <2>6, Zenon
<1>2. PICK h : Flat(h) /\ Concat(ss) = h[n]
    <2>1. Concat(ss) = (CHOOSE h : Flat(h))[n]
        BY Zenon DEF Concat
    <2> HIDE DEF Flat
    <2> QED
        BY <1>1, <2>1, Zenon
<1>3. h[0] = <<>>
    BY <1>2
<1>4. ASSUME NEW i \in 1..n
      PROVE  h[i] = h[i - 1] \o ss[i]
    <2>1. i # 0 /\ i \in 0..n
        OBVIOUS
    <2> QED
        BY <1>2, <2>1, Zenon
<1> HIDE DEF Flat
<1> QED
    BY <1>2, <1>3, <1>4, Zenon

\* The smaller of two numbers.
LEMMA MinTwo ==
    ASSUME NEW a \in Int, NEW b \in Int
    PROVE  Min({a, b}) = IF a <= b THEN a ELSE b
<1> DEFINE IsMin(x) == x \in {a, b} /\ \A y \in {a, b} : x <= y
           m == IF a <= b THEN a ELSE b
<1>1. IsMin(m)
    OBVIOUS
<1>2. \A x, y : IsMin(x) /\ IsMin(y) => x = y
    OBVIOUS
<1>3. Min({a, b}) = CHOOSE x : IsMin(x)
    BY DEF Min
<1> HIDE DEF IsMin, m
<1>4. Min({a, b}) = m
    BY <1>1, <1>2, <1>3
<1> QED
    BY <1>4 DEF m

\* How many chunks there are, and that only the last one may be short.
LEMMA ChunkCount ==
    ASSUME NEW len \in Nat, len > 0, NEW d \in Nat, d > 0, NEW q, q = (len + d - 1) \div d
    PROVE  /\ q \in Nat /\ q > 0 /\ len <= q * d
           /\ \A i \in 1..q : (i - 1) * d \in Nat /\ (i - 1) * d < len /\ i * d \in Nat /\ (i - 1) * d < i * d
<1>1. PICK x \in Nat : x = len + d - 1
    BY SMT
<1>2. q \in Int /\ q * d <= x /\ x < q * d + d
    BY <1>1, SMT
<1>3. q > 0
    <2> SUFFICES ASSUME q <= 0
                 PROVE  FALSE
        BY <1>2, SMT
    <2>1. q * d <= 0
        BY <1>2, SMT
    <2>2. q * d \in Int
        BY <1>2, SMT
    <2> QED
        BY <1>1, <1>2, <2>1, <2>2, SMT
<1>4. len <= q * d
    <2>1. q * d \in Int
        BY <1>2, SMT
    <2> QED
        BY <1>1, <1>2, <2>1, SMT
<1>5. ASSUME NEW i \in Int, 1 <= i, i <= q
      PROVE  (i - 1) * d \in Nat /\ (i - 1) * d < len /\ i * d \in Nat /\ (i - 1) * d < i * d
    <2>1. (q - i) * d >= 0 /\ (q - i) * d \in Int /\ q * d \in Int /\ i * d \in Int /\ (i - 1) * d \in Int
        BY <1>2, <1>5, SMT
    <2>2. (q - i) * d = q * d - i * d /\ (i - 1) * d = i * d - d
        BY <1>2, SMT
    <2>3. (i - 1) * d >= 0
        BY <1>5, SMT
    <2> QED
        BY <1>1, <1>2, <2>1, <2>2, <2>3, SMT
<1>6. q \in Nat /\ \A i \in 1..q : i \in Int /\ 1 <= i /\ i <= q
    BY <1>2, <1>3, SMT
<1> QED
    BY <1>3, <1>4, <1>5, <1>6, Zenon

\* The chunks that write_data makes.
Chunked(data, q, e) ==
    /\ q \in Nat /\ q > 0 /\ e \in [0..q -> 0..Len(data)] /\ e[0] = 0 /\ e[q] = Len(data)
    /\ \A i \in 1..q : e[i - 1] < e[i]
    /\ DataFrames(data) = Concat([i \in 1..q |-> Frame(DataCode, Slice(data, e[i - 1], e[i]))])

LEMMA Chunks ==
    ASSUME NEW data \in Seq(Bytes), Len(data) > 0
    PROVE  \E q, e : Chunked(data, q, e)
<1>1. PICK len \in Nat : len = Len(data) /\ len > 0
    OBVIOUS
<1> DEFINE d == DataChunk
           q == (len + d - 1) \div d
           e == [i \in 0..q |-> IF i * d <= len THEN i * d ELSE len]
<1>2. d \in Nat /\ d > 0
    BY ChunkAssumption
<1> HIDE DEF d
<1>3. /\ q \in Nat /\ q > 0 /\ len <= q * d
      /\ \A i \in 1..q : (i - 1) * d \in Nat /\ (i - 1) * d < len /\ i * d \in Nat /\ (i - 1) * d < i * d
    BY <1>1, <1>2, ChunkCount, Zenon
<1>4. DataFrames(data) = Concat([i \in 1..q |-> Frame(DataCode, SubSeq(data, (i - 1) * d + 1, Min({i * d, len})))])
    BY <1>1, Zenon DEF DataFrames, d
<1> HIDE DEF q
<1>5. e \in [0..q -> 0..len]
    <2>1. ASSUME NEW i \in 0..q
          PROVE  (IF i * d <= len THEN i * d ELSE len) \in 0..len
        <3>1. i * d \in Int /\ i * d >= 0
            BY <1>2, <1>3, SMT
        <3> QED
            BY <1>1, <3>1, SMT
    <2> QED
        BY <2>1, Zenon
<1>6. e[0] = 0 /\ e[q] = len
    <2>1. 0 \in 0..q /\ q \in 0..q /\ 0 * d = 0 /\ 0 <= len /\ q * d \in Int
        BY <1>1, <1>2, <1>3, SMT
    <2>2. e[0] = 0
        BY <2>1, Zenon
    <2>3. e[q] = len
        BY <1>1, <1>3, <2>1, SMT
    <2> QED
        BY <2>2, <2>3
<1>7. ASSUME NEW i \in 1..q
      PROVE  e[i - 1] = (i - 1) * d /\ e[i] = Min({i * d, len}) /\ e[i - 1] < e[i]
    <2>1. (i - 1) * d \in Nat /\ (i - 1) * d < len /\ i * d \in Nat /\ (i - 1) * d < i * d
        BY <1>3, Zenon
    <2>2. i \in 0..q /\ i - 1 \in 0..q
        BY <1>3
    <2>3. (i - 1) * d <= len
        BY <1>1, <2>1, SMT
    <2>4. e[i - 1] = (i - 1) * d
        BY <2>2, <2>3, Zenon
    <2>5. Min({i * d, len}) = IF i * d <= len THEN i * d ELSE len
        BY <1>1, <2>1, MinTwo
    <2>6. e[i] = IF i * d <= len THEN i * d ELSE len
        BY <2>2, Zenon
    <2>7. (i - 1) * d < IF i * d <= len THEN i * d ELSE len
        BY <2>1, SMT
    <2> QED
        BY <2>4, <2>5, <2>6, <2>7, Zenon
<1> HIDE DEF e
<1>8. \A i \in 1..q : SubSeq(data, (i - 1) * d + 1, Min({i * d, len})) = Slice(data, e[i - 1], e[i])
    BY <1>7, Zenon DEF Slice
<1>9. [i \in 1..q |-> Frame(DataCode, SubSeq(data, (i - 1) * d + 1, Min({i * d, len})))]
          = [i \in 1..q |-> Frame(DataCode, Slice(data, e[i - 1], e[i]))]
    BY <1>8, Zenon
<1>10. DataFrames(data) = Concat([i \in 1..q |-> Frame(DataCode, Slice(data, e[i - 1], e[i]))])
    BY <1>4, <1>9, Zenon
<1>11. \A i \in 1..q : e[i - 1] < e[i]
    BY <1>7, Zenon
<1>12. Chunked(data, q, e)
    BY <1>1, <1>3, <1>5, <1>6, <1>10, <1>11, Zenon DEF Chunked
<1> QED
    BY <1>12, Zenon

\* A function on an initial part of the natural numbers is a sequence.
LEMMA FunctionSequence ==
    ASSUME NEW S, NEW n \in Nat, NEW f, f = [i \in 1..n |-> f[i]], \A i \in 1..n : f[i] \in S
    PROVE  f \in Seq(S) /\ Len(f) = n
OBVIOUS

\* The buffers of a frame.
LEMMA FrameBuffers ==
    ASSUME NEW payload \in Seq(Bytes), Len(payload) <= MAX_PAYLOAD, NEW code \in Int, 0 <= code, code <= 248
    PROVE  Frame(code, payload) \in Seq(Seq(Bytes))
<1> DEFINE m == Len(payload)
           h == <<Byte(m, 1), Byte(m, 2), Byte(m, 3), MPLEX_BASE + code>>
<1>1. m \in Nat
    OBVIOUS
<1>2. Byte(m, 1) \in Bytes /\ Byte(m, 2) \in Bytes /\ Byte(m, 3) \in Bytes
    BY <1>1, HeaderBytes
<1>3. MPLEX_BASE + code \in Bytes
    BY TagByte, Zenon
<1> HIDE DEF m
<1>4. h \in Seq(Bytes)
    BY <1>2, <1>3, SMT
<1>5. Frame(code, payload) = <<h>> \/ Frame(code, payload) = <<h, payload>>
    BY Zenon DEF Frame, m
<1> HIDE DEF h
<1>6. <<h>> \in Seq(Seq(Bytes)) /\ <<h, payload>> \in Seq(Seq(Bytes))
    BY <1>4, SMT
<1> QED
    BY <1>5, <1>6, Zenon

\* write_data makes frames that carry the data.
LEMMA DataWritten ==
    ASSUME NEW wire, NEW snt, NEW n, NEW cut, NEW dp, Framed(wire, snt, n, cut, dp),
           NEW data \in Seq(Bytes), Len(data) > 0, Len(data) <= MAX_PAYLOAD
    PROVE  \E wire2, n2, cut2, dp2 :
               Grown(wire, snt, n, cut, dp, wire2, snt \o data, n2, cut2, dp2, DataFrames(data))
<1>1. PICK q, e : Chunked(data, q, e)
    BY Chunks
<1>2. /\ q \in Nat /\ q > 0 /\ e \in [0..q -> 0..Len(data)] /\ e[0] = 0 /\ e[q] = Len(data)
      /\ \A i \in 1..q : e[i - 1] < e[i]
    BY <1>1, Zenon DEF Chunked
<1> DEFINE ss == [i \in 1..q |-> Frame(DataCode, Slice(data, e[i - 1], e[i]))]
<1>3. DataFrames(data) = Concat(ss)
    BY <1>1, Zenon DEF Chunked
<1>4. ASSUME NEW i \in 1..q
      PROVE  /\ e[i - 1] \in 0..Len(data) /\ e[i] \in e[i - 1]..Len(data)
             /\ Slice(data, e[i - 1], e[i]) \in Seq(Bytes)
             /\ Slice(data, e[i - 1], e[i]) # <<>>
             /\ Len(Slice(data, e[i - 1], e[i])) <= MAX_PAYLOAD
    <2>1. i - 1 \in 0..q /\ i \in 0..q
        BY <1>2
    <2>2. e[i - 1] \in 0..Len(data) /\ e[i] \in 0..Len(data) /\ e[i - 1] < e[i]
        BY <1>2, <2>1, Zenon
    <2>3. e[i] \in e[i - 1]..Len(data)
        BY <2>2
    <2>4. Slice(data, e[i - 1], e[i]) \in Seq(Bytes) /\ Len(Slice(data, e[i - 1], e[i])) = e[i] - e[i - 1]
        BY <2>2, <2>3, SliceFacts, Zenon
    <2>5. Slice(data, e[i - 1], e[i]) # <<>>
        <3>1. e[i] - e[i - 1] # 0
            BY <2>2
        <3>2. Len(<<>>) = 0
            OBVIOUS
        <3> QED
            BY <2>4, <3>1, <3>2, Zenon
    <2>6. MAX_PAYLOAD \in Int
        BY SMT DEF MAX_PAYLOAD
    <2>7. e[i] - e[i - 1] <= MAX_PAYLOAD
        BY <2>2, <2>6, SMT
    <2> QED
        BY <2>2, <2>3, <2>4, <2>5, <2>7, Zenon
<1>5. ss \in Seq(Seq(Seq(Bytes))) /\ Len(ss) = q
    <2>1. \A i \in 1..q : Frame(DataCode, Slice(data, e[i - 1], e[i])) \in Seq(Seq(Bytes))
        <3> SUFFICES ASSUME NEW i \in 1..q
                     PROVE  Frame(DataCode, Slice(data, e[i - 1], e[i])) \in Seq(Seq(Bytes))
            OBVIOUS
        <3>1. Slice(data, e[i - 1], e[i]) \in Seq(Bytes) /\ Len(Slice(data, e[i - 1], e[i])) <= MAX_PAYLOAD
            BY <1>4, Zenon
        <3>2. DataCode \in Int /\ 0 <= DataCode /\ DataCode <= 248
            BY SMT DEF DataCode
        <3> QED
            BY <3>1, <3>2, FrameBuffers, Zenon
    <2> HIDE DEF ss
    <2>2. ss = [i \in 1..q |-> ss[i]] /\ \A i \in 1..q : ss[i] \in Seq(Seq(Bytes))
        BY <2>1, Zenon DEF ss
    <2> QED
        BY <1>2, <2>2, FunctionSequence, Zenon
<1> HIDE DEF ss
<1>6. PICK fl : fl[0] = <<>> /\ fl[q] = Concat(ss) /\ \A i \in 1..q : fl[i] = fl[i - 1] \o ss[i]
    BY <1>2, <1>5, Flattened, Zenon
<1> DEFINE Done(i) == \E wire2, n2, cut2, dp2 :
                          Grown(wire, snt, n, cut, dp, wire2, snt \o Slice(data, 0, e[i]), n2, cut2, dp2, fl[i])
           J == {i \in Nat : i <= q => Done(i)}
<1>7. snt \in Seq(Bytes)
    BY DEF Framed
<1>8. 0 \in J
    <2>1. Slice(data, 0, e[0]) = <<>>
        BY <1>2, SliceEnds
    <2>2. snt \o <<>> = snt
        BY <1>7
    <2>3. Grown(wire, snt, n, cut, dp, wire, snt, n, cut, dp, <<>>)
        BY GrownNone
    <2>4. Done(0)
        BY <1>6, <2>1, <2>2, <2>3, Zenon
    <2> HIDE DEF Done
    <2> QED
        BY <2>4
<1>9. ASSUME NEW i \in Nat, i \in J
      PROVE  i + 1 \in J
    <2>1. CASE i + 1 <= q
        <3>1. i + 1 \in 1..q /\ (i + 1) - 1 = i /\ i <= q /\ i \in 0..q
            BY <1>2, <2>1
        <3>2. PICK wire2, n2, cut2, dp2 :
                  Grown(wire, snt, n, cut, dp, wire2, snt \o Slice(data, 0, e[i]), n2, cut2, dp2, fl[i])
            BY <1>9, <3>1, Zenon
        <3> DEFINE t == Slice(data, e[i], e[i + 1])
        <3>3. /\ e[i] \in 0..Len(data) /\ e[i + 1] \in e[i]..Len(data)
              /\ t \in Seq(Bytes) /\ t # <<>> /\ Len(t) <= MAX_PAYLOAD
            BY <1>4, <3>1, Zenon
        <3>4. DataCode \in Int /\ 0 <= DataCode /\ DataCode <= 248
            BY SMT DEF DataCode
        <3>5. DataOf(DataCode, t, t)
            BY <3>3, Zenon DEF DataOf
        <3>6. fl[i + 1] = fl[i] \o Frame(DataCode, t)
            BY <1>6, <3>1, Zenon DEF ss
        <3>7. (snt \o Slice(data, 0, e[i])) \o t = snt \o Slice(data, 0, e[i + 1])
            <4>1. 0 \in 0..Len(data) /\ e[i] \in 0..Len(data)
                BY <3>3
            <4>2. Slice(data, 0, e[i]) \o t = Slice(data, 0, e[i + 1])
                BY <3>3, <4>1, SliceCat, Zenon
            <4>3. Slice(data, 0, e[i]) \in Seq(Bytes)
                BY <4>1, SliceFacts, Zenon
            <4>4. (snt \o Slice(data, 0, e[i])) \o t = snt \o (Slice(data, 0, e[i]) \o t)
                <5>1. t \in Seq(Bytes)
                    BY <3>3, Zenon
                <5> HIDE DEF t
                <5> QED
                    BY <1>7, <4>3, <5>1, CatCat
            <4> QED
                BY <4>2, <4>4, Zenon
        <3> HIDE DEF t
        <3>8. \E wire3, n3, cut3, dp3 :
                  Grown(wire, snt, n, cut, dp, wire3, (snt \o Slice(data, 0, e[i])) \o t, n3, cut3, dp3,
                        fl[i] \o Frame(DataCode, t))
            BY <3>2, <3>3, <3>4, <3>5, GrownFrame, Zenon
        <3>9. Done(i + 1)
            BY <3>6, <3>7, <3>8, Zenon
        <3> HIDE DEF Done
        <3> QED
            BY <3>9
    <2>2. CASE ~(i + 1 <= q)
        <3> HIDE DEF Done
        <3> QED
            BY <2>2
    <2> QED
        BY <2>1, <2>2
<1> HIDE DEF J
<1>10. Nat \subseteq J
    BY <1>8, <1>9, SetInduction
<1>11. Done(q)
    <2> HIDE DEF Done
    <2> QED
        BY <1>2, <1>10 DEF J
<1>12. Slice(data, 0, e[q]) = data
    <2>1. 0 \in 0..Len(data)
        OBVIOUS
    <2> QED
        BY <1>2, <2>1, SliceEnds
<1> QED
    BY <1>3, <1>6, <1>11, <1>12, Zenon
=============================================================================
