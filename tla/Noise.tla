-------------------------------- MODULE Noise --------------------------------
(***************************************************************************)
(* The framed, encrypted stream of noise.rs, from one end's NoiseWriter to  *)
(* the other's NoiseReader.  The two halves of an end are polled by tasks   *)
(* of their own and share the cipher state behind a lock that both only     *)
(* try: `held` says that the other half of the same end holds it.           *)
(* A unit on the wire is a length byte or one byte of a ciphertext, which   *)
(* carries its nonce and either a byte of the plaintext or the tag.         *)
(***************************************************************************)
EXTENDS Naturals, Sequences, SequencesExt, FiniteSetsExt

CONSTANTS
    Length,       \* how many bytes the writer is given
    MaxChunk,     \* MAX_NOISE_MSG_LEN - 16
    Wanted,       \* sizes of the buffer the caller reads into
    WireSize      \* what the network holds

VARIABLES
    sent,                       \* plaintext poll_write has accepted
    frame, pos, pending,        \* NoiseWriteState: the frame, what is written, its plaintext length
    wnonce, wheld,              \* nonce of the writer; its lock is taken by the reader beside it
    wire, closed,
    rstate, body, rnonce, rheld,    \* NoiseReadState, the units it holds, and the same for the reader
    readBuf,                    \* decrypted bytes the caller had no room for
    got, eof, failed

writer == <<sent, frame, pos, pending, wnonce>>
reader == <<rstate, body, rnonce, readBuf, got, eof, failed>>
vars == <<writer, wheld, wire, closed, reader, rheld>>

Input == [i \in 1..Length |-> i]
From(s, i) == SubSeq(s, i, Len(s))

Init ==
    /\ sent = <<>> /\ frame = <<>> /\ pos = 0 /\ pending = 0 /\ wnonce = 0
    /\ wire = <<>> /\ closed = FALSE
    /\ rstate = "Idle" /\ body = <<>> /\ rnonce = 0
    /\ readBuf = <<>> /\ got = <<>> /\ eof = FALSE /\ failed = FALSE
    /\ wheld = FALSE /\ rheld = FALSE

\* The other half of an end takes or releases the cipher state.
Contend ==
    /\ \/ wheld' = ~wheld /\ UNCHANGED rheld
       \/ rheld' = ~rheld /\ UNCHANGED wheld
    /\ UNCHANGED <<writer, wire, closed, reader>>

-----------------------------------------------------------------------------
\* write_message: the chunk under the next nonce, and a tag; a frame is its
\* length in two bytes and the ciphertext.
Ciphertext(chunk) == [i \in 1..Len(chunk) |-> <<wnonce, chunk[i]>>] \o <<<<wnonce, "tag">>>>
Framed(units) == <<<<"len", Len(units)>>, <<"len", Len(units)>>>> \o units

Room == WireSize - Len(wire)
Amounts(n) == {k \in {0, 1, n} : k <= n}

\* poll_write without a frame in flight: encrypt, and write what the network takes.
Encrypt ==
    /\ ~closed /\ frame = <<>> /\ sent # Input /\ ~wheld
    /\ LET n == Min({MaxChunk, Len(Input) - Len(sent)})
           f == Framed(Ciphertext(SubSeq(Input, Len(sent) + 1, Len(sent) + n)))
       IN \E k \in Amounts(Min({Len(f), Room})) :
             /\ wire' = wire \o SubSeq(f, 1, k)
             /\ wnonce' = wnonce + 1
             /\ IF k = Len(f)
                THEN /\ sent' = SubSeq(Input, 1, Len(sent) + n)
                     /\ UNCHANGED <<frame, pos, pending>>
                ELSE /\ frame' = f /\ pos' = k /\ pending' = n
                     /\ UNCHANGED sent
    /\ UNCHANGED <<wheld, closed, reader, rheld>>

\* poll_write with a frame in flight: only that frame.
Resume ==
    /\ frame # <<>>
    /\ \E k \in Amounts(Min({Len(frame) - pos, Room})) \ {0} :
          /\ wire' = wire \o SubSeq(frame, pos + 1, pos + k)
          /\ IF pos + k = Len(frame)
             THEN /\ sent' = SubSeq(Input, 1, Len(sent) + pending)
                  /\ frame' = <<>> /\ pos' = 0 /\ pending' = 0
             ELSE /\ pos' = pos + k
                  /\ UNCHANGED <<sent, frame, pending>>
    /\ UNCHANGED <<wnonce, wheld, closed, reader, rheld>>

\* poll_shutdown, after the last write has been accepted.
Close ==
    /\ sent = Input /\ frame = <<>> /\ ~closed
    /\ closed' = TRUE
    /\ UNCHANGED <<writer, wheld, wire, reader, rheld>>

-----------------------------------------------------------------------------
\* poll_read, first: decrypted bytes from before.
ServeBuffered ==
    /\ readBuf # <<>> /\ ~eof /\ ~failed
    /\ \E w \in Wanted :
          LET n == Min({w, Len(readBuf)})
          IN got' = got \o SubSeq(readBuf, 1, n) /\ readBuf' = From(readBuf, n + 1)
    /\ UNCHANGED <<writer, wheld, wire, closed, rstate, body, rnonce, eof, failed, rheld>>

Polling == readBuf = <<>> /\ ~eof /\ ~failed
AtEnd == wire = <<>> /\ closed

\* The length prefix, a byte or two at a time; the end of the stream is clean only
\* before its first byte.
ReadLen ==
    /\ Polling /\ rstate \in {"Idle", "ReadingLen"}
    /\ \E k \in Amounts(Min({2 - Len(body), Len(wire)})) \ {0} :
          LET b == body \o SubSeq(wire, 1, k)
          IN /\ wire' = From(wire, k + 1)
             /\ rstate' = IF Len(b) = 2 THEN "ReadingBody" ELSE "ReadingLen"
             /\ body' = IF Len(b) = 2 THEN <<b[1]>> ELSE b
    /\ UNCHANGED <<writer, wheld, closed, rnonce, readBuf, got, eof, failed, rheld>>

ReadLenEof ==
    /\ Polling /\ rstate \in {"Idle", "ReadingLen"} /\ AtEnd
    /\ IF body = <<>> THEN eof' = TRUE /\ UNCHANGED failed ELSE failed' = TRUE /\ UNCHANGED eof
    /\ rstate' = "Idle" /\ body' = <<>>
    /\ UNCHANGED <<writer, wheld, wire, closed, rnonce, readBuf, got, rheld>>

Units == Tail(body)
BodyLength == body[1][2]

\* The body, until it is whole.
ReadBody ==
    /\ Polling /\ rstate = "ReadingBody" /\ Len(Units) < BodyLength
    /\ \E k \in Amounts(Min({BodyLength - Len(Units) - 1, Len(wire)})) \ {0} :
          body' = body \o SubSeq(wire, 1, k) /\ wire' = From(wire, k + 1)
    /\ UNCHANGED <<writer, wheld, closed, rstate, rnonce, readBuf, got, eof, failed, rheld>>

\* Its last byte, with the lock: the plaintext goes to the caller, as much as it asked
\* for; a body that is not the next one does not decrypt.
Decrypt ==
    /\ Polling /\ rstate = "ReadingBody" /\ Len(Units) = BodyLength - 1 /\ wire # <<>> /\ ~rheld
    /\ wire' = Tail(wire)
    /\ LET units == Append(Units, Head(wire))
           plain == [i \in 1..Len(units) - 1 |-> units[i][2]]
       IN IF units = [i \in DOMAIN units |-> <<rnonce, units[i][2]>>] /\ Last(units)[2] = "tag"
          THEN \E w \in Wanted :
                  LET n == Min({w, Len(plain)})
                  IN /\ got' = got \o SubSeq(plain, 1, n)
                     /\ readBuf' = From(plain, n + 1)
                     /\ rnonce' = rnonce + 1
                     /\ UNCHANGED failed
          ELSE failed' = TRUE /\ UNCHANGED <<got, readBuf, rnonce>>
    /\ rstate' = "Idle" /\ body' = <<>>
    /\ UNCHANGED <<writer, wheld, closed, eof, rheld>>

\* The same without the lock: the whole body is put back.
Stash ==
    /\ Polling /\ rstate = "ReadingBody" /\ Len(Units) = BodyLength - 1 /\ wire # <<>> /\ rheld
    /\ wire' = Tail(wire)
    /\ body' = Append(body, Head(wire))
    /\ UNCHANGED <<writer, wheld, closed, rstate, rnonce, readBuf, got, eof, failed, rheld>>

\* A read that gets nothing, at the end of the stream or because nothing is missing.
ReadBodyEof ==
    /\ Polling /\ rstate = "ReadingBody"
    /\ AtEnd \/ Len(Units) = BodyLength
    /\ failed' = TRUE
    /\ rstate' = "Idle" /\ body' = <<>>
    /\ UNCHANGED <<writer, wheld, wire, closed, rnonce, readBuf, got, eof, rheld>>

Next ==
    \/ Contend \/ Encrypt \/ Resume \/ Close
    \/ ServeBuffered \/ ReadLen \/ ReadLenEof \/ ReadBody \/ Decrypt \/ Stash \/ ReadBodyEof

Spec == Init /\ [][Next]_vars

\* The plaintext that comes out is a prefix of what the writer was given, and the
\* stream fails only if it was cut (noise.rs, "stash the body back and deliver on next
\* poll").
ContentionOnlyDelays ==
    /\ IsPrefix(got, Input)
    /\ ~failed
=============================================================================
