------------------------------ MODULE ByteStream ------------------------------
(***************************************************************************)
(* What a connection promises each way: bytes come out in the order they   *)
(* went in, none is lost, repeated or made up, and the end of the stream   *)
(* is reported only once everything before it has been delivered, and      *)
(* nothing comes after it.                                                 *)
(***************************************************************************)
EXTENDS Integers, Sequences

VARIABLES
    sent,    \* bytes accepted from the writer
    got,     \* bytes delivered to the reader
    eof      \* the reader has been told that no more will come

\* t goes on where s ends.
Continues(t, s) == Len(s) <= Len(t) /\ s = SubSeq(t, 1, Len(s))

Init ==
    /\ sent = <<>>
    /\ got = <<>>
    /\ eof = FALSE

Write ==
    /\ ~eof
    /\ Continues(sent', sent)
    /\ UNCHANGED <<got, eof>>

Read ==
    /\ ~eof
    /\ Continues(got', got)
    /\ Continues(sent, got')
    /\ UNCHANGED <<sent, eof>>

End ==
    /\ got = sent
    /\ eof' = TRUE
    /\ UNCHANGED <<sent, got>>

Next == Write \/ Read \/ End

Spec == Init /\ [][Next]_<<sent, got, eof>>
=============================================================================
