-------------------------------- MODULE MCMux --------------------------------
\* Scripts that follow the uses of MuxConnection in the two session.rs files.
EXTENDS Mux

Ndx(n) == [op |-> "ndx", ndx |-> n]
Msg(code, payload) == [op |-> "msg", code |-> code, payload |-> payload]
Flush == [op |-> "flush"]
ReadNdx == [op |-> "read"]
Split(n) == [op |-> "split", reads |-> n]
Close == [op |-> "shutdown"]
Wait == [op |-> "end"]

\* A sender that answers a split receiver's requests, across a change of sign and a
\* jump that needs five bytes.
SplitReceiver ==
    [A |-> <<Ndx(0), Flush, Split(4), Ndx(70000), Ndx(-101), Flush, Ndx(NDX_DONE), Flush, Close>>,
     B |-> <<ReadNdx, Ndx(0), Flush, ReadNdx, Ndx(70000), ReadNdx, Msg(2, <<9, 9>>), Ndx(-101), Flush,
             ReadNdx, Ndx(NDX_DONE), Flush, Wait>>]

\* Both ends write before either reads.
WriteThenRead ==
    [A |-> <<Ndx(5), Ndx(300), Flush, ReadNdx, ReadNdx, Close>>,
     B |-> <<Ndx(7), Ndx(400), Flush, ReadNdx, ReadNdx, Wait>>]

\* The receiver reads part of a flush before it splits.
SplitLate ==
    [A |-> <<Ndx(1), Ndx(2), Flush, ReadNdx, Split(2), Ndx(3), Flush, Close>>,
     B |-> <<Ndx(-5), Ndx(-105), Ndx(1), Flush, ReadNdx, ReadNdx, ReadNdx, Wait>>]

\* Both ends write more than their buffers and the network hold.
WriteMuch ==
    [A |-> <<Ndx(70000), Ndx(0), Msg(9, <<>>), Ndx(70000), Flush, ReadNdx, ReadNdx, Close>>,
     B |-> <<Ndx(70000), Ndx(0), Flush, ReadNdx, ReadNdx, ReadNdx, Wait>>]

WithCodec(s, codec) == [A |-> s.A, B |-> s.B, codec |-> codec]
MCScripts ==
    {WithCodec(s, "Compact") : s \in {SplitReceiver, WriteThenRead, SplitLate, WriteMuch}}
        \cup {WithCodec(WriteThenRead, "Fixed")}
=============================================================================
