--------------------------- MODULE OrderedTransfer ---------------------------
(***************************************************************************)
(* What the pipeline of wire_transfer.rs promises: files are requested one *)
(* by one and finished one by one, in the same order; the exchange of      *)
(* phases, which reports them as received, begins only when every file     *)
(* requested is finished, and after it nothing is requested or finished.   *)
(* Either side may fail; requests may still be written by then, but        *)
(* nothing is finished any more.                                           *)
(***************************************************************************)
EXTENDS Integers, Sequences

CONSTANT Entry

VARIABLES
    asked,      \* files requested, in order
    done,       \* files finished, in order
    stage       \* "transfer", "exchange" or "failed"

vars == <<asked, done, stage>>

Init == asked = <<>> /\ done = <<>> /\ stage = "transfer"

Request ==
    /\ stage # "exchange"
    /\ \E f \in Entry : asked' = Append(asked, f)
    /\ UNCHANGED <<done, stage>>

Finish ==
    /\ stage = "transfer" /\ Len(done) < Len(asked)
    /\ done' = Append(done, asked[Len(done) + 1])
    /\ UNCHANGED <<asked, stage>>

Exchange ==
    /\ stage = "transfer" /\ done = asked
    /\ stage' = "exchange"
    /\ UNCHANGED <<asked, done>>

Fail ==
    /\ stage' = "failed"
    /\ UNCHANGED <<asked, done>>

Next == Request \/ Finish \/ Exchange \/ Fail

Spec == Init /\ [][Next]_vars
==============================================================================
