------------------------------ MODULE FileList ------------------------------
(***************************************************************************)
(* The file list from the sender's scan to the receiver: canonical order,   *)
(* numbering, the division into one list per directory (incremental         *)
(* recursion), and the bytes between the two sides.  The scan is FileScan,  *)
(* the coding of one entry FlistCodec.                                      *)
(***************************************************************************)
EXTENDS FileScan

VARIABLES
    snd,    \* the sender: its sorted entries, the groups still to send, the encoder
    wire,   \* the bytes sent and not yet read
    rcv     \* the receiver: the entries read, the numbered ones, the decoder

vars == <<scanVars, snd, wire, rcv>>

-----------------------------------------------------------------------------
\* f_name_cmp.  A name is walked one character at a time; a character is of type Path
\* in a directory's name and Item in a file's, and Path sorts after Item.  The end of
\* a name sorts before anything.

PATH == 256
\* Mutant: files and directories of one level are mixed.
Walk_untyped(e) == IF e.name = <<Dot>> THEN <<>> ELSE e.name \o IF Type(e.mode) = S_IFDIR THEN <<Slash>> ELSE <<>>

Walk(e) ==
    LET isDir == Type(e.mode) = S_IFDIR
        n == IF HasParent(e.name) THEN Len(Dirname(e.name)) + 1 ELSE 0
        dot == isDir /\ Basename(e.name) = <<Dot>>
        full == IF dot THEN SubSeq(e.name, 1, n) ELSE IF isDir THEN Append(e.name, Slash) ELSE e.name
    IN [i \in DOMAIN full |-> IF i <= n \/ isDir THEN PATH + full[i] ELSE full[i]]

f_name_less(a, b) ==
    LET x == Walk(a)
        y == Walk(b)
        n == Max({i \in 0..Min({Len(x), Len(y)}) : SubSeq(x, 1, i) = SubSeq(y, 1, i)})
    IN n < Len(y) /\ (n = Len(x) \/ x[n + 1] < y[n + 1])

\* sort_by is stable.
canonical_sort(entries) ==
    LET Before(i, j) == f_name_less(entries[i], entries[j]) \/ (~f_name_less(entries[j], entries[i]) /\ i < j)
        order == SortSeq([i \in DOMAIN entries |-> i], Before)
    IN [i \in DOMAIN entries |-> entries[order[i]]]

-----------------------------------------------------------------------------
\* DirectoryTree: one group per directory, breadth first.  Directories are numbered
\* in the order of the groups they appear in; "." is numbered and has no group.

IsDir(e) == Type(e.mode) = S_IFDIR
ChildrenOf(entries, dir) ==
    SelectSeq([i \in DOMAIN entries |-> i], LAMBDA i : HasParent(entries[i].name) /\ Dirname(entries[i].name) = dir)

RECURSIVE BreadthFirst(_, _, _, _)
BreadthFirst(entries, queue, count, groups) ==
    LET kids == ChildrenOf(entries, entries[Head(queue).at].name)
        dirs == SelectSeq(kids, LAMBDA i : IsDir(entries[i]))
    IN IF queue = <<>> THEN groups
       ELSE BreadthFirst(entries, Tail(queue) \o [k \in DOMAIN dirs |-> [at |-> dirs[k], ndx |-> count + k - 1]],
                         count + Len(dirs), Append(groups, [dir |-> Head(queue).ndx, members |-> kids]))

\* Mutant: "." is not counted.
from_sorted_entries_dotUncounted(entries) ==
    LET top == SelectSeq([i \in DOMAIN entries |-> i], LAMBDA i : ~HasParent(entries[i].name))
        below == SelectSeq(top, LAMBDA i : IsDir(entries[i]) /\ entries[i].name # <<Dot>>)
    IN BreadthFirst(entries, [k \in DOMAIN below |-> [at |-> below[k], ndx |-> k - 1]], Len(below),
                    <<[dir |-> -1, members |-> top]>>)

from_sorted_entries(entries) ==
    LET top == SelectSeq([i \in DOMAIN entries |-> i], LAMBDA i : ~HasParent(entries[i].name))
        dirs == SelectSeq(top, LAMBDA i : IsDir(entries[i]))
        numbered == [k \in DOMAIN dirs |-> [at |-> dirs[k], ndx |-> k - 1]]
    IN BreadthFirst(entries, SelectSeq(numbered, LAMBDA q : entries[q.at].name # <<Dot>>), Len(dirs),
                    <<[dir |-> -1, members |-> top]>>)

\* Each list leaves one number unused behind it.
GroupStart(groups, g) == FoldLeft(LAMBDA n, h : n + Len(groups[h].members) + 1, 1, [h \in 1..(g - 1) |-> h])
ndx_assignments(entries, groups) ==
    [i \in DOMAIN entries |->
       LET at == {<<g, p>> \in (DOMAIN groups) \X (1..Len(entries)) :
                    p <= Len(groups[g].members) /\ groups[g].members[p] = i}
       IN IF at = {} THEN 0 ELSE LET q == CHOOSE q \in at : TRUE IN GroupStart(groups, q[1]) + q[2] - 1]

-----------------------------------------------------------------------------
NDX_FLIST_EOF == -2
NDX_FLIST_OFFSET == -101

Incremental == sc.opts.wire.incremental /\ sc.opts.recursive
Codec == sc.opts.wire.int

NoSender == [stage |-> "idle", entries |-> <<>>, groups |-> <<>>, at |-> 1, pos |-> 1, ndx |-> 0,
             enc |-> EncoderState, ndxState |-> NdxState]
NoReceiver == [stage |-> "entries", entries |-> <<>>, start |-> 0, dir |-> -1, all |-> <<>>,
               dec |-> DecoderState, ndxState |-> NdxState]

FlistInit == Init /\ snd = NoSender /\ wire = <<>> /\ rcv = NoReceiver

Write(bytes) == wire' = wire \o bytes
Group == snd.groups[snd.at]

\* send_file_list up to the first entry.
SortList ==
    LET entries == canonical_sort(list)
        whole == <<[dir |-> -1, members |-> [i \in DOMAIN entries |-> i]]>>
    IN /\ phase = "send" /\ snd.stage = "idle" /\ sc.caller # "local"
       /\ snd' = [snd EXCEPT !.stage = "entries", !.entries = entries,
                             !.groups = IF Incremental THEN from_sorted_entries(entries) ELSE whole,
                             !.ndx = IF Incremental THEN 1 ELSE 0]
       /\ rcv' = [rcv EXCEPT !.start = IF Incremental THEN 1 ELSE 0,
                             !.dec.delta.start = IF Incremental THEN 1 ELSE 0]
       /\ UNCHANGED <<scanVars, wire>>

SendEntry ==
    LET e == snd.entries[Group.members[snd.pos]]
        sent == encode_entry(e, snd.ndx, snd.enc, sc.opts)
    IN /\ snd.stage = "entries" /\ snd.pos <= Len(Group.members)
       /\ Write(sent.bytes)
       /\ snd' = [snd EXCEPT !.pos = @ + 1, !.ndx = @ + 1, !.enc = sent.enc]
       /\ UNCHANGED <<scanVars, rcv>>

\* send_id_list: no entry carries a name, so each list is its terminator, then root's name.
IdList ==
    IF sc.opts.id0Names THEN write_varint30(Zeros(4), Codec) \o <<4, 114, 111, 111, 116>>
    ELSE write_varint30(Zeros(4), Codec)
send_id_list ==
    (IF sc.opts.uid THEN IdList ELSE <<>>) \o IF sc.opts.gid THEN IdList ELSE <<>>

\* The end of a list; a single list is followed by an io_error (old protocols) and the id lists.
EndGroup ==
    /\ snd.stage = "entries" /\ snd.pos > Len(Group.members)
    /\ Write(encode_end_of_flist(0, sc.opts.wire.flags)
             \o IF Incremental THEN <<>>
                ELSE (IF sc.opts.wire.trailingIoError THEN write_fixed(Zeros(4)) ELSE <<>>)
                     \o IF sc.opts.numericIds THEN <<>> ELSE send_id_list)
    /\ snd' = [snd EXCEPT !.stage = IF Incremental THEN "between" ELSE "done", !.at = @ + 1, !.pos = 1, !.ndx = @ + 1]
    /\ UNCHANGED <<scanVars, rcv>>

\* send_pending: the next directory's list, or the end of them.
SendMarker ==
    LET more == snd.at <= Len(snd.groups)
        w == write_ndx(IF more THEN NDX_FLIST_OFFSET - Group.dir ELSE NDX_FLIST_EOF, snd.ndxState, Codec)
    IN /\ snd.stage = "between"
       /\ Write(w.bytes)
       /\ snd' = [snd EXCEPT !.stage = IF more THEN "entries" ELSE "done", !.ndxState = w.state]
       /\ UNCHANGED <<scanVars, rcv>>

-----------------------------------------------------------------------------
\* The receiver.  A read needs all of its bytes: until they are there it waits, and it
\* has failed when the sender has no more to send.

Read == decode_entry(wire, rcv.entries, rcv.dec, sc.opts)

RecvEntry ==
    LET Take(r) == /\ r.ok /\ r.val.entry # <<>>
                   /\ wire' = r.rest
                   /\ rcv' = [rcv EXCEPT !.entries = Append(@, r.val.entry[1]), !.dec = r.val.dec]
    IN /\ snd.stage # "idle" /\ rcv.stage = "entries"
       /\ Take(Read)
       /\ UNCHANGED <<scanVars, snd>>

\* sort_and_assign: numbers follow the sorted order.
Numbered(start, entries) ==
    LET sorted == canonical_sort(entries)
    IN [i \in DOMAIN sorted |-> [ndx |-> start + i - 1, dir |-> rcv.dir, entry |-> sorted[i]]]

\* The next list keeps the delta state; its acl and xattr tables are fresh.
RecvEnd ==
    LET next == rcv.start + Len(rcv.entries) + 1
        delta == [rcv.dec.delta EXCEPT !.start = next]
        Take(r) == r.ok /\ r.val.entry = <<>> /\ wire' = r.rest
    IN /\ rcv.stage = "entries" /\ snd.stage # "idle"
       /\ Take(Read)
       /\ rcv' = [rcv EXCEPT !.all = @ \o Numbered(rcv.start, rcv.entries), !.entries = <<>>, !.start = next,
                             !.stage = IF Incremental THEN "between" ELSE "ids",
                             !.dec = [DecoderState EXCEPT !.delta = delta]]
       /\ UNCHANGED <<scanVars, snd>>

RecvMarker ==
    LET n == NdxLength(wire, Codec)
        r == read_ndx(SubSeq(wire, 1, n), rcv.ndxState, Codec)
    IN /\ rcv.stage = "between" /\ wire # <<>> /\ n <= Len(wire)
       /\ wire' = From(wire, n + 1)
       /\ rcv' = [rcv EXCEPT !.ndxState = r.state,
                             !.dir = IF r.ndx <= NDX_FLIST_OFFSET THEN NDX_FLIST_OFFSET - r.ndx ELSE @,
                             !.stage = IF r.ndx = NDX_FLIST_EOF THEN "done"
                                       ELSE IF r.ndx <= NDX_FLIST_OFFSET THEN "entries" ELSE "failed"]
       /\ UNCHANGED <<scanVars, snd>>

\* One id list: (id, name) pairs up to id 0, then root's name.
RECURSIVE RecvPairs(_)
RecvPairs(s) ==
    LET Name(rest) == Then(ReadByte(rest), LAMBDA len, left : ReadBytes(left, len))
        Pair(id, rest) == CASE id # 0 -> Then(Name(rest), LAMBDA name, left : RecvPairs(left))
                            [] id = 0 /\ sc.opts.id0Names -> Name(rest)
                            [] OTHER -> Accept(<<>>, rest)
    IN Then(Number(read_varint30(s, Codec)), Pair)

recv_id_list ==
    LET Io == IF sc.opts.wire.trailingIoError THEN ReadBytes(wire, 4) ELSE Accept(<<>>, wire)
        Ids(on, rest) == IF on /\ ~sc.opts.numericIds THEN RecvPairs(rest) ELSE Accept(<<>>, rest)
    IN Then(Io, LAMBDA io, rest : Then(Ids(sc.opts.uid, rest), LAMBDA u, left : Ids(sc.opts.gid, left)))

RecvIds ==
    LET Take(r) == r.ok /\ wire' = r.rest
    IN /\ rcv.stage = "ids" /\ Take(recv_id_list)
       /\ rcv' = [rcv EXCEPT !.stage = "done"]
       /\ UNCHANGED <<scanVars, snd>>

RecvFails ==
    /\ snd.stage = "done"
    /\ \/ rcv.stage = "entries" /\ ~Read.ok
       \/ rcv.stage = "ids" /\ ~recv_id_list.ok
       \/ rcv.stage = "between" /\ (wire = <<>> \/ NdxLength(wire, Codec) > Len(wire))
    /\ rcv' = [rcv EXCEPT !.stage = "failed"]
    /\ UNCHANGED <<scanVars, snd, wire>>

Steps == \/ Scan /\ UNCHANGED <<snd, wire, rcv>>
         \/ SortList \/ SendEntry \/ EndGroup \/ SendMarker
         \/ RecvEntry \/ RecvEnd \/ RecvMarker \/ RecvIds \/ RecvFails

Ended ==
    phase = "failed" \/ (phase = "send" /\ (sc.caller = "local" \/ rcv.stage \in {"done", "failed"}))
Done == Ended /\ UNCHANGED vars

Next == Steps \/ (\E p \in DOMAIN fs : Vanish(p) /\ UNCHANGED <<snd, wire, rcv>>) \/ Done

\* Weak fairness of Steps, with Ended for the states that have no step: that every other state
\* has one is what the deadlock check shows.
Spec == FlistInit /\ [][Next]_vars /\ ([]<>Ended \/ []<><<Steps>>_vars)

-----------------------------------------------------------------------------
\* In the list that is sent a directory comes before everything below it, what is below it is
\* together, and at each level files come before directories (sort.rs f_name_cmp): the order
\* both sides number by, and the one deletion and directory creation rely on.
CanonicalOrder ==
    snd.stage = "entries" /\ snd.at = 1 /\ snd.pos = 1 =>
      LET es == snd.entries
          In(d, e) == es[d].name # <<Dot>> /\ IsPrefix(Append(es[d].name, Slash), es[e].name)
          Level(e) == IF HasParent(es[e].name) THEN Dirname(es[e].name) ELSE <<>>
      IN /\ \A d, e \in DOMAIN es : IsDir(es[d]) /\ In(d, e) =>
              d < e /\ \A between \in d..e : In(d, between) \/ es[between].name = es[d].name
         /\ \A d, e \in DOMAIN es : Level(d) = Level(e) /\ IsDir(es[d]) /\ ~IsDir(es[e]) => es[d].name = <<Dot>> \/ e < d

\* What the options and the protocol version let through of an entry.
Kept(e) ==
    LET opts == sc.opts
        If(c, x) == IF c THEN x ELSE <<>>
        acl == IF ~SendsAcl(e.mode, opts) \/ e.acl = <<>> THEN <<>>
               ELSE <<e.acl[1], IF e.acl[2] = <<EmptyAcl>> THEN <<>> ELSE e.acl[2]>>
        same == {i \in DOMAIN snd.entries : snd.entries[i].inode = e.inode}
    IN [name |-> e.name, len |-> e.len, mtime |-> e.mtime, mode |-> e.mode,
        nsec |-> IF opts.wire.nanoseconds THEN e.nsec ELSE 0,
        uid |-> IF opts.uid THEN e.uid ELSE 0, gid |-> IF opts.gid THEN e.gid ELSE 0,
        rdev |-> IF should_send_rdev(e.mode, opts) THEN e.rdev ELSE 0,
        target |-> If(SendsLink(e.mode, opts), e.target),
        checksum |-> If(SendsChecksum(e.mode, opts), Zeros(opts.checksumLen)),
        acl |-> IF acl = <<EmptyAcl, <<>>>> THEN <<>> ELSE acl,
        xattrs |-> If(opts.xattrs, e.xattrs),
        linkOf |-> IF opts.hardLinks /\ e.nlink > 1 /\ snd.entries[Min(same)].name # e.name
                   THEN snd.entries[Min(same)].name ELSE <<>>]

\* read_varlong refuses the ninth byte of a time before 1970.
Ancient(e) == Codec = "Compact" /\ e.mtime[8] >= 128

SentNumbers == IF Incremental THEN ndx_assignments(snd.entries, snd.groups) ELSE [i \in DOMAIN snd.entries |-> i - 1]

\* The lists whose two ends fall out of step.  One-byte flags (protocol 27) have no room for
\* HLINKED, yet a later name of an inode is abbreviated (flags.rs:341-342).  And the
\* encoder remembers hard links, ACLs and attributes of earlier sub-lists, which the
\* decoder has forgotten (hlink.rs:246, incremental.rs:113-115).
SendOrder == FlattenSeq([g \in DOMAIN snd.groups |-> snd.groups[g].members])
Unmarked(a, b) == sc.opts.wire.flags = "Byte" /\ sc.opts.hardLinks /\ a.nlink > 1 /\ a.inode = b.inode
RefersBack(a, b) ==
    \/ sc.opts.hardLinks /\ a.nlink > 1 /\ a.inode = b.inode
    \/ /\ SendsAcl(a.mode, sc.opts) /\ SendsAcl(b.mode, sc.opts)
       /\ AccessAcl(a) = AccessAcl(b) \/ (IsDir(a) /\ IsDir(b) /\ DefaultAcl(a) = DefaultAcl(b))
    \/ sc.opts.xattrs /\ a.xattrs = b.xattrs
OutOfStep ==
    \E i, j \in DOMAIN SendOrder : i < j /\
        LET a == snd.entries[SendOrder[i]]  b == snd.entries[SendOrder[j]]
        IN Unmarked(a, b) \/ (j > Len(snd.groups[1].members) /\ RefersBack(a, b))

\* The receiver ends with every entry of the sender, under the number the sender will use for it,
\* with the fields the options keep, and has read exactly the bytes sent: no entry is taken for
\* the end of a list, and the two delta states never part (exchange.rs, codec/mod.rs).  Two kinds
\* of list are lost: one with a time before 1970 is refused, one that is OutOfStep ends anyhow.
ListArrives ==
  OutOfStep \/
    /\ rcv.stage = "failed" => \E i \in DOMAIN snd.entries : Ancient(snd.entries[i])
    /\ rcv.stage = "done" =>
         /\ wire = <<>> /\ snd.stage = "done" /\ Len(rcv.all) = Len(snd.entries)
         /\ {<<rcv.all[i].ndx, rcv.all[i].entry>> : i \in DOMAIN rcv.all}
              = {<<SentNumbers[i], Kept(snd.entries[i])>> : i \in DOMAIN snd.entries}

\* The list announced for a directory holds exactly the entries of the directory with that number,
\* counting the directories in the order the receiver has seen them (incremental.rs from_sorted_entries).
SubListsNamed ==
    rcv.stage = "done" /\ Incremental =>
      LET dirs == SelectSeq(rcv.all, LAMBDA r : IsDir(r.entry))
      IN \A i \in DOMAIN rcv.all :
           LET r == rcv.all[i] IN IF r.dir = -1 THEN ~HasParent(r.entry.name)
                                  ELSE /\ HasParent(r.entry.name) /\ r.dir + 1 \in DOMAIN dirs
                                       /\ Dirname(r.entry.name) = dirs[r.dir + 1].entry.name

\* Every scan ends, whatever vanishes and however links loop, and every list sent is read to its end.
ScanAndExchangeEnd == <>Ended
=============================================================================
