----------------------------- MODULE FlistCodec -----------------------------
(***************************************************************************)
(* The bytes of a file list entry: its flags relative to the entry before   *)
(* it, its name, the hard link reference and the metadata fields, in every  *)
(* protocol version.  An option type is a sequence of length 0 or 1.        *)
(*                                                                          *)
(* Entries are built by metadata.rs, which leaves user_name, group_name and *)
(* checksum empty, so no *_NAME_FOLLOWS flag is ever set by the encoder.    *)
(***************************************************************************)
EXTENDS Filter

-----------------------------------------------------------------------------
\* The decisions taken once, from the version and the compatibility flags.

WireFormat(version, varintFlags, incRecurse) ==
    [int |-> IF version >= 30 THEN "Compact" ELSE "Fixed",
     flags |-> IF varintFlags THEN "Varint" ELSE IF version >= 28 THEN "ByteExtended" ELSE "Byte",
     device |-> IF version < 28 THEN "SingleInt" ELSE "MajorMinor",
     minor |-> IF version >= 30 THEN "Compact" ELSE "Fixed",
     nanoseconds |-> version >= 31, specialRdev |-> version < 31,
     incremental |-> version >= 30 /\ incRecurse, trailingIoError |-> version < 30]

S_IFDIR == 4
S_IFREG == 8
S_IFLNK == 10
Type(mode) == mode \div 4096
IsDevice(mode) == Type(mode) \in {2, 6}
IsSpecial(mode) == Type(mode) \in {1, 12}

\* A flag is the number of its bit.
TOP_DIR == 0
SAME_MODE == 1
EXTENDED_FLAGS == 2
SAME_RDEV_PRE28 == 2
SAME_UID == 3
SAME_GID == 4
SAME_NAME == 5
LONG_NAME == 6
SAME_TIME == 7
SAME_RDEV_MAJOR == 8
HLINKED == 9
HLINK_FIRST == 12
IO_ERROR_ENDLIST == 12
MOD_NSEC == 13

Raw(flags) == FoldSet(LAMBDA b, sum : sum + 2 ^ b, 0, flags)
Bits(raw) == {b \in 0..15 : (raw \div 2 ^ b) % 2 = 1}

MaxPrefix == 255
MAX_NAME_LEN == 65536

DeltaState == [name |-> <<>>, mtime |-> Zeros(8), mode |-> 0, uid |-> 0, gid |-> 0, rdev |-> 0, start |-> 0]

update_delta_state(state, e) ==
    [state EXCEPT !.name = e.name, !.mtime = e.mtime, !.mode = e.mode,
                  !.uid = e.uid, !.gid = e.gid, !.rdev = e.rdev]

should_send_rdev(mode, opts) ==
    \/ opts.devices /\ IsDevice(mode)
    \/ opts.specials /\ IsSpecial(mode) /\ opts.wire.specialRdev

common_prefix_len(a, b) ==
    Max({n \in 0..Min({Len(a), Len(b), MaxPrefix}) : SubSeq(a, 1, n) = SubSeq(b, 1, n)})

-----------------------------------------------------------------------------
\* Readers in sequence: n items, an item or none, n bytes.

\* One reader after another: the second gets what the first read and what it left.
Then(r, Next(_, _)) == IF r.ok THEN Next(r.val, r.rest) ELSE Refused

ReadMany(n, s, Read(_)) ==
    LET Next(acc, i) == LET one == Read(acc.rest)
                        IN IF acc.ok /\ one.ok THEN Accept(Append(acc.val, one.val), one.rest) ELSE Refused
    IN IF n \notin 0..Len(s) THEN Refused ELSE FoldLeft(Next, Accept(<<>>, s), [i \in 1..n |-> i])
ReadOption(present, s, Read(_)) == ReadMany(IF present THEN 1 ELSE 0, s, Read)
ReadBytes(s, n) == IF n \notin 0..Len(s) THEN Refused ELSE read_fixed(s, n)
ReadByte(s) == IF s = <<>> THEN Refused ELSE Accept(s[1], Tail(s))
Number(r) == IF r.ok THEN Accept(IntOf(r.val), r.rest) ELSE Refused
ReadNumber(s) == Number(read_varint(s))
WriteNumber(n) == write_varint(BytesOf(n))

-----------------------------------------------------------------------------
\* Hard links: the encoder remembers the index of the first name of an inode.

HardLinkCheck(hlinks, e, ndx, opts) ==
    LET first == {h \in hlinks : h.inode = e.inode}
    IN IF ~opts.hardLinks \/ e.nlink <= 1 THEN "NotHardLinked"
       ELSE IF first = {} THEN "FirstOccurrence" ELSE "DuplicateOf"
FirstIndex(hlinks, e) == (CHOOSE h \in hlinks : h.inode = e.inode).ndx

compute_xmit_flags(e, state, opts, action) ==
    LET prefix == common_prefix_len(state.name, e.name)
        hasPrev == state.name # <<>>
        On(flag, cond) == IF cond THEN {flag} ELSE {}
    IN On(HLINKED, action # "NotHardLinked") \cup On(HLINK_FIRST, action = "FirstOccurrence")
       \cup On(SAME_NAME, prefix > 0) \cup On(LONG_NAME, Len(e.name) - prefix > 255)
       \cup On(SAME_TIME, hasPrev /\ e.mtime = state.mtime)
       \cup On(SAME_MODE, hasPrev /\ e.mode = state.mode)
       \cup On(SAME_UID, ~opts.uid \/ (hasPrev /\ e.uid = state.uid))
       \cup On(SAME_GID, ~opts.gid \/ (hasPrev /\ e.gid = state.gid))
       \cup On(SAME_RDEV_MAJOR, should_send_rdev(e.mode, opts) /\ opts.wire.device = "MajorMinor"
                                /\ e.rdev \div 256 = state.rdev \div 256)
       \cup On(SAME_RDEV_PRE28, should_send_rdev(e.mode, opts) /\ opts.wire.device = "SingleInt"
                                /\ e.rdev = state.rdev)
       \cup On(MOD_NSEC, opts.wire.nanoseconds /\ e.nsec # 0)

Short(raw) == SubSeq(BytesOf(raw), 1, 2)

\* Mutant: no flags at all are written as they are.
encode_xmit_flags_zero(flags, codec) ==
    LET raw == Raw(flags) IN IF codec = "Varint" THEN WriteNumber(raw)
                             ELSE IF codec = "ByteExtended" /\ raw > 255 THEN Short(Raw(flags \cup {EXTENDED_FLAGS}))
                             ELSE <<raw % 256>>

\* No encoding of an entry's flags is the single zero that ends a list.
encode_xmit_flags(flags, codec) ==
    LET raw == Raw(flags)
    IN CASE codec = "Varint" -> WriteNumber(IF raw = 0 THEN 2 ^ EXTENDED_FLAGS ELSE raw)
         [] codec = "ByteExtended" -> IF raw > 255 \/ raw = 0 THEN Short(Raw(flags \cup {EXTENDED_FLAGS}))
                                      ELSE <<raw>>
         [] codec = "Byte" -> <<IF raw % 256 = 0 THEN 2 ^ TOP_DIR ELSE raw % 256>>

EndOfList(rest) == [ok |-> TRUE, val |-> <<>>, rest |-> rest]

\* The flags as <<set>>, or <<>> at the end of the list.
decode_xmit_flags(s, codec) ==
    LET f == ReadNumber(s)
        io(from) == LET e == ReadNumber(from) IN IF e.ok THEN EndOfList(e.rest) ELSE Refused
        both == s[1] + 256 * s[2]
    IN IF s = <<>> THEN Refused
       ELSE IF codec = "Varint" THEN IF ~f.ok THEN Refused ELSE IF f.val = 0 THEN io(f.rest)
                                     ELSE Accept(<<Bits(f.val)>>, f.rest)
       ELSE IF s[1] = 0 THEN EndOfList(Tail(s))
       ELSE IF codec = "Byte" \/ EXTENDED_FLAGS \notin Bits(s[1]) THEN Accept(<<Bits(s[1])>>, Tail(s))
       ELSE IF Len(s) < 2 THEN Refused
       ELSE IF Bits(both) = {EXTENDED_FLAGS, IO_ERROR_ENDLIST} THEN io(From(s, 3))
       ELSE Accept(<<Bits(both)>>, From(s, 3))

encode_end_of_flist(ioError, codec) ==
    CASE codec = "Varint" -> WriteNumber(0) \o WriteNumber(ioError)
      [] codec = "ByteExtended" /\ ioError # 0 -> Short(Raw({EXTENDED_FLAGS, IO_ERROR_ENDLIST})) \o WriteNumber(ioError)
      [] OTHER -> <<0>>

-----------------------------------------------------------------------------
\* The name: how much of the previous name it shares, and the rest.

encode_filename(e, state, flags, codec) ==
    LET n == common_prefix_len(state.name, e.name)
    IN (IF SAME_NAME \in flags THEN <<n>> ELSE <<>>)
       \o (IF LONG_NAME \in flags THEN write_varint30(BytesOf(Len(e.name) - n), codec) ELSE <<Len(e.name) - n>>)
       \o From(e.name, n + 1)

decode_filename(s, state, flags, codec) ==
    LET Prefix == IF SAME_NAME \in flags THEN ReadByte(s) ELSE Accept(0, s)
        SuffixLen(rest) == IF LONG_NAME \in flags THEN Number(read_varint30(rest, codec)) ELSE ReadByte(rest)
        Suffix(prefix, len, rest) ==
            IF prefix + len > MAX_NAME_LEN \/ prefix > Len(state.name) THEN Refused
            ELSE Then(ReadBytes(rest, len), LAMBDA bytes, left : Accept(SubSeq(state.name, 1, prefix) \o bytes, left))
    IN Then(Prefix, LAMBDA prefix, rest : Then(SuffixLen(rest), LAMBDA len, left : Suffix(prefix, len, left)))

-----------------------------------------------------------------------------
\* Access control lists and extended attributes: sent once, then by their number in
\* the list of those sent before.

EmptyAcl == [obj |-> <<<<>>, <<>>, <<>>, <<>>>>, named |-> <<>>]

\* The kernel's entries by tag: USER_OBJ, GROUP_OBJ, MASK and OTHER are single, the
\* last one counts; USER and GROUP are named.
AclTags == <<"USER_OBJ", "GROUP_OBJ", "MASK", "OTHER">>
parse_posix_acl_binary(aces) ==
    LET Of(tag) == {i \in DOMAIN aces : aces[i].tag = tag}
        named == SelectSeq(aces, LAMBDA a : a.tag \in {"USER", "GROUP"})
    IN [obj |-> [t \in 1..4 |-> IF Of(AclTags[t]) = {} THEN <<>> ELSE <<aces[Max(Of(AclTags[t]))].perm>>],
        named |-> [i \in DOMAIN named |->
                     [user |-> named[i].tag = "USER", id |-> named[i].id, access |-> named[i].perm]]]

Position(list, item) == Min({Len(list) + 1} \cup {i \in DOMAIN list : list[i] = item})
Sent(bytes, list) == [bytes |-> bytes, list |-> list]

encode_one_acl(acl, list) ==
    LET at == Position(list, acl)
        bits == {t - 1 : t \in {t \in 1..4 : acl.obj[t] # <<>>}} \cup (IF acl.named # <<>> THEN {4} ELSE {})
        obj(t) == IF acl.obj[t] = <<>> THEN <<>> ELSE WriteNumber(acl.obj[t][1])
        ace(a) == WriteNumber(a.id) \o WriteNumber(4 * a.access + IF a.user THEN 2 ELSE 0)
        named == FlattenSeq([i \in DOMAIN acl.named |-> ace(acl.named[i])])
    IN IF at <= Len(list) THEN Sent(WriteNumber(at), list)
       ELSE Sent(WriteNumber(0) \o <<Raw(bits)>> \o FlattenSeq([t \in 1..4 |-> obj(t)])
                 \o (IF acl.named = <<>> THEN <<>> ELSE WriteNumber(Len(acl.named)) \o named), Append(list, acl))

decode_one_acl(s, list) ==
    LET Obj(flags, acc, t) ==
            Then(acc, LAMBDA obj, rest : Then(ReadOption(t - 1 \in Bits(flags), rest, ReadNumber),
                                              LAMBDA perm, left : Accept(Append(obj, perm), left)))
        Ace(rest) == Then(ReadNumber(rest), LAMBDA id, more : Then(ReadNumber(more), LAMBDA access, left :
                       Accept([user |-> 1 \in Bits(access), id |-> id, access |-> access \div 4], left)))
        Named(flags, rest) == IF 4 \notin Bits(flags) THEN Accept(<<>>, rest)
                              ELSE Then(ReadNumber(rest), LAMBDA n, left : ReadMany(n, left, Ace))
        Literal(flags, rest) ==
            Then(FoldLeft(LAMBDA acc, t : Obj(flags, acc, t), Accept(<<>>, rest), <<1, 2, 3, 4>>), LAMBDA obj, more :
              Then(Named(flags, more), LAMBDA named, left :
                LET acl == [obj |-> obj, named |-> named] IN Accept([acl |-> acl, list |-> Append(list, acl)], left)))
        Which(at, rest) == IF at = 0 THEN Then(ReadByte(rest), Literal)
                           ELSE IF at \in DOMAIN list THEN Accept([acl |-> list[at], list |-> list], rest) ELSE Refused
    IN Then(ReadNumber(s), Which)

\* An entry's acl is <<>>, or <<access, default>> with default <<>> or <<acl>>.
AccessAcl(e) == IF e.acl = <<>> THEN EmptyAcl ELSE e.acl[1]
DefaultAcl(e) == IF e.acl = <<>> \/ e.acl[2] = <<>> THEN EmptyAcl ELSE e.acl[2][1]
encode_acl(e, lists) ==
    LET a == encode_one_acl(AccessAcl(e), lists.access)
        d == encode_one_acl(DefaultAcl(e), lists.default)
    IN IF Type(e.mode) = S_IFDIR
       THEN [bytes |-> a.bytes \o d.bytes, lists |-> [access |-> a.list, default |-> d.list]]
       ELSE [bytes |-> a.bytes, lists |-> [lists EXCEPT !.access = a.list]]

decode_acl(s, mode, lists) ==
    LET Pair(access, default) == IF access = EmptyAcl /\ default = <<>> THEN <<>> ELSE <<access, default>>
        Both(a, rest) ==
            IF Type(mode) # S_IFDIR
            THEN Accept([acl |-> Pair(a.acl, <<>>), lists |-> [lists EXCEPT !.access = a.list]], rest)
            ELSE Then(decode_one_acl(rest, lists.default), LAMBDA d, left :
                   Accept([acl |-> Pair(a.acl, IF d.acl = EmptyAcl THEN <<>> ELSE <<d.acl>>),
                           lists |-> [access |-> a.list, default |-> d.list]], left))
    IN Then(decode_one_acl(s, lists.access), Both)

encode_xattrs(e, seen) ==
    LET at == Position(seen, e.xattrs)
        one(x) == WriteNumber(Len(x.name)) \o WriteNumber(Len(x.value)) \o x.name \o x.value
    IN IF at <= Len(seen) THEN Sent(WriteNumber(at), seen)
       ELSE Sent(WriteNumber(0) \o WriteNumber(Len(e.xattrs))
                 \o FlattenSeq([i \in DOMAIN e.xattrs |-> one(e.xattrs[i])]), Append(seen, e.xattrs))

decode_xattrs(s, seen) ==
    LET Pair(lens, rest) ==
            Then(ReadBytes(rest, lens[1]), LAMBDA name, more : Then(ReadBytes(more, lens[2]), LAMBDA value, left :
              Accept([name |-> name, value |-> value], left)))
        One(rest) == Then(ReadNumber(rest), LAMBDA n, more : Then(ReadNumber(more), LAMBDA m, left : Pair(<<n, m>>, left)))
        Literal(count, rest) ==
            Then(ReadMany(count, rest, One), LAMBDA all, left : Accept([xattrs |-> all, seen |-> Append(seen, all)], left))
        Which(at, rest) == IF at = 0 THEN Then(ReadNumber(rest), Literal)
                           ELSE IF at \in DOMAIN seen THEN Accept([xattrs |-> seen[at], seen |-> seen], rest) ELSE Refused
    IN Then(ReadNumber(s), Which)

-----------------------------------------------------------------------------
\* A whole entry.  The encoder's and the decoder's state:

EncoderState == [delta |-> DeltaState, hlinks |-> {}, acls |-> [access |-> <<>>, default |-> <<>>], xattrs |-> <<>>]
DecoderState == [delta |-> DeltaState, acls |-> [access |-> <<>>, default |-> <<>>], xattrs |-> <<>>]

SendsLink(mode, opts) == opts.links /\ Type(mode) = S_IFLNK
SendsChecksum(mode, opts) == opts.checksum /\ (Type(mode) = S_IFREG \/ opts.wire.flags = "Byte")
SendsAcl(mode, opts) == opts.acls /\ Type(mode) # S_IFLNK

encode_mtime(e, flags, codec) ==
    IF SAME_TIME \in flags THEN <<>>
    ELSE IF codec = "Compact" THEN write_varlong(e.mtime, 4) ELSE SubSeq(e.mtime, 1, 4)

encode_id(id, codec) == write_varint30(BytesOf(id), codec)

encode_rdev(e, flags, opts) ==
    CASE ~should_send_rdev(e.mode, opts) -> <<>>
      [] opts.wire.device = "SingleInt" -> IF SAME_RDEV_PRE28 \in flags THEN <<>> ELSE BytesOf(e.rdev)
      [] OTHER -> (IF SAME_RDEV_MAJOR \in flags THEN <<>> ELSE write_varint30(BytesOf(e.rdev \div 256), opts.wire.int))
                  \o write_varint30(BytesOf(e.rdev % 256), opts.wire.minor)

\* The fields that follow the name, without acl and xattrs.
encode_fields(e, flags, opts) ==
    LET codec == opts.wire.int
        If(c, bytes) == IF c THEN bytes ELSE <<>>
    IN write_varlong30(e.len, 3, codec)
       \o encode_mtime(e, flags, codec)
       \o If(MOD_NSEC \in flags, WriteNumber(e.nsec))
       \o If(SAME_MODE \notin flags, BytesOf(e.mode))
       \o If(SAME_UID \notin flags, encode_id(e.uid, codec))
       \o If(SAME_GID \notin flags, encode_id(e.gid, codec))
       \o encode_rdev(e, flags, opts)
       \o If(SendsLink(e.mode, opts), write_varint30(BytesOf(Len(e.target)), codec) \o e.target)
       \o If(SendsChecksum(e.mode, opts), Zeros(opts.checksumLen))

encode_entry(e, ndx, enc, opts) ==
    LET action == HardLinkCheck(enc.hlinks, e, ndx, opts)
        flags == compute_xmit_flags(e, enc.delta, opts, action)
        head == encode_xmit_flags(flags, opts.wire.flags) \o encode_filename(e, enc.delta, flags, opts.wire.int)
        acl == IF SendsAcl(e.mode, opts) THEN encode_acl(e, enc.acls) ELSE [bytes |-> <<>>, lists |-> enc.acls]
        xattrs == IF opts.xattrs THEN encode_xattrs(e, enc.xattrs) ELSE Sent(<<>>, enc.xattrs)
        delta == update_delta_state(enc.delta, e)
    IN IF action = "DuplicateOf"
       THEN [bytes |-> head \o WriteNumber(FirstIndex(enc.hlinks, e)), enc |-> [enc EXCEPT !.delta = delta]]
       ELSE [bytes |-> head \o encode_fields(e, flags, opts) \o acl.bytes \o xattrs.bytes,
             enc |-> [delta |-> delta, acls |-> acl.lists, xattrs |-> xattrs.list,
                      hlinks |-> enc.hlinks \cup IF action = "FirstOccurrence" THEN {[inode |-> e.inode, ndx |-> ndx]} ELSE {}]]

Extended(le) == le \o [i \in 1..4 |-> IF le[4] >= 128 THEN 255 ELSE 0]
decode_mtime(s, state, flags, codec) ==
    IF SAME_TIME \in flags THEN Accept(state.mtime, s)
    ELSE IF codec = "Compact" THEN read_varlong(s, 4)
    ELSE Then(ReadBytes(s, 4), LAMBDA le, rest : Accept(Extended(le), rest))

decode_rdev(s, mode, state, flags, opts) ==
    LET Major == IF SAME_RDEV_MAJOR \in flags THEN Accept(state.rdev \div 256, s) ELSE Number(read_varint30(s, opts.wire.int))
        Minor(major, rest) == Then(Number(read_varint30(rest, opts.wire.minor)),
                                   LAMBDA minor, left : Accept(256 * major + minor, left))
    IN CASE ~should_send_rdev(mode, opts) -> Accept(0, s)
         [] opts.wire.device = "MajorMinor" -> Then(Major, Minor)
         [] SAME_RDEV_PRE28 \in flags -> Accept(state.rdev, s)
         [] OTHER -> Number(read_fixed(s, 4))

decode_link(s, codec) ==
    Then(Number(read_varint30(s, codec)), LAMBDA len, rest : IF len > MAX_NAME_LEN THEN Refused ELSE ReadBytes(rest, len))

\* traverse_fields: the order of the fields after the name.
Fields == <<"len", "mtime", "nsec", "mode", "uid", "gid", "rdev", "target", "checksum", "acl", "xattrs">>

\* One field of the entry e read so far; absent fields have the value they imply.
decode_field(field, s, e, flags, dec, opts) ==
    LET codec == opts.wire.int
        st == dec.delta
        If(present, r, absent) == IF present THEN r ELSE Accept(absent, s)
    IN CASE field = "len" -> read_varlong30(s, 3, codec)
         [] field = "mtime" -> decode_mtime(s, st, flags, codec)
         [] field = "nsec" -> If(opts.wire.nanoseconds /\ MOD_NSEC \in flags, ReadNumber(s), 0)
         [] field = "mode" -> If(SAME_MODE \notin flags, Number(read_fixed(s, 4)), st.mode)
         [] field = "uid" -> If(opts.uid /\ SAME_UID \notin flags, Number(read_varint30(s, codec)), st.uid)
         [] field = "gid" -> If(opts.gid /\ SAME_GID \notin flags, Number(read_varint30(s, codec)), st.gid)
         [] field = "rdev" -> decode_rdev(s, e.mode, st, flags, opts)
         [] field = "target" -> If(SendsLink(e.mode, opts), decode_link(s, codec), <<>>)
         [] field = "checksum" -> If(SendsChecksum(e.mode, opts), ReadBytes(s, opts.checksumLen), <<>>)
         [] field = "acl" -> If(SendsAcl(e.mode, opts), decode_acl(s, e.mode, dec.acls), [acl |-> <<>>, lists |-> dec.acls])
         [] field = "xattrs" -> If(opts.xattrs, decode_xattrs(s, dec.xattrs), [xattrs |-> <<>>, seen |-> dec.xattrs])

decode_fields(s, name, flags, dec, opts) ==
    LET Step(acc, field) == Then(acc, LAMBDA e, rest : Then(decode_field(field, rest, e, flags, dec, opts),
                                                            LAMBDA val, left : Accept([e EXCEPT ![field] = val], left)))
        blank == [name |-> name, linkOf |-> <<>>] @@ [f \in ToSet(Fields) |-> 0]
        Entry(v) == [v EXCEPT !.acl = v.acl.acl, !.xattrs = v.xattrs.xattrs]
    IN Then(FoldLeft(Step, Accept(blank, s), Fields), LAMBDA v, rest :
         Accept([entry |-> <<Entry(v)>>, dec |-> [delta |-> update_delta_state(dec.delta, Entry(v)),
                                                  acls |-> v.acl.lists, xattrs |-> v.xattrs.seen]], rest))

\* A duplicate is a copy of the first, if that is in this list; otherwise its fields
\* are expected on the wire.
decode_hlink(first, rest, name, flags, prev, dec, opts) ==
    LET local == first - dec.delta.start + 1
        dup == [prev[local] EXCEPT !.name = name, !.linkOf = prev[local].name]
    IN IF local \in DOMAIN prev
       THEN Accept([entry |-> <<dup>>, dec |-> [dec EXCEPT !.delta = update_delta_state(@, dup)]], rest)
       ELSE decode_fields(rest, name, flags, dec, opts)

\* An entry, or none at the end of the list.
decode_entry(s, prev, dec, opts) ==
    LET Body(name, flags, rest) ==
            IF opts.hardLinks /\ HLINKED \in flags /\ HLINK_FIRST \notin flags
            THEN Then(ReadNumber(rest), LAMBDA first, left : decode_hlink(first, left, name, flags, prev, dec, opts))
            ELSE decode_fields(rest, name, flags, dec, opts)
        Entry(f, rest) ==
            IF f = <<>> THEN Accept([entry |-> <<>>, dec |-> dec], rest)
            ELSE Then(decode_filename(rest, dec.delta, f[1], opts.wire.int),
                      LAMBDA name, left : Body(name, f[1], left))
    IN Then(decode_xmit_flags(s, opts.wire.flags), Entry)
=============================================================================
