------------------------------ MODULE Handshake ------------------------------
(* The binary handshake of both ends, as functions of what has been read       *)
(* (ferrosync-protocol/src/handshake.rs).  A vstring of algorithm names is a   *)
(* sequence of names; the compatibility flag word is the set of its bits.      *)
(* Connect.tla puts the reads and writes in order.                             *)
EXTENDS Integers, Sequences, SequencesExt, FiniteSetsExt

MIN_PROTOCOL_VERSION == 27

MAX_PROTOCOL_VERSION == 32

CHECKSUM_LIST == <<"blake3", "xxh128", "xxh3", "md5", "md4", "none">>

COMPRESS_LIST == <<"zlibx", "zlib", "none">>

\* ChecksumType::from_name and CompressType::from_name accept these names.
ChecksumNames == {"none", "md4", "md5", "blake3", "xxh3", "xxh128"}

CompressNames == {"none", "zlib", "zlibx", "zstd", "lz4"}

default_for_version(version) == IF version >= 30 THEN "md5" ELSE "md4"

\* The characters after the `e` of the condensed options.
build_capability_string(inc_recurse, symlink_times, iconv) ==
  SelectSeq(<<".", "i", "L", "s", "f", "x", "C", "I", "v", "u">>,
            LAMBDA c : /\ c = "i" => inc_recurse
                       /\ c = "L" => symlink_times
                       /\ c = "s" => iconv)

build_compat_flags_from_client_info(info) ==
  LET Flag == [f |-> "SAFE_FLIST", x |-> "AVOID_XATTR_OPTIM", C |-> "CHKSUM_SEED_FIX",
               I |-> "INPLACE_PARTIAL_DIR", v |-> "VARINT_FLIST_FLAGS", u |-> "ID0_NAMES"]
  IN {"INC_RECURSE", "SYMLINK_TIMES"} \cup {Flag[c] : c \in ToSet(info) \cap DOMAIN Flag}

\* The first name of the sender's list that the receiver lists too and the
\* parser knows: a sequence of that one name, or <<>> when there is none.
negotiate_algorithm(sender_list, receiver_list, names) ==
  LET common == SelectSeq(sender_list, LAMBDA n : n \in ToSet(receiver_list) \cap names)
  IN SubSeq(common, 1, Min({1, Len(common)}))

\* The newer of the two versions.
Common_newest(own, remote) == Max({own, remote % 256})

\* The version both ends settle on, given their own maximum and the peer's
\* number read `as u8`.
Common(own, remote) == Min({own, remote % 256})

Negotiated(flags) == "VARINT_FLIST_FLAGS" \in flags

\* What an end holds before the lists are exchanged, with its version known.
Defaults(version, use_compress) ==
  [version |-> version, flags |-> {}, checksum |-> default_for_version(version),
   compress |-> IF use_compress THEN "zlib" ELSE "none", seed |-> <<>>]

\* Each end prefers its own list whatever its role.
Agreed_ownFirst(am_sender, own, remote, names) == negotiate_algorithm(own, remote, names)

\* Both lists of one exchange, in the order negotiate_algorithm wants them.
Agreed(am_sender, own, remote, names) ==
  IF am_sender THEN negotiate_algorithm(own, remote, names)
               ELSE negotiate_algorithm(remote, own, names)
==============================================================================
