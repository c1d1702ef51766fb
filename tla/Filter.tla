------------------------------- MODULE Filter -------------------------------
(***************************************************************************)
(* Filter rules: glob patterns over paths (pattern.rs) and ordered rule     *)
(* lists with scopes (rule.rs).  Paths and patterns are sequences of bytes. *)
(* A rule as it is written is [action, text]; the action "Neither" stands   *)
(* for a line that is neither an include nor an exclude.                    *)
(***************************************************************************)
EXTENDS Integers, Sequences, SequencesExt, FiniteSetsExt, Varint

Slash == 47
Dot == 46
STAR == 42
QUESTION == 63
OPEN == 91
CLOSE == 93
DASH == 45
BANG == 33
CARET == 94

Has(s, c) == \E i \in DOMAIN s : s[i] = c
Basename(path) == From(path, 1 + Max({0} \cup {i \in DOMAIN path : path[i] = Slash}))

-----------------------------------------------------------------------------
\* Compiling a pattern.

Unterminated == [seg |-> "Unterminated"]

\* The members of a class from the byte after "[", "[!" or "[^", and what follows "]".
RECURSIVE ClassMembers(_)
ClassMembers(s) ==
    LET And(chars, rest) == [rest EXCEPT !.chars = @ \cup chars]
    IN IF s = <<>> THEN [ok |-> FALSE, chars |-> {}, rest |-> <<>>]
       ELSE IF s[1] = CLOSE THEN [ok |-> TRUE, chars |-> {}, rest |-> Tail(s)]
       ELSE IF Len(s) > 2 /\ s[2] = DASH THEN And(s[1]..s[3], ClassMembers(From(s, 4)))
       ELSE And({s[1]}, ClassMembers(Tail(s)))

parse_char_class(s) ==
    LET negated == Len(s) > 1 /\ s[2] \in {BANG, CARET}
        members == ClassMembers(From(s, IF negated THEN 3 ELSE 2))
    IN [seg |-> IF members.ok THEN [seg |-> "CharClass", chars |-> members.chars, negated |-> negated]
                ELSE Unterminated,
        rest |-> members.rest]

\* "**" swallows the slash behind it; a literal runs up to the next special byte.
RECURSIVE compile(_)
compile(s) ==
    LET special == {i \in DOMAIN s : s[i] \in {STAR, QUESTION, OPEN}}
        stop == IF special = {} THEN Len(s) + 1 ELSE Min(special)
    IN CASE s = <<>> -> <<>>
         [] stop > 1 -> <<[seg |-> "Literal", bytes |-> SubSeq(s, 1, stop - 1)]>> \o compile(From(s, stop))
         [] s[1] = STAR /\ Len(s) > 1 /\ s[2] = STAR ->
              <<[seg |-> "DoubleStar"]>> \o compile(From(s, IF Len(s) > 2 /\ s[3] = Slash THEN 4 ELSE 3))
         [] s[1] = STAR -> <<[seg |-> "Star"]>> \o compile(Tail(s))
         [] s[1] = QUESTION -> <<[seg |-> "Question"]>> \o compile(Tail(s))
         [] s[1] = OPEN -> LET class == parse_char_class(s) IN <<class.seg>> \o compile(class.rest)

Pattern(text) ==
    LET leading == text # <<>> /\ text[1] = Slash
        body == IF leading THEN Tail(text) ELSE text
        dirOnly == body # <<>> /\ Last(body) = Slash
        pat == IF dirOnly THEN Front(body) ELSE body
    IN [anchored |-> leading \/ Has(pat, Slash), dirOnly |-> dirOnly, segments |-> compile(pat)]

-----------------------------------------------------------------------------
\* Matching.

RECURSIVE match_recursive(_, _)
match_recursive(segments, text) ==
    LET s == Head(segments)
        After(n) == match_recursive(Tail(segments), From(text, n + 1))
    IN IF segments = <<>> THEN text = <<>>
       ELSE CASE s.seg = "Literal" -> IsPrefix(s.bytes, text) /\ After(Len(s.bytes))
              [] s.seg = "Star" -> \E n \in 0..Len(text) : ~Has(SubSeq(text, 1, n), Slash) /\ After(n)
              [] s.seg = "DoubleStar" -> \E n \in 0..Len(text) : After(n)
              [] s.seg = "Question" -> text # <<>> /\ text[1] # Slash /\ After(1)
              [] s.seg = "CharClass" -> text # <<>> /\ (text[1] \in s.chars) # s.negated /\ After(1)

PatternMatches(p, path, isDir) ==
    /\ p.dirOnly => isDir
    /\ \/ match_recursive(p.segments, path)
       \/ ~p.anchored /\ match_recursive(p.segments, Basename(path))

-----------------------------------------------------------------------------
\* Rule lists.

\* What FilterRule::parse and Pattern::new accept.
Parses(line) ==
    /\ line.action \in {"Include", "Exclude"}
    /\ \A i \in DOMAIN Pattern(line.text).segments : Pattern(line.text).segments[i] # Unterminated
Rule(line) == [action |-> line.action, pattern |-> Pattern(line.text)]

\* The first rule that matches decides; no rule includes.
is_included(rules, path, isDir) ==
    LET hits == {i \in DOMAIN rules : PatternMatches(rules[i].pattern, path, isDir)}
    IN hits # {} => rules[Min(hits)].action = "Include"

\* A rule file is read up to its first line that does not parse.
merge_filter_file(rules, lines) ==
    LET bad == {i \in DOMAIN lines : ~Parses(lines[i])}
        good == SubSeq(lines, 1, IF bad = {} THEN Len(lines) ELSE Min(bad) - 1)
    IN rules \o [i \in DOMAIN good |-> Rule(good[i])]

Lines(action, texts) == [i \in DOMAIN texts |-> [action |-> action, text |-> texts[i]]]

\* Order: --filter, --include, --include-from, --exclude-from, --exclude.  A file is
\* <<patterns>>, or <<>> if it cannot be read; that, or a line that does not parse, is
\* an error.
from_options(excludes, includes, filters, includeFrom, excludeFrom) ==
    LET read(files) == FlattenSeq(FlattenSeq(files))
        lines == filters \o Lines("Include", includes \o read(includeFrom))
                         \o Lines("Exclude", read(excludeFrom) \o excludes)
    IN [ok |-> (\A i \in DOMAIN lines : Parses(lines[i])) /\ <<>> \notin ToSet(includeFrom \o excludeFrom),
        rules |-> merge_filter_file(<<>>, lines)]

\* -C: the built-in patterns, behind all others.
add_cvs_excludes(rules, patterns) == merge_filter_file(rules, Lines("Exclude", patterns))

-----------------------------------------------------------------------------
\* What a pattern means, without the matcher's recursion: some way to cut the text
\* into one piece per segment.
Fits(s, piece) ==
    CASE s.seg = "Literal" -> piece = s.bytes
      [] s.seg = "Star" -> ~Has(piece, Slash)
      [] s.seg = "DoubleStar" -> TRUE
      [] s.seg = "Question" -> Len(piece) = 1 /\ piece[1] # Slash
      [] s.seg = "CharClass" -> Len(piece) = 1 /\ (piece[1] \in s.chars) # s.negated

Language(segments, text) ==
    \E cut \in [0..Len(segments) -> 0..Len(text)] :
        /\ cut[0] = 0 /\ cut[Len(segments)] = Len(text)
        /\ \A i \in DOMAIN segments : /\ cut[i - 1] <= cut[i]
                                      /\ Fits(segments[i], SubSeq(text, cut[i - 1] + 1, cut[i]))

Means(p, path, isDir) ==
    /\ p.dirOnly => isDir
    /\ Language(p.segments, path) \/ (~p.anchored /\ Language(p.segments, Basename(path)))

Allowed(rules, path, isDir) ==
    \A i \in DOMAIN rules :
        rules[i].action = "Exclude" /\ Means(rules[i].pattern, path, isDir)
          => \E j \in 1..(i - 1) : Means(rules[j].pattern, path, isDir)
                                   /\ rules[j].action = "Include"
=============================================================================
