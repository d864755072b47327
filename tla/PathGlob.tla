------------------------------ MODULE PathGlob ------------------------------
(***************************************************************************)
(* The path globs of crates/kernos-policy/src/glob.rs: `*` inside a        *)
(* segment and `**` across segments, and what they are meant to match.     *)
(*                                                                         *)
(* A text is a sequence of character codes: 0 is the star and 1 the slash. *)
(* The recursion of glob.rs goes from a pattern and a text to what follows *)
(* their first elements.  Here n counts what is left of the pattern, and   *)
(* what is left of the text is known by how much of it is gone.            *)
(***************************************************************************)
EXTENDS Integers, Sequences

\* Mutation: a star in a segment stands for at least one character.
segment_match_Some(pattern, text) ==
    LET rests[n \in 0..Len(pattern)] ==
            IF n = 0 THEN {Len(text)}
            ELSE LET byte == pattern[Len(pattern) + 1 - n]
                     after == rests[n - 1]
                 IN  IF byte = 0
                     THEN {gone \in 0..Len(text) : \E skip \in 1..(Len(text) - gone) : gone + skip \in after}
                     ELSE {gone \in 0..(Len(text) - 1) : text[gone + 1] = byte /\ gone + 1 \in after}
    IN  0 \in rests[Len(pattern)]

\* One segment against one segment pattern.
segment_match(pattern, text) ==
    LET rests[n \in 0..Len(pattern)] ==
            IF n = 0 THEN {Len(text)}
            ELSE LET byte == pattern[Len(pattern) + 1 - n]
                     after == rests[n - 1]
                 IN  IF byte = 0
                     THEN {gone \in 0..Len(text) : \E skip \in 0..(Len(text) - gone) : gone + skip \in after}
                     ELSE {gone \in 0..(Len(text) - 1) : text[gone + 1] = byte /\ gone + 1 \in after}
    IN  0 \in rests[Len(pattern)]

\* A list of segments against a list of patterns, in which <<0, 0>> is **.
match_segments(pattern, path) ==
    LET rests[n \in 0..Len(pattern)] ==
            IF n = 0 THEN {Len(path)}
            ELSE LET first == pattern[Len(pattern) + 1 - n]
                     after == rests[n - 1]
                 IN  IF first = <<0, 0>>
                     THEN {gone \in 0..Len(path) : \E skip \in 0..(Len(path) - gone) : gone + skip \in after}
                     ELSE {gone \in 0..(Len(path) - 1) :
                              gone + 1 \in after /\ segment_match(first, path[gone + 1])}
    IN  0 \in rests[Len(pattern)]

\* The segments of a text: what lies between slashes, unless empty.
Closed(cut) == IF cut.open = <<>> THEN cut.done ELSE Append(cut.done, cut.open)
Split(text) ==
    LET cuts[n \in 0..Len(text)] ==
            IF n = 0 THEN [done |-> <<>>, open |-> <<>>]
            ELSE LET cut == cuts[n - 1]
                 IN  IF text[n] = 1 THEN [done |-> Closed(cut), open |-> <<>>]
                     ELSE [done |-> cut.done, open |-> Append(cut.open, text[n])]
    IN  Closed(cuts[Len(text)])

glob_match(pattern, path) == match_segments(Split(pattern), Split(path))

----------------------------------------------------------------------------
(* What a glob is meant to match.                                          *)

\* The text can be cut at one place per symbol of the pattern so that each
\* wildcard covers a run of elements and each other symbol one it matches.
Aligns(symbols, elements, IsWildcard(_), Covers(_, _)) ==
    \E cut \in [0..Len(symbols) -> 0..Len(elements)] :
        /\ cut[0] = 0 /\ cut[Len(symbols)] = Len(elements)
        /\ \A k \in DOMAIN symbols :
              IF IsWildcard(symbols[k]) THEN cut[k - 1] <= cut[k]
              ELSE cut[k] = cut[k - 1] + 1 /\ Covers(symbols[k], elements[cut[k]])

IsStar(c) == c = 0
IsDoubleStar(segment) == segment = <<0, 0>>
Same(a, b) == a = b
SegmentAligns(a, b) == Aligns(a, b, IsStar, Same)

\* glob_match is what its comment says of it: "`*` matches any run of
\* characters inside one segment and `**` matches zero or more whole
\* segments", whatever run each has to take for the rest to match.
GlobAligns(pattern, path) ==
    glob_match(pattern, path) <=> Aligns(Split(pattern), Split(path), IsDoubleStar, SegmentAligns)
=============================================================================
