------------------------------- MODULE DavPath -------------------------------
(***************************************************************************)
(* Package davpath: paths between percent-encoded text and segments.       *)
(*                                                                         *)
(* A character [c, n] stands for c percent-encoded n times over, so that   *)
(* decoding a text takes one from each n.  ["%", 0] is a percent sign that *)
(* is not the start of an escape.  A segment is a sequence of characters,  *)
(* an escaped path the sequence of what is between its slashes:            *)
(* "/a/" is <<a, <<>>>>, "/" is <<<<>>>>, and <<>> is no path at all.      *)
(***************************************************************************)
EXTENDS SequencesExt

-----------------------------------------------------------------------------
\* Segments.

dot == <<[c |-> ".", n |-> 0]>>
dotdot == dot \o dot

\* What flawed upstreams may take another character for, and any character.
Feared == {".", "..", "/", "\\"}
Character == [c : Feared \cup STRING, n : Nat]
Segment == Seq(Character)

\* What a resource may be called.
Name == Segment \ {<<>>, dot, dotdot}

BadEscape(s) == \E i \in DOMAIN s : s[i] = [c |-> "%", n |-> 0]
PathUnescape(s) ==
    [i \in DOMAIN s |-> [s[i] EXCEPT !.n = IF @ = 0 THEN 0 ELSE @ - 1]]
HasPercent(s) == \E i \in DOMAIN s : s[i].n > 0 \/ s[i].c = "%"

isUnreserved(ch) == ch.n = 0 /\ ch.c \in {"x", "y", "."}

\* What flawed upstreams may take for another character, or for two dots.
confusables ==
    [c \in {"wide_dot", "overlong_dot", "two_dots", "wide_slash", "yen"} |->
        CASE c \in {"wide_dot", "overlong_dot"} -> "."
          [] c = "two_dots" -> ".."
          [] c = "wide_slash" -> "/"
          [] c = "yen" -> "\\"]

fold(s) ==
    [i \in DOMAIN s |->
        IF s[i].n = 0 /\ s[i].c \in DOMAIN confusables
        THEN [s[i] EXCEPT !.c = confusables[@]] ELSE s[i]]

\* strings.FieldsFunc: the maximal runs without a separator.
isSeparator(ch) == ch \in [c : {"/", "\\"}, n : {0}]
Fields(s) ==
    LET runs == {p \in (DOMAIN s) \X (DOMAIN s) :
                    /\ p[1] <= p[2]
                    /\ \A k \in p[1]..p[2] : ~isSeparator(s[k])
                    /\ p[1] = 1 \/ isSeparator(s[p[1] - 1])
                    /\ p[2] = Len(s) \/ isSeparator(s[p[2] + 1])}
    IN  {SubSeq(s, p[1], p[2]) : p \in runs}

DotsAndSpaces(s) == \A i \in DOMAIN s : s[i] \in [c : {".", "..", "space"}, n : {0}]
HasNUL(s) == \E i \in DOMAIN s : s[i] = [c |-> "NUL", n |-> 0]

maxDecodeDepth == 3

\* What is wrong with a text as it is, without decoding it.
Dangerous(s) ==
    \E v \in {s, fold(s)} : HasNUL(v) \/ \E part \in Fields(v) : DotsAndSpaces(part)

\* The parts of a text that can be decoded, decoded once.
Decoded(s) ==
    {PathUnescape(part) : part \in
        {p \in Fields(s) \cup Fields(fold(s)) : HasPercent(p) /\ ~BadEscape(p)}}

\* The parts decoded so many times.
DecodedParts(s) ==
    LET parts[d \in 0..maxDecodeDepth] ==
            IF d = 0 THEN {s} ELSE UNION {Decoded(t) : t \in parts[d - 1]}
    IN  parts

\* Mutant: what was decoded too often passes.
UnsafeUnlimited(s) ==
    \E d \in 0..(maxDecodeDepth - 1) : \E t \in DecodedParts(s)[d] : Dangerous(t)

\* checkComponent returns ErrUnsafe.
Unsafe(s) ==
    \/ \E d \in 0..(maxDecodeDepth - 1) : \E t \in DecodedParts(s)[d] : Dangerous(t)
    \/ DecodedParts(s)[maxDecodeDepth] # {}

checkComponent(s) == ~Unsafe(s)

-----------------------------------------------------------------------------
\* Paths.

IsDir(path) == path # <<>> /\ Last(path) = <<>>
DropLast(s) == SubSeq(s, 1, Len(s) - 1)

\* The segments after one more of them: empty ones are left out, and dot
\* segments are resolved.
Descend(segs, seg) ==
    IF seg \in {<<>>, dot} THEN segs
    ELSE IF seg = dotdot THEN (IF segs = <<>> THEN <<>> ELSE DropLast(segs))
    ELSE Append(segs, seg)

\* Where a path leads from the root.
Resolved(path) ==
    LET segs[i \in 0..Len(path)] ==
            IF i = 0 THEN <<>> ELSE Descend(segs[i - 1], path[i])
    IN  segs[Len(path)]

\* A path whose parts are decoded already.
ParsedPath(path) ==
    [ok |-> TRUE,
     segs |-> Resolved(path),
     dir |-> IsDir(path) \/ Last(path) \in {dot, dotdot}]

NotOK == [ok |-> FALSE]

\* davpath.Parse: decoded segments, or an error.
Parse(path) ==
    IF path = <<>> \/ \E i \in DOMAIN path :
          \/ BadEscape(path[i])
          \/ LET seg == PathUnescape(path[i])
             IN  seg \notin {<<>>, dot, dotdot} /\ ~checkComponent(seg)
    THEN NotOK
    ELSE ParsedPath([i \in DOMAIN path |-> PathUnescape(path[i])])

\* davpath.SplitLiteral: a path of the configuration.
SplitLiteral(literal) ==
    LET trimmed == IF Len(literal) > 1 /\ IsDir(literal) THEN DropLast(literal)
                   ELSE literal
    IN  IF literal = <<>> THEN NotOK
        ELSE IF trimmed = <<<<>>>> THEN [ok |-> TRUE, segs |-> <<>>]
        ELSE IF \E i \in DOMAIN trimmed :
                   trimmed[i] \in {<<>>, dot, dotdot} \/ ~checkComponent(trimmed[i])
        THEN NotOK
        ELSE [ok |-> TRUE, segs |-> trimmed]

\* Mutant: percent signs are kept.
EncodeKeepPercent(segs, dir) ==
    [i \in DOMAIN segs |-> [k \in DOMAIN segs[i] |->
        [segs[i][k] EXCEPT !.n = IF HasPercent(<<segs[i][k]>>) \/ isUnreserved(segs[i][k])
                                 THEN @ ELSE @ + 1]]]
    \o (IF dir \/ segs = <<>> THEN <<<<>>>> ELSE <<>>)

\* davpath.Encode: everything but unreserved characters is encoded.
Encode(segs, dir) ==
    [i \in DOMAIN segs |-> [k \in DOMAIN segs[i] |->
        [segs[i][k] EXCEPT !.n = IF isUnreserved(segs[i][k]) THEN 0 ELSE @ + 1]]]
    \o (IF dir \/ segs = <<>> THEN <<<<>>>> ELSE <<>>)

\* Mutant: relative references are resolved below the whole base.
BelowBase(base) == base

\* What a relative reference is appended to.
Directory(base) == DropLast(base)

\* The path of an href, before it is decoded.  An href has a form: a URL with
\* a scheme and a host, one with a scheme only, an absolute path or a relative
\* reference; base is the path of the request that was answered.
HrefPath(href, base) ==
    CASE href.form = "opaque" -> <<>>
      [] href.form = "url" -> href.path
      [] href.form = "absolute" ->
           IF Len(href.path) > 1 /\ href.path[1] = <<>>   \* "//": an authority
           THEN IF Len(href.path) = 2 THEN <<<<>>>> ELSE SubSeq(href.path, 3, Len(href.path))
           ELSE href.path
      [] href.form = "relative" /\ href.path = <<<<>>>> -> <<>>
      [] OTHER -> Directory(base) \o href.path

\* davpath.ParseHref: a segment that cannot be decoded is taken as it is.
ParseHref(href, base) ==
    LET path == HrefPath(href, base)
    IN  IF path = <<>> THEN NotOK
        ELSE ParsedPath([i \in DOMAIN path |->
                 IF BadEscape(path[i]) THEN path[i] ELSE PathUnescape(path[i])])
=============================================================================
