------------------------------ MODULE Traversal ------------------------------
(***************************************************************************)
(* What upstreams may make of the segments that webdav-mux forwards.       *)
(***************************************************************************)
EXTENDS Paths

CONSTANT Rereadings     \* how often a segment is read again

ASSUME RereadingsAssumption == Rereadings \in Nat

\* A text, read once more: with characters taken for others, split, or decoded.
Reread(s) ==
    {s, fold(s)} \cup Fields(s) \cup (IF BadEscape(s) THEN {} ELSE {PathUnescape(s)})

\* What a flawed upstream may read in a text.
Readings(text) ==
    LET read[k \in 0..Rereadings] ==
            IF k = 0 THEN {text} ELSE UNION {Reread(s) : s \in read[k - 1]}
    IN  read[Rereadings]

(* No segment that is forwarded turns into a dot segment, or into one with  *)
(* NUL, for an upstream that decodes it again, splits it at separators or   *)
(* folds characters, in any order (the comment of checkComponent).          *)
NoTraversal ==
    answer.kind = "forwarded" =>
        \A i \in DOMAIN answer.url.segs : \A s \in Readings(answer.url.segs[i]) :
            ~HasNUL(s) /\ ~DotsAndSpaces(s)
=============================================================================
