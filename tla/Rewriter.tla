------------------------------- MODULE Rewriter ------------------------------
(***************************************************************************)
(* davxml.RewriteMultistatus: the machine that reads the tokens of a       *)
(* multistatus of an upstream, holds the raw bytes of one child of the     *)
(* root at a time, and writes them with mapped hrefs, without the elements *)
(* that name something outside of the mount.                               *)
(*                                                                         *)
(* A token is one byte long, and the end of a self-closing element none.   *)
(* Offsets are relative to the first byte that is held.  encoding/xml      *)
(* only yields tokens that are nested properly.                            *)
(***************************************************************************)
EXTENDS SequencesExt

CONSTANTS
    MaxBuffered,   \* maxBufferedBytes, in tokens
    MaxUnits,      \* bound: children of the root
    NestedNames    \* may a displayname contain elements?

ASSUME MaxBufferedAssumption == MaxBuffered \in Nat \ {0}
ASSUME MaxUnitsAssumption == MaxUnits \in Nat
ASSUME NestedNamesAssumption == NestedNames \in BOOLEAN

VARIABLES
    stack,        \* elements that are open
    rootClosed,
    unit,         \* the child of the root that is being read
    buf,          \* tokens that were read and neither written nor discarded
    units,        \* children of the root so far
    result,       \* what RewriteMultistatus returns
    input,        \* history: the tokens of the last unit
    output        \* history: what was written for it

vars == <<stack, rootClosed, unit, buf, units, result, input, output>>

depthUnit == 2
depthTopHref == 3
depthPropstat == 3
depthStatus == 4
depthProperty == 5

Names == {"multistatus", "response", "href", "propstat", "prop", "status",
          "displayname", "other"}

\* Text of hrefs: what MapHref makes of it; of statuses; of displaynames.
HrefTexts == {"root", "in", "out"}
StatusTexts == {"200", "404"}
Texts == HrefTexts \cup StatusTexts \cup {"name"}

MountRoot(text) == text = "root"
Outside(text) == text \notin {"root", "in"}
Mapped(text) == <<<<"mapped", text>>>>
MountName == <<<<"name", "mount">>>>

None == [none |-> TRUE]

NewUnit(name) ==
    [isResponse |-> name = "response", edits |-> <<>>, topMapped |-> FALSE,
     mountRoot |-> FALSE, href |-> None, displayNames |-> <<>>,
     openName |-> None, propstatNames |-> 0, statusText |-> "none",
     propstatOK |-> FALSE]

\* Names of the open elements, of which p[d] has depth d.
Path == [d \in 1..Len(stack) |-> stack[d].name]

\* What a server puts below the open elements: RFC 4918, with an unknown
\* element at each level.
Content(p) ==
    CASE Len(p) = 0 -> {"multistatus", "other"}
      [] Len(p) = 1 -> IF units < MaxUnits THEN {"response", "other"} ELSE {}
      [] Len(p) = 2 -> IF p[2] = "response" THEN {"href", "propstat", "other"}
                       ELSE {"href"}
      [] Len(p) = 3 -> CASE p[3] = "propstat" -> {"prop", "status", "other"}
                         [] p[3] = "other" -> {"href", "other"}
                         [] OTHER -> {}
      [] Len(p) = 4 -> CASE p[4] = "prop" -> {"displayname", "other"}
                         [] p[4] = "other" -> {"href"}
                         [] OTHER -> {}
      [] Len(p) = 5 -> IF p[5] = "other" \/ (p[5] = "displayname" /\ NestedNames)
                       THEN {"href"} ELSE {}
      [] OTHER -> {}

TextContent(name) ==
    CASE name = "href" -> HrefTexts
      [] name = "status" -> StatusTexts
      [] name = "displayname" -> {"name"}
      [] OTHER -> {}

\* The element on top of the stack was self-closing: its end is next.
SelfClosed ==
    /\ stack # <<>>
    /\ buf # <<>>
    /\ Last(buf)[1] = "empty"
    /\ Last(stack).start = Len(buf) - 1

-----------------------------------------------------------------------------

Init ==
    /\ stack = <<>>
    /\ rootClosed = FALSE
    /\ unit = None
    /\ buf = <<>>
    /\ units = 0
    /\ result = "running"
    /\ input = <<>>
    /\ output = <<>>

\* captureReader can give another byte to the decoder.
MayRead ==
    /\ result = "running"
    /\ ~SelfClosed
    /\ Len(buf) < MaxBuffered

Return(r) ==
    /\ result' = r
    /\ UNCHANGED <<stack, rootClosed, unit, buf, units, input, output>>

\* RewriteMultistatus returns an error, and the rewriter is gone with all it held.
Fail ==
    /\ result' = "error"
    /\ stack' = <<>>
    /\ unit' = None
    /\ buf' = <<>>
    /\ input' = <<>>
    /\ output' = <<>>
    /\ UNCHANGED <<rootClosed, units>>

\* errTooLarge, from the reader below the decoder.
TooLarge ==
    /\ result = "running"
    /\ ~SelfClosed
    /\ Len(buf) >= MaxBuffered
    /\ Fail

\* A syntax error, an error of the upstream, or the end of its body while
\* elements are open.
DecoderFails ==
    /\ MayRead
    /\ Fail

\* Mutant: the end of the input is a success whatever was read.
EndOfInputUnchecked ==
    /\ MayRead
    /\ stack = <<>>
    /\ Return("ok")

\* The end of the input; flush has nothing left to write.
EndOfInput ==
    /\ MayRead
    /\ stack = <<>>
    /\ IF rootClosed THEN Return("ok") ELSE Fail

\* Text after the root, as of an upstream that fails while it writes.
StrayText ==
    /\ MayRead
    /\ stack = <<>>
    /\ Fail

Opened(name, start) ==
    [name |-> name, start |-> start, remove |-> FALSE,
     editMark |-> IF unit = None THEN 0 ELSE Len(unit.edits),
     nameMark |-> IF unit = None THEN 0 ELSE Len(unit.displayNames)]

\* startElement at depth 1.
StartRoot ==
    /\ MayRead
    /\ stack = <<>>
    /\ \E name \in Content(<<>>) :
          IF rootClosed \/ name # "multistatus"
          THEN Fail
          ELSE /\ stack' = <<Opened(name, 0)>>
               /\ UNCHANGED <<rootClosed, unit, buf, units, result, input, output>>

\* startElement at depth 2: what precedes the unit is flushed.
StartUnit ==
    /\ MayRead
    /\ Len(stack) = 1
    /\ \E name \in Content(Path) :
          /\ stack' = Append(stack, Opened(name, 0))
          /\ unit' = NewUnit(name)
          /\ buf' = <<<<"start", name>>>>
          /\ units' = units + 1
          /\ input' = <<>>
          /\ output' = <<>>
    /\ UNCHANGED <<rootClosed, result>>

inPropstatProp(path) == path[depthPropstat] = "propstat" /\ path[depthProperty - 1] = "prop"

\* startElement below a unit; path ends with the new element, whose tag ends at
\* offset end.
Enter(u, path, end, selfClose) ==
    LET depth == Len(path)
        name == Last(path)
    IN  IF name = "href" /\ u.href = None
        THEN [u EXCEPT !.href = [contentStart |-> end, depth |-> depth, text |-> ""]]
        ELSE IF ~u.isResponse THEN u
        ELSE CASE depth = depthPropstat /\ name = "propstat" ->
               [u EXCEPT !.propstatNames = Len(u.displayNames), !.propstatOK = TRUE]
          [] depth = depthStatus /\ name = "status"
             /\ path[depthPropstat] = "propstat" ->
               [u EXCEPT !.statusText = ""]
          [] depth = depthProperty /\ name = "displayname" /\ inPropstatProp(path) ->
               [u EXCEPT !.openName = [from |-> end, to |-> end,
                                       selfClose |-> selfClose, ok |-> FALSE]]
          [] OTHER -> u

StartElement ==
    /\ MayRead
    /\ Len(stack) >= depthUnit
    /\ \E name \in Content(Path), kind \in {"start", "empty"} :
          /\ kind = "empty" => name = "displayname"
          /\ stack' = Append(stack, Opened(name, Len(buf)))
          /\ unit' = Enter(unit, Append(Path, name), Len(buf) + 1, kind = "empty")
          /\ buf' = Append(buf, <<kind, name>>)
    /\ UNCHANGED <<rootClosed, units, result, input, output>>

\* Text goes to the href and the status that are being read.
CharData ==
    /\ MayRead
    /\ unit # None
    /\ Last(buf) = <<"start", Last(stack).name>>
    /\ \E text \in TextContent(Last(stack).name) :
          /\ buf' = Append(buf, <<"text", text>>)
          /\ unit' = [unit EXCEPT
                !.href = IF @ = None THEN @ ELSE [@ EXCEPT !.text = text],
                !.statusText = IF @ = "none" THEN @ ELSE text]
    /\ UNCHANGED <<stack, rootClosed, units, result, input, output>>

-----------------------------------------------------------------------------

\* Mutant: whatever the property contains, only the element around the href.
removalDepthParent(u, path, hrefDepth) ==
    IF ~u.isResponse THEN depthUnit
    ELSE IF hrefDepth = depthTopHref THEN depthTopHref
    ELSE hrefDepth - 1

removalDepth(u, path, hrefDepth) ==
    CASE ~u.isResponse -> depthUnit
      [] u.isResponse /\ hrefDepth = depthTopHref -> depthTopHref
      [] u.isResponse /\ hrefDepth # depthTopHref
         /\ path[depthPropstat] # "propstat" -> depthPropstat
      [] OTHER -> IF hrefDepth >= depthProperty /\ path[depthProperty - 1] = "prop"
                  THEN depthProperty ELSE depthProperty - 1

\* endHref when the href is inside of the mount.
MapHref(u, start) ==
    LET h == u.href
        top == u.isResponse /\ h.depth = depthTopHref
        replaced == [from |-> h.contentStart, to |-> start, repl |-> Mapped(h.text)]
    IN  [u EXCEPT !.href = None,
                  !.topMapped = @ \/ top,
                  !.mountRoot = @ \/ (top /\ MountRoot(h.text)),
                  !.edits = Append(@, replaced)]

\* The cases of endElement for a status, a displayname and a propstat.
Leave(u, path, start) ==
    LET depth == Len(path)
    IN  CASE u.statusText # "none" /\ depth = depthStatus ->
               [u EXCEPT !.propstatOK = u.statusText = "200", !.statusText = "none"]
          [] u.openName # None /\ depth = depthProperty ->
               [u EXCEPT !.displayNames = Append(@, [u.openName EXCEPT !.to = start]),
                         !.openName = None]
          [] u.isResponse /\ depth = depthPropstat /\ Last(path) = "propstat" ->
               [u EXCEPT !.displayNames =
                   [i \in DOMAIN @ |-> IF i > u.propstatNames
                                       THEN [@[i] EXCEPT !.ok = u.propstatOK]
                                       ELSE @[i]]]
          [] OTHER -> u

\* An element below the unit is removed, with the edits and names in it.
DropElement(u, e, end) ==
    [u EXCEPT !.edits = Append(SubSeq(@, 1, e.editMark),
                               [from |-> e.start, to |-> end, repl |-> <<>>]),
              !.displayNames = SubSeq(@, 1, IF e.nameMark < Len(@) THEN e.nameMark
                                            ELSE Len(@))]

\* The displaynames of the root of the mount become its name.
nameEdits(u) ==
    {[from |-> s.from, to |-> s.to, repl |-> MountName] :
        s \in {n \in ToSet(u.displayNames) : u.mountRoot /\ n.ok /\ ~n.selfClose}}

\* The edits of a unit in the order of the bytes they replace.
SortedEdits(u) ==
    LET edits == ToSet(u.edits) \cup nameEdits(u)
    IN  CHOOSE s \in [1..Cardinality(edits) -> edits] :
           \A i, j \in DOMAIN s : i < j => s[i].from < s[j].from

\* A slice whose end precedes its start is a run-time panic.
Overlap(edits) == \E i \in 2..Len(edits) : edits[i].from < edits[i - 1].to

\* The bytes with the edits applied to them.
Splice(bytes, edits) ==
    LET pos(k) == IF k = 0 THEN 0 ELSE edits[k].to
        out[k \in 0..Len(edits)] ==
            IF k = 0 THEN <<>>
            ELSE out[k - 1] \o SubSeq(bytes, pos(k - 1) + 1, edits[k].from) \o edits[k].repl
    IN  out[Len(edits)] \o SubSeq(bytes, pos(Len(edits)) + 1, Len(bytes))

\* endUnit.
EndUnit(u, bytes, removed) ==
    IF removed \/ (u.isResponse /\ ~u.topMapped)
    THEN output' = <<>> /\ UNCHANGED result
    ELSE IF Overlap(SortedEdits(u))
    THEN output' = <<>> /\ result' = "panic"
    ELSE output' = Splice(bytes, SortedEdits(u)) /\ UNCHANGED result

\* endElement below the root.
EndElement ==
    /\ result = "running"
    /\ SelfClosed \/ Len(buf) < MaxBuffered
    /\ Len(stack) >= depthUnit
    /\ LET depth == Len(stack)
           start == Len(buf)
           bytes == IF SelfClosed THEN buf
                    ELSE Append(buf, <<"end", Last(stack).name>>)
           isHref == unit.href # None /\ unit.href.depth = depth
           out == isHref /\ Outside(unit.href.text)
           u == IF out THEN [unit EXCEPT !.href = None]
                ELSE IF isHref THEN MapHref(unit, start)
                ELSE Leave(unit, Path, start)
           marked == IF out
                     THEN [stack EXCEPT ![removalDepth(unit, Path, depth)].remove = TRUE]
                     ELSE stack
           e == Last(marked)
       IN  /\ stack' = Front(marked)
           /\ IF depth = depthUnit
              THEN /\ EndUnit(u, bytes, e.remove)
                   /\ unit' = None
                   /\ buf' = <<>>
                   /\ input' = bytes
              ELSE /\ unit' = IF e.remove THEN DropElement(u, e, Len(bytes)) ELSE u
                   /\ buf' = bytes
                   /\ UNCHANGED <<result, input, output>>
    /\ UNCHANGED <<rootClosed, units>>

\* endElement of the root.
EndRoot ==
    /\ MayRead
    /\ Len(stack) = 1
    /\ stack' = <<>>
    /\ rootClosed' = TRUE
    /\ UNCHANGED <<unit, buf, units, result, input, output>>

Done ==
    /\ result # "running"
    /\ UNCHANGED vars

Next ==
    \/ TooLarge
    \/ DecoderFails
    \/ EndOfInput
    \/ StrayText
    \/ StartRoot
    \/ StartUnit
    \/ StartElement
    \/ CharData
    \/ EndElement
    \/ EndRoot
    \/ Done

Spec == Init /\ [][Next]_vars

-----------------------------------------------------------------------------
\* What the comment of RewriteMultistatus promises, on the elements of a unit.

Elements(t) == {i \in DOMAIN t : t[i][1] \in {"start", "empty"}}
Level(t, n) ==
    Cardinality({j \in 1..n : t[j][1] = "start"}) - Cardinality({j \in 1..n : t[j][1] = "end"})
Depth(t, i) == depthUnit + Level(t, IF t[i][1] = "end" THEN i ELSE i - 1)
Close(t, i) ==
    IF t[i][1] = "empty" THEN i
    ELSE CHOOSE j \in i..Len(t) :
            /\ t[j][1] = "end" /\ Depth(t, j) = Depth(t, i)
            /\ \A k \in i..(j - 1) : t[k][1] = "end" => Depth(t, k) # Depth(t, i)
Ancestor(t, i, d) ==
    CHOOSE a \in Elements(t) : Depth(t, a) = d /\ a <= i /\ i <= Close(t, a)
TextOf(t, i) == IF t[i + 1][1] = "text" THEN t[i + 1][2] ELSE ""

Hrefs(t) == {i \in Elements(t) : t[i][2] = "href"}
TopHrefs(t) == {i \in Hrefs(t) : t[1][2] = "response" /\ Depth(t, i) = 3}

\* The smallest optional structure around an href.
Optional(t, i) ==
    LET d == Depth(t, i)
    IN  IF t[1][2] # "response" THEN 1
        ELSE IF d = 3 THEN i
        ELSE IF t[Ancestor(t, i, 3)][2] # "propstat" THEN Ancestor(t, i, 3)
        ELSE IF t[Ancestor(t, i, 4)][2] = "prop" THEN Ancestor(t, i, 5)
        ELSE Ancestor(t, i, 4)

Gone(t) ==
    UNION {Optional(t, i)..Close(t, Optional(t, i)) :
              i \in {h \in Hrefs(t) : Outside(TextOf(t, h))}}

\* A propstat without a status counts as one with 200.
StatusOK(t, p) ==
    LET statuses == {s \in Elements(t) :
                        t[s][2] = "status" /\ Depth(t, s) = 4 /\ Ancestor(t, s, 3) = p}
    IN  \/ statuses = {}
        \/ \E s \in statuses : TextOf(t, s) = "200" /\ \A r \in statuses : r <= s

Renamed(t) ==
    {i \in Elements(t) :
        /\ t[i] = <<"start", "displayname">>
        /\ \E h \in TopHrefs(t) : MountRoot(TextOf(t, h))
        /\ StatusOK(t, Ancestor(t, i, 3))}

\* The whole unit as the client should see it.
Promised(t) ==
    LET mapped == {i \in Hrefs(t) : ~Outside(TextOf(t, i))}
        inner == UNION {(i + 1)..(Close(t, i) - 1) : i \in mapped \cup Renamed(t)}
        Piece(i) == IF i \in Gone(t) \cup inner THEN <<>>
                    ELSE IF i \in mapped THEN <<t[i]>> \o Mapped(TextOf(t, i))
                    ELSE IF i \in Renamed(t) THEN <<t[i]>> \o MountName
                    ELSE <<t[i]>>
    IN  IF t[1][2] = "response" /\ \A i \in TopHrefs(t) : Outside(TextOf(t, i))
        THEN <<>>
        ELSE FlattenSeq([i \in DOMAIN t |-> Piece(i)])

-----------------------------------------------------------------------------

(* What is written of a unit is what the comment of RewriteMultistatus      *)
(* promises: for each href outside of the mount the smallest optional       *)
(* structure is missing, the others are mapped, the displaynames of the     *)
(* mount's root are its name, and every other byte is as it was.            *)
RewrittenAsPromised ==
    input # <<>> /\ result # "panic" => output = Promised(input)

(* A success means that the root was closed and that nothing of it is held  *)
(* back: an upstream that stops early, or that goes on after the root, is   *)
(* never a success.  Nothing is held from one child of the root to another. *)
SuccessIsWhole ==
    /\ result = "ok" => rootClosed /\ stack = <<>>
    /\ Len(stack) < depthUnit => unit = None /\ buf = <<>>

(* FuzzRewriteMultistatus says that no input makes the rewriter panic.      *)
NeverPanics == result # "panic"
=============================================================================
