------------------------------- MODULE MCPaths -------------------------------
(* Paths with four upstreams, two users and paths that are hard to read.    *)
EXTENDS Traversal

Char(c, n) == [c |-> c, n |-> n]
x == <<Char("x", 0)>>
y == <<Char("y", 0)>>
xPercent == <<Char("x", 0), Char("%", 0)>>       \* the name x%
xEscaped == <<Char("x", 0), Char("%", 1)>>       \* the text x%25
escapedDot == <<Char(".", 1)>>                   \* the name %2E
wideDots == <<Char("two_dots", 0)>>
spaced == <<Char("space", 0), Char("x", 0)>>

Web(path) == [scheme |-> "https", host |-> TRUE, user |-> FALSE, query |-> FALSE, path |-> path]
Remote(path) == [legal |-> TRUE, url |-> {Web(path)}, dir |-> {}, proxy |-> {}, username |-> FALSE,
                 password |-> FALSE, insecure |-> FALSE]
Local == [Remote(<<>>) EXCEPT !.url = {}, !.dir = {[absolute |-> TRUE, directory |-> TRUE]}]

Upstreams == [nas |-> Remote(<<x>>), bare |-> [Remote(<<>>) EXCEPT !.proxy = {Web(<<>>)}],
              odd |-> Remote(<<x, dot, xEscaped, <<>>>>), disk |-> Local]

Mount(path, upstream, target) == path :> [upstream |-> {upstream}, path |-> target]
User(of) == [legal |-> TRUE, hash |-> "bcrypt", mounts |-> of]
File(of) == [tls |-> {}, upstreams |-> Upstreams, users |-> [alice |-> User(of)]]

\* Files that are accepted.
Good ==
    {File(Mount(<<<<>>>>, "nas", <<y>>)),
     File(Mount(<<<<>>, <<>>>>, "bare", <<<<>>>>)),
     File(Mount(<<x>>, "nas", <<y, <<>>>>) @@ Mount(<<y, xPercent, <<>>>>, "disk", <<<<>>>>)),
     File(Mount(<<xPercent, x>>, "odd", <<xPercent>>) @@ Mount(<<xPercent, y>>, "nas", <<y>>)),
     [tls |-> {"cert", "key"}, upstreams |-> Upstreams,
      users |-> [alice |-> User(Mount(<<x, y>>, "nas", <<y>>) @@ Mount(<<x, x>>, "odd", <<<<>>>>)),
                 bob |-> User(Mount(<<x>>, "bare", <<x, xPercent>>))]],
     File(<<>>)}

\* Files that are refused: mounts that overlap, paths and targets that lead
\* elsewhere, upstreams that are not there and URLs that cannot be used.
Bad ==
    {File(Mount(<<x>>, "nas", <<y>>) @@ Mount(<<x, y>>, "nas", <<x>>)),
     File(Mount(<<y>>, "nas", <<y>>) @@ Mount(<<x, y>>, "nas", <<x>>) @@ Mount(<<x>>, "disk", <<y>>)),
     File(Mount(<<<<>>>>, "nas", <<y>>) @@ Mount(<<y>>, "nas", <<y>>)),
     File(Mount(<<x>>, "nas", <<y>>) @@ Mount(<<x, <<>>>>, "disk", <<y>>)),
     File(Mount(<<escapedDot>>, "nas", <<y>>)),
     File(Mount(<<x>>, "nas", <<dotdot>>)),
     File(Mount(<<x>>, "elsewhere", <<y>>)),
     File(<<x>> :> [upstream |-> {}, path |-> <<y>>])}
    \cup {[File(Mount(<<x>>, "nas", <<y>>)) EXCEPT !.upstreams = [nas |-> up]] :
             up \in {[Remote(<<>>) EXCEPT !.legal = FALSE], [Local EXCEPT !.username = TRUE], [Local EXCEPT !.proxy = {Web(<<>>)}],
                     [Local EXCEPT !.url = {Web(<<>>)}], [Local EXCEPT !.dir = {}],
                     [Remote(<<>>) EXCEPT !.password = TRUE],
                     [Remote(<<>>) EXCEPT !.url = {[Web(<<>>) EXCEPT !.user = TRUE]}],
                     [Remote(<<>>) EXCEPT !.proxy = {[Web(<<>>) EXCEPT !.host = FALSE]}],
                     Remote(<<escapedDot \o escapedDot, <<Char(".", 3)>>>>)}}

\* Files that are refused whatever they say of paths.
Incomplete ==
    {[File(<<>>) EXCEPT !.tls = {"cert"}]}
    \cup {[File(<<>>) EXCEPT !.users.alice = u] :
             u \in {[User(<<>>) EXCEPT !.legal = FALSE], [User(<<>>) EXCEPT !.hash = "none"]}}

\* An order of segments: by the first character in which they differ.
Alphabet == <<"NUL", "space", "%", ".", "/", "\\", "x", "y">>
Code(ch) == 8 * ch.n + CHOOSE i \in DOMAIN Alphabet : Alphabet[i] = ch.c
MCSegmentLess(s, t) ==
    LET same(k) == \A i \in 1..(k - 1) : s[i] = t[i]
    IN  \/ Len(s) < Len(t) /\ same(Len(s) + 1)
        \/ \E k \in DOMAIN s \cap DOMAIN t : same(k) /\ Code(s[k]) < Code(t[k])

MCFiles == Good \cup Bad \cup Incomplete

MCResources ==
    {<<>>, <<x>>, <<y>>, <<x, y>>, <<x, x>>, <<x, y, x>>, <<x, y, xPercent>>,
     <<x, y, escapedDot>>, <<x, y, wideDots>>, <<x, y, spaced, x>>, <<x, xPercent>>,
     <<x, xPercent, y>>, <<y, y, x>>}

Symbols == {Char("x", 0), Char(".", 0)}
           \cup [c : {".", "space", "/", "\\", "NUL", "wide_dot", "overlong_dot", "two_dots",
                      "wide_slash", "yen", "%"}, n : 1..4]
FewSymbols == {Char("x", 0), Char(".", 0)}
              \cup [c : {".", "/", "wide_dot", "wide_slash", "%"}, n : 1..2]

\* Segments that a client may send: not one that is invalid as a URL.
MCRequestPaths ==
    {<<>>}
    \cup {<<s>> : s \in SeqOf(Symbols, 2) \cup SeqOf(FewSymbols, 3)}
    \cup (SeqOf({x, y, xEscaped, <<>>, dot, dotdot, escapedDot \o escapedDot}, 4) \ {<<>>})

-----------------------------------------------------------------------------
\* Bodies of PROPFIND requests.

Element(name, children) == [name |-> name, children |-> children]
Empty(name) == Element(name, <<>>)
foreign == [space |-> "urn:x", local |-> "displayname"]

\* What may be in a propfind.
PropOf(of) == Element(DAV("prop"), [i \in DOMAIN of |-> Empty(of[i])])
Children ==
    {Empty(DAV("allprop")), Empty(DAV("propname")), Empty(DAV("include")), PropOf(<<>>),
     PropOf(<<DAV("displayname"), foreign, DAV("displayname")>>),
     PropOf(<<DAV("getetag"), DAV("creationdate"), DAV("resourcetype")>>),
     Element([space |-> "urn:x", local |-> "prop"], <<Empty(DAV("allprop"))>>),
     Element(DAV("prop"), <<Element(foreign, <<Empty(DAV("getetag"))>>)>>)}

Trees == {Element(DAV("propfind"), c) : c \in SeqOf(Children, 2)}
         \cup {Element([space |-> "urn:x", local |-> "propfind"], <<Empty(DAV("allprop"))>>),
               Empty(DAV("allprop"))}

RECURSIVE Tokens(_)
Tokens(tree) ==
    <<[t |-> "start", name |-> tree.name], [t |-> "blank"]>>
    \o FlattenSeq([i \in DOMAIN tree.children |-> Tokens(tree.children[i])])
    \o <<[t |-> "end"]>>

\* Nothing, whole bodies with something before or after them, and bodies that
\* end or break before the root does.
MCBodies ==
    {<<>>, <<[t |-> "blank"]>>, <<[t |-> "error"]>>, <<[t |-> "other"]>>}
    \cup {<<[t |-> "other"]>> \o Tokens(tree) \o <<[t |-> "text"], [t |-> "error"]>> : tree \in Trees}
    \cup {<<[t |-> "text"]>> \o Tokens(tree) : tree \in Trees}
    \cup {Tokens(tree) \o Tokens(Empty(DAV("allprop"))) : tree \in Trees}
    \cup {SubSeq(Tokens(tree), 1, Len(Tokens(tree)) - k) \o end :
             tree \in Trees, k \in 1..2, end \in {<<>>, <<[t |-> "error"]>>}}

MCDepths == {"", "0", "1", "infinity", "2"}
=============================================================================
