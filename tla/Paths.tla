-------------------------------- MODULE Paths --------------------------------
(***************************************************************************)
(* Paths between the client and the upstreams: the configuration's mounts, *)
(* serve and the synthetic directories, mount.upstreamURL and              *)
(* mount.hrefMapper.  A user asks for paths of its own, for what a         *)
(* synthetic directory lists and for what an upstream names in a listing.  *)
(***************************************************************************)
EXTENDS Config, Propfind

CONSTANTS
    Files,            \* configuration files
    RequestPaths,     \* escaped paths that a client asks for
    Depths,           \* values of the Depth header; "" if there is none
    Bodies,           \* bodies of PROPFIND requests
    Resources         \* resources of every upstream, as segments from its root

ASSUME FilesAssumption == \A file \in Files : TypedFile(file)
ASSUME RequestPathsAssumption == RequestPaths \subseteq Seq(Segment)
ASSUME BodiesAssumption == \A body \in Bodies : body \in Seq(Token) /\ Decodable(body)
ASSUME ResourcesAssumption == Resources \subseteq Seq(Name)

VARIABLES
    config,     \* config.Config: base paths of upstreams, mounts of users
    trees,      \* user.root of each user
    user,       \* who asks
    answer,     \* what the last request came to
    from,       \* history: where it came from
    shown       \* the client's path for an href of the upstream

vars == <<config, trees, user, answer, from, shown>>

\* mount.upstreamURL
upstreamURL(m, rest, dir) ==
    LET segs == config.base[m.upstream] \o m.target \o rest
    IN  [upstream |-> m.upstream, segs |-> segs, path |-> Encode(segs, dir)]

\* Mutant: everything below the upstream's base path is shown.
hrefMapperBase(m, href, base) ==
    LET parsed == ParseHref(href, base)
    IN  IF ~parsed.ok \/ ~HasPrefix(parsed.segs, config.base[m.upstream]) THEN Nothing
        ELSE [kind |-> "path",
              path |-> Encode(m.path \o CutPrefix(parsed.segs, config.base[m.upstream] \o m.target),
                              parsed.dir)]

\* mount.hrefMapper: the client's path, or Nothing.
hrefMapper(m, href, base) ==
    LET parsed == ParseHref(href, base)
        prefix == config.base[m.upstream] \o m.target
    IN  IF ~parsed.ok THEN Nothing
        ELSE IF ~HasPrefix(parsed.segs, prefix) THEN Nothing
        ELSE [kind |-> "path",
              path |-> Encode(m.path \o CutPrefix(parsed.segs, prefix), parsed.dir)]

-----------------------------------------------------------------------------

\* newState: the mounts of a user are inserted one after the other.
newRoot(all) ==
    LET order == SetToSeq(all)
        tree[i \in 0..Len(order)] == IF i = 0 THEN Root ELSE insert(tree[i - 1], order[i])
    IN  tree[Len(order)]

\* A file that config.Load accepts, and what newState makes of it.
Init ==
    /\ \E file \in Files : Accepted(file) /\ config = parse(file)
    /\ trees = [u \in DOMAIN config.mounts |-> newRoot(config.mounts[u])]
    /\ user \in DOMAIN config.mounts
    /\ answer = Nothing
    /\ from = Nothing
    /\ shown = Nothing

\* serve, from the path of a request to what it is about.
Serve(path) ==
    LET parsed == Parse(path)
        found == resolve(trees[user], parsed.segs)
    IN  answer' = IF ~parsed.ok THEN [kind |-> "bad request"]
                  ELSE CASE found.kind = "missing" -> [kind |-> "not found", segs |-> parsed.segs]
                         [] found.kind = "synthetic" ->
                              [kind |-> "synthetic", segs |-> parsed.segs]
                         [] found.kind = "mount" ->
                              [kind |-> "forwarded", segs |-> parsed.segs,
                               mount |-> found.mount,
                               url |-> upstreamURL(found.mount, found.rest, parsed.dir)]

\* The client asks for a path of its own.
Request ==
    /\ answer = Nothing
    /\ \E path \in RequestPaths : Serve(path)
    /\ from' = [kind |-> "client"]
    /\ UNCHANGED <<config, trees, user, shown>>

\* The method of the request is GET or HEAD.
GetDirectory ==
    /\ answer.kind = "synthetic"
    /\ answer' = [kind |-> "not allowed"]
    /\ UNCHANGED <<config, trees, user, from, shown>>

\* checkDepth: the statuses of the depths that are refused.
DepthRefused(depth) ==
    IF depth \in {"", "infinity"} THEN [kind |-> "forbidden"] ELSE [kind |-> "bad request"]

\* The directory and, with Depth 1, its children.
Collections(segs, depth) ==
    LET self == [href |-> Encode(segs, TRUE),
                 name |-> IF segs = <<>> THEN <<>> ELSE Last(segs)]
        children == SetToSeq(names(trees[user], segs))
    IN  <<self>> \o [i \in 1..(IF depth = "1" THEN Len(children) ELSE 0) |->
                       [href |-> Encode(Append(segs, children[i]), TRUE), name |-> children[i]]]

\* checkDepth and serveSyntheticPropfind.
ListDirectory ==
    /\ answer.kind = "synthetic"
    /\ \E depth \in Depths, body \in Bodies :
          LET pf == ParsePropfind(body)
          IN  /\ answer' = IF depth \notin {"0", "1"} THEN DepthRefused(depth)
                           ELSE IF ~pf.ok THEN [kind |-> "bad request"]
                           ELSE [kind |-> "listing", segs |-> answer.segs,
                                 entries |-> WriteCollections(Collections(answer.segs, depth), pf)]
              /\ from' = [kind |-> "propfind", depth |-> depth, body |-> body]
    /\ UNCHANGED <<config, trees, user, shown>>

\* The client asks for what it was listed.
FollowEntry ==
    /\ answer.kind = "listing"
    /\ \E i \in DOMAIN answer.entries : Serve(answer.entries[i].href)
    /\ from' = [kind |-> "synthetic"]
    /\ UNCHANGED <<config, trees, user, shown>>

\* How an upstream writes a segment: it escapes what it must, or everything, or
\* does not know of escapes.
Write(seg, how) ==
    CASE how = "strict" -> Encode(<<seg>>, FALSE)[1]
      [] how = "full" -> [k \in DOMAIN seg |-> [seg[k] EXCEPT !.n = @ + 1]]
      [] how = "none" -> seg
PlainSegment(seg) == \A k \in DOMAIN seg : seg[k].n = 0

\* From one directory to a resource: up to where they part, then down.
RelativePath(directory, r, how) ==
    LET common == {n \in 0..Len(r) : HasPrefix(directory, SubSeq(r, 1, n))}
        shared == CHOOSE n \in common : \A k \in common : k <= n
        down == SubSeq(r, shared + 1, Len(r))
        steps == [i \in 1..(Len(directory) - shared) |-> dotdot]
                 \o [i \in DOMAIN down |-> Write(down[i], how)]
    IN  IF steps = <<>> THEN <<dot>> ELSE steps

\* The hrefs that name resource r in the answer to a request in a directory.
Hrefs(r, directory) ==
    LET styles == {"strict", "full"}
                  \cup (IF \A i \in DOMAIN r : PlainSegment(r[i]) THEN {"none"} ELSE {})
        absolute == {[i \in DOMAIN r |-> Write(r[i], how)] : how \in styles}
        relative == {RelativePath(directory, r, how) : how \in styles}
    IN  [form : {"url", "absolute"},
         path : {p \o <<<<>>>> : p \in absolute} \cup (absolute \ {<<>>})]
        \cup [form : {"relative"}, path : relative \cup {p \o <<<<>>>> : p \in relative}]
        \cup [form : {"opaque"}, path : {<<>>}]

\* The upstream answers a PROPFIND, or the redirect to the directory form, and
\* names a resource.
NameResource ==
    /\ answer.kind = "forwarded"
    /\ \E r \in Resources, base \in {answer.url.path, Encode(answer.url.segs, TRUE)} :
          \E href \in Hrefs(r, IF IsDir(base) THEN answer.url.segs
                               ELSE DropLast(answer.url.segs)) :
             /\ shown' = hrefMapper(answer.mount, href, base)
             /\ from' = [kind |-> "upstream", resource |-> r, form |-> href.form,
                         mount |-> answer.mount]
    /\ answer' = [kind |-> "listed"]
    /\ UNCHANGED <<config, trees, user>>

\* The client asks for what it was shown.
FollowHref ==
    /\ answer.kind = "listed"
    /\ shown # Nothing
    /\ Serve(shown.path)
    /\ UNCHANGED <<config, trees, user, from, shown>>

\* The next request has nothing to do with this one.
StartOver ==
    /\ answer # Nothing
    /\ answer' = Nothing
    /\ from' = Nothing
    /\ shown' = Nothing
    /\ UNCHANGED <<config, trees, user>>

Next ==
    \/ Request
    \/ GetDirectory
    \/ ListDirectory
    \/ FollowEntry
    \/ NameResource
    \/ FollowHref
    \/ StartOver

Spec == Init /\ [][Next]_vars

-----------------------------------------------------------------------------

mounts == config.mounts[user]

(* The tree of a user holds every node from the root to each mount, and a   *)
(* mount has no children (the comment of node).                             *)
TreesExact ==
    LET tree == trees[user]
    IN  /\ tree.nodes = {<<>>} \cup UNION {{SubSeq(m.path, 1, i) : i \in 0..Len(m.path)} : m \in mounts}
        /\ {tree.mount[n] : n \in tree.nodes} \ {NoMount} = mounts
        /\ \A n \in tree.nodes : tree.mount[n] # NoMount => names(tree, n) = {}

(* What a path is follows from the user's mounts alone: the one mount whose *)
(* path it starts with, on the upstream that it names, below the path of    *)
(* the upstream's URL and the target; a directory if it leads to a mount;   *)
(* or nothing.                                                              *)
ResolvesByPrefix ==
    LET above == {m \in mounts : HasPrefix(answer.segs, m.path)}
        below == {m \in mounts : HasPrefix(m.path, answer.segs)}
    IN  CASE answer.kind = "forwarded" ->
               /\ above = {answer.mount}
               /\ answer.url.upstream = answer.mount.upstream
               /\ answer.url.segs = config.base[answer.mount.upstream] \o answer.mount.target
                                    \o CutPrefix(answer.segs, answer.mount.path)
          [] answer.kind = "synthetic" -> above = {} /\ (below # {} \/ answer.segs = <<>>)
          [] answer.kind = "not found" -> above = {} /\ below = {}
          [] OTHER -> TRUE

(* Whatever a synthetic directory lists can be asked for: SplitLiteral      *)
(* accepts no mount path that a client could not request.                   *)
EntriesLead ==
    from.kind = "synthetic" => answer.kind \notin {"bad request", "not found"}

\* What RFC 4918 has in a body: a propfind element that ends, with one of the
\* three forms in it; what follows it does not matter.
Child(body, parent, i) ==
    /\ i \in (parent + 1)..Len(body)
    /\ body[i].t = "start"
    /\ Level(body, i) = Level(body, parent) + 1
    /\ \A k \in parent..i : Level(body, k) >= Level(body, parent)
PropfindRoots(body) ==
    {r \in DOMAIN body :
        /\ body[r].t = "start"
        /\ body[r].name = DAV("propfind")
        /\ \A k \in 1..(r - 1) : body[k].t \in {"blank", "other"}}
Forms(body) ==
    {f \in DOMAIN body :
        /\ \E r \in PropfindRoots(body) : Child(body, r, f)
        /\ body[f].name \in {DAV("allprop"), DAV("propname"), DAV("prop")}}
WellFormed(body) ==
    /\ \E r \in PropfindRoots(body) : \E n \in r..Len(body) : Level(body, n) < Level(body, r)
    /\ Cardinality(Forms(body)) = 1

\* The children of a prop, or every property; nothing at all asks for every one.
Blank(body) == \A i \in DOMAIN body : body[i].t = "blank"
Asked(body) ==
    IF \E f \in Forms(body) : body[f].name = DAV("prop")
    THEN {body[i].name : i \in {k \in DOMAIN body : \E f \in Forms(body) : Child(body, f, k)}}
    ELSE Range(collectionProps)

\* What is written about each property: places in the propstats of an entry.
Places(stats) == UNION {{k} \X DOMAIN stats[k].props : k \in DOMAIN stats}
EachOnce(stats, asked) ==
    LET prop(p) == stats[p[1]].props[p[2]].name
    IN  /\ {prop(p) : p \in Places(stats)} = asked
        /\ \A p, q \in Places(stats) : prop(p) = prop(q) => p = q
        /\ \A p \in Places(stats) : stats[p[1]].status = 200 <=> prop(p) \in Range(collectionProps)

(* A PROPFIND of a synthetic directory is answered if and only if its body  *)
(* and Depth are right; then the directory and, with Depth 1, whatever it   *)
(* leads to are listed once, by their names, and each property that was     *)
(* asked for is there once for each: found if and only if it is supported.  *)
AskedIsAnswered ==
    from.kind = "propfind" =>
        /\ answer.kind = "listing" <=>
              from.depth \in {"0", "1"} /\ (Blank(from.body) \/ WellFormed(from.body))
        /\ answer.kind = "listing" =>
              LET segs == answer.segs
                  children == {SubSeq(m.path, 1, Len(segs) + 1) :
                                  m \in {n \in mounts : HasPrefix(n.path, segs)}}
                  listed == [i \in DOMAIN answer.entries |-> Parse(answer.entries[i].href).segs]
              IN  /\ Len(listed) = IF from.depth = "0" THEN 1 ELSE 1 + Cardinality(children)
                  /\ listed[1] = segs
                  /\ \A i \in 2..Len(listed) : listed[i] \in children
                  /\ IsInjective(listed)
                  /\ \A i \in DOMAIN listed :
                        /\ listed[i] # <<>> => answer.entries[i].name = Last(listed[i])
                        /\ EachOnce(answer.entries[i].propstats, Asked(from.body))

(* An href that the client was shown leads it back to the resource that the *)
(* upstream named with it, however the upstream wrote it; only a name that  *)
(* Parse takes for unsafe is refused.                                       *)
HrefLeadsBack ==
    from.kind = "upstream" /\ answer.kind # "listed" =>
        \/ /\ answer.kind = "forwarded"
           /\ answer.mount = from.mount
           /\ answer.url.segs = from.resource
        \/ /\ answer.kind = "bad request"
           /\ \E i \in DOMAIN from.resource : ~checkComponent(from.resource[i])

(* The client is shown what the upstream names below the mount's target,    *)
(* and nothing else.                                                        *)
ShownIfInside ==
    from.kind = "upstream" =>
        (shown # Nothing <=> /\ HasPrefix(from.resource, config.base[from.mount.upstream] \o from.mount.target)
                             /\ from.form # "opaque")
=============================================================================
