-------------------------------- MODULE Config --------------------------------
(***************************************************************************)
(* Package config, from a file as it is written to the upstreams and       *)
(* mounts that the server works with.  What may be left out is a set of at *)
(* most one value; a value that is only given or not is a BOOLEAN.         *)
(*                                                                         *)
(*   url, proxy   [scheme, host, user, query, path], path as in DavPath    *)
(*   dir          [absolute, directory]                                    *)
(*   upstream     [legal, url, dir, proxy, username, password, insecure];  *)
(*                its name is legal                                        *)
(*   user         [legal, hash, mounts]; the name has neither colons nor   *)
(*                control characters, the hash is a "bcrypt" hash, no hash *)
(*                at all ("none") or something that only begins like one   *)
(*   mounts       a function from written paths to [upstream, path], where *)
(*                upstream is what is before the colon, if there is one    *)
(*   file         [tls, upstreams, users]; tls is the set of the settings  *)
(*                "cert" and "key" that are given                          *)
(***************************************************************************)
EXTENDS DavPath, MountTree

Nothing == [kind |-> "none"]

\* A file as described above, in what is said about paths.
AtMostOne(S) == \A a, b \in S : a = b
TypedUpstream(raw) == AtMostOne(raw.url) /\ \A u \in raw.url : u.path \in Seq(Segment)
TypedUser(raw) ==
    /\ IsFiniteSet(DOMAIN raw.mounts)
    /\ \A path \in DOMAIN raw.mounts :
          /\ path \in Seq(Segment)
          /\ raw.mounts[path].path \in Seq(Segment)
          /\ AtMostOne(raw.mounts[path].upstream)
TypedFile(file) ==
    /\ \A name \in DOMAIN file.upstreams : TypedUpstream(file.upstreams[name])
    /\ \A user \in DOMAIN file.users : TypedUser(file.users[user])

\* The checks of url and of proxy (parseProxy).
AcceptedURL(u) ==
    /\ u.scheme \in {"http", "https"}
    /\ u.host
    /\ ~u.user
    /\ ~u.query

\* The path of a URL; none is the root.
URLPath(u) == IF u.path = <<>> THEN <<<<>>>> ELSE u.path

RemoteUpstream(raw) ==
    /\ raw.dir = {}
    /\ \E u \in raw.url : AcceptedURL(u) /\ Parse(URLPath(u)).ok
    /\ raw.password => raw.username
    /\ \A p \in raw.proxy : AcceptedURL(p)

LocalUpstream(raw) ==
    /\ raw.url = {}
    /\ \E d \in raw.dir : d.absolute /\ d.directory
    /\ raw.proxy = {}
    /\ ~raw.username /\ ~raw.password /\ ~raw.insecure

\* parseUpstream accepts it.
AcceptedUpstream(raw) == raw.legal /\ (RemoteUpstream(raw) \/ LocalUpstream(raw))

\* upstream.basePath: the segments of its URL; none for a local directory.
basePath(raw) ==
    IF raw.url = {} THEN <<>>
    ELSE Parse(URLPath(CHOOSE u \in raw.url : TRUE)).segs

\* parseMount accepts a mount.
AcceptedMount(path, target, upstreams) ==
    /\ SplitLiteral(path).ok
    /\ \E name \in target.upstream : name \in upstreams
    /\ SplitLiteral(target.path).ok

parseMount(path, target) ==
    [path |-> SplitLiteral(path).segs,
     upstream |-> CHOOSE name \in target.upstream : TRUE,
     target |-> SplitLiteral(target.path).segs]

\* The mounts of parseUser, by the paths they were written with.
parseMounts(raw) == [path \in DOMAIN raw |-> parseMount(path, raw[path])]

\* parseUser accepts a user.
AcceptedUser(raw, upstreams) ==
    /\ raw.legal
    /\ raw.hash = "bcrypt"
    /\ \A path \in DOMAIN raw.mounts : AcceptedMount(path, raw.mounts[path], upstreams)
    /\ \E sorted \in Sorted(parseMounts(raw.mounts)) : ~Overlap(sorted)

\* config.Parse accepts a file.
Accepted(file) ==
    /\ file.tls \in {{}, {"cert", "key"}}
    /\ \A name \in DOMAIN file.upstreams : AcceptedUpstream(file.upstreams[name])
    /\ \A user \in DOMAIN file.users : AcceptedUser(file.users[user], DOMAIN file.upstreams)

\* What it makes of the file.
parse(file) ==
    [base |-> [name \in DOMAIN file.upstreams |-> basePath(file.upstreams[name])],
     mounts |-> [user \in DOMAIN file.users |-> Range(parseMounts(file.users[user].mounts))]]
=============================================================================
