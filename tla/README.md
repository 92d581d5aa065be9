# webdav-mux in TLA+

webdav-mux is a read-only WebDAV server in Go.  It authenticates users against
bcrypt hashes, gives each of them a tree of *mounts*, forwards `GET`, `HEAD` and
`PROPFIND` below a mount to the upstream behind it (a remote WebDAV server,
optionally through a *download proxy*, or a local directory), and rewrites the
`href`s of `207 Multi-Status` answers so that the client sees its own paths.

This directory holds TLA+ modules translated from that code, the TLC
configurations that check them on small instances, and TLAPS proofs.

    tlc -config Auth.cfg MCAuth      # one model-checking run
    tlapm AuthProofs.tla                  # the proofs of one module

## 1. Inventory

| component | code | state | operations | hard behaviour |
|---|---|---|---|---|
| main loop | `main.go` | pinned listen address and TLS mode, signal channel (buffer 1) | startup, reload on SIGHUP, shutdown with a 10 s grace period | a signal before `Notify`, or while a reload is running; half-applied configuration; a certificate replaced while it is read |
| configuration | `internal/config` | none (pure parse) | `Load`, `Parse`, `parseUpstream`, `parseMount`, per-user overlap check | which trees and upstreams can exist |
| server state | `server/state.go`, `server/server.go` `Reload` | atomic pointer to one immutable generation: users, trees, clients, certificate | `newState`, `Reload`, `insert`, `resolve`, `upstreamURL`, `hrefMapper` | requests that outlive the generation they loaded |
| authentication | `server/auth.go` | per-user cache (digest, expiry), `bcryptSlots` | `authenticate` | expiry, overwritten entries, slots, cancellation, reload |
| request lifecycle | `server/server.go` | read deadline, response header | `ServeHTTP`, `serve`, `checkDepth`, `serveSyntheticPropfind` | deadline vs. context, panics after the header is sent |
| forwarding | `server/proxy.go` | redirect chain, header of the next hop, lazily started writer | `roundTrip`, `copyHeaders`, `filterAllow`, `serveGet`, `copyBody`, `serveUpstreamPropfind` | redirects and credentials, upstream failure in mid-body |
| download proxy client | `server/downloadproxy.go` | none | `proxyURL`, `proxyStatusError`, `splitOutsideQuotes`, `clientStatus` | a status of the proxy taken for one of the target |
| local transport | `localdav/transport.go` | commit-once header, `io.Pipe` | `RoundTrip`, `serve`, `pipeBody.Read/Close` | handler goroutine, reader and context racing; a file that shrinks while it is sent |
| local file system view | `localdav/localdav.go` | none: an `os.Root` per operation | `Stat`, `OpenFile`, `notFoundIfUnresolvable` | a listing is many operations while disks come and go |
| Multi-Status rewriter | `davxml/multistatus.go` | token stack, buffered unit with offsets and pending edits | `run`, `startElement`, `endElement`, `endUnit` | hrefs outside the mount, properties that hold hrefs, overlapping edits |
| PROPFIND request/answer | `davxml/propfind.go` | none | `ParsePropfind`, `WriteCollections` | bodies that nest, repeat or end anywhere |
| paths | `davpath` | none | `Parse`, `SplitLiteral`, `Encode`, `CutPrefix`, `ParseHref`, `checkComponent` | decoding twice, look-alike separators |
| command line tools | `main.go` | none | `check`, `hash-password` | - |

A request goes main loop -> `Server.ServeHTTP` -> state pointer -> authentication ->
path -> tree -> forwarding (upstream client, download proxy or local transport) ->
rewriter -> client.  A reload replaces the state pointer next to all that; there are
no other shared data.

What makes each part correct:

* authentication: only passwords of a configuration in effect let a request in; valid
  ones always do unless the request is cancelled; slots never leak; a cache entry dies
  after its TTL;
* local upstream: a response that looks complete is complete; the handler always ends;
* forwarding: credentials go to the upstream's origin only, the number of hops is
  bounded, all hops of a proxied download go through the proxy, a proxy failure is not
  reported as an answer of the target;
* lifecycle: a client gets either a whole answer or a broken one, never a truncated one
  that looks whole, as long as the context of its request has not ended;
* rewriter: no `href` outside the mount survives, what is removed is the smallest
  element that may be absent, the output is well formed;
* file system view: what cannot be resolved is missing, and a listing that looks complete
  shows what was there;
* PROPFIND answers: a directory of the mux lists its children and says of each property
  asked for whether it has it, whatever else the body contains;
* tree: the mount found for a path is the one whose path prefixes it, and an href
  mapped back and forth is the same href;
* main loop: a failed reload changes nothing; what needs a restart does not change.

## 2. Plan

The most important behaviour comes first: who is let in, where credentials go, and
whether the client can trust what it receives.

| module | about | composed with | state |
|---|---|---|---|
| `Auth`, `AuthPolicy` | authentication under reloads | `Auth` implements `AuthPolicy` | checked; safety and refinement proved |
| `RoundTrip`, `ProxyStatus` | headers, redirects, credentials, download proxy, answers | `RoundTrip` extends `ProxyStatus` | checked; safety proved |
| `Delivery` | what a response promises its client | implemented by the next two | abstract |
| `Lifecycle` | deadline, context, buffered writer, abort, log | implements `Delivery` | checked; safety and refinement proved |
| `LocalTransport`, `LocalDownload` | the in-process transport; a download through it | `LocalDownload` extends `LocalTransport` and implements `Delivery` | checked; safety and refinement proved |
| `LocalView` | the read-only view of a directory, under `x/net/webdav` | - | checked; safety proved |
| `Rewriter` | the token machine against a definition on the tree | - | checked; safety proved |
| `MountTree`, `DavPath`, `Config` | tree and overlap, paths as text, the configuration: pure operators | used by `Paths` | checked through `Paths`; theorems for any segments |
| `Propfind` | bodies of PROPFIND | used by `Paths` | checked through `Paths` |
| `Paths`, `Traversal` | from a file and a request to the answer, and back; what upstreams make of what is forwarded | `Paths` extends all four | checked; proved |
| `MainLoop` | startup, signals, reload, pinned settings, shutdown | - | checked; safety proved |

All of it is done.  Every invariant and action property that a run checks and finds true
is proved as well; what is left to TLC is liveness (section 6).

## 3. Modules and code

A definition carries the name of what it models wherever it can; `PROJECT.json` gives
the lines.  `MC...` modules only give constants their values.  Operators marked
*Mutant* in a comment are plausible mistakes in the definition that follows; no
specification uses them.

**Auth** has one goroutine per request.  `pc` is cut where another goroutine can get
in between: before the atomic `s.state.Load()` (`LoadState`), between `time.Now()` and
the mutex of the cache (`ReadClock...` and `Peek`/`Repeek`/`Store`), at the `select`
(`Acquire`, `GiveUp`) and at bcrypt (`Compare`, `CompareDummy`).  The deferred receive is
`Release`.  `loaded` is the list of all generations; `Server.state` points at the last
one, and `gen[r]` is what request `r` holds.  A configuration maps a name to the *set*
of passwords its hash accepts, since bcrypt reads 72 bytes only.  The digest is
injective in generation and password, as HMAC-SHA256 with a key drawn at every load is
for all practical purposes.  `since` is history.  **AuthPolicy** is what is promised of
it: a request is bound to the configuration in effect and answered once, by that
configuration alone.

**Delivery** is what a response promises: content in order, never more than there is,
and a regular end only if no content was announced or all of it was delivered, unless
the client has left.  It knows neither buffers nor statuses nor goroutines.

**LocalTransport** has four activities: the handler goroutine (`HandlerStep`), the
caller of `RoundTrip` and then reader of the body (`CallerStep`), `Cancel`, and the
function given to `context.AfterFunc`.  `commit` is the `sync.Once` of
`pipeResponseWriter`, `remaining` the field of `pipeBody`.  `io.Pipe` is external and
modelled by its documented contract: a write is handed over piece by piece to reads
(`Transfer` is their rendezvous), the first error of each side is kept (`rerr`,
`werr`).  Bytes are counted.  **LocalDownload** puts `serveGet` and `copyBody` in the
place of the caller, and adds a client that takes data, closes its sending side or
leaves; the context ends when `net/http` notices, or when `ServeHTTP` returns.

**RoundTrip** is one forwarded request.  `Init` builds the header of every hop from
the client's by `copyHeaders`; each pass of the loop of `state.roundTrip` has three
phases: `Send` chooses client and credentials, `Receive`/`Fail` is `client.Do`,
`Examine` has one action per way out of the loop.  A URL is its origin, whether it has
user information and a fragment; a header is the set of the names in it.  The
response to each hop is arbitrary: a status, a Location or not, any `Proxy-Status`.
**ProxyStatus** has `splitOutsideQuotes` as a recursive function over tokens (`ReadOn`, one
`ReadToken` per turn of the loop) and `proxyStatusError` on what it returns; the
reference `ReportedError` is on lists of parameters before `Render` writes them down.
`Answer` is what `serveGet`, `serveUpstreamPropfind` and `writeTransportError` make of the
result, with the reply's header.  `sent` and `named` are history.

**Lifecycle** is one request on a connection.  `phase` follows `ServeHTTP`, `serve`,
`serveGet`, `copyBody` and `serveUpstreamPropfind`; `buffered`, `wire` and `headers` are
the `bufio.Writer` on `lazyWriter` on `statusWriter`.  `net/http` is external: its
background read starts when the request's body is at its end, it ends the context when
that read fails *for whatever reason*, the read deadline included, and it reads the
rest of a body before it ends a response.  The failure of the read and the end of the
context are two steps (`ReadFails`, `ContextEnds`): a deadline that is cleared before
the read has returned is as if it had never expired, one that is cleared afterwards still
ends the context of a request that may be forwarded by then.  What the other modules decide (who is let
in, what a path is, what the upstream answers) is free here.

**LocalView** is one `GET` or `PROPFIND` of a local upstream while the directory is mounted
and unmounted and what is in it changes.  An operation of `readOnlyFS` is three steps:
`os.OpenRoot`, the operation itself, and the second look of `notFoundIfUnresolvable`.
The walk of `x/net/webdav` (`Get`, `Stat`, `Props`, `Readdir`, `Entry`) is external: its
order of operations and what it makes of their errors.  `StrayText` is what the rewriter
makes of a multistatus with the text of a 500 behind it.

**Rewriter** takes one step per token of `encoding/xml`.  `stack`, `unit` and `buf` are
the fields of the rewriter; `Enter` and `Leave` are the cases of `startElement` and
`endElement`, `removalDepth`, `DropElement`, `nameEdits` and `EndUnit` the functions of
those names; `SortedEdits` and `Splice` are the sorting and the loop at its end.  The
input is generated token by token from a grammar (`Content`).
`Promised` is the reference: the same rewriting defined on the finished element tree,
without marks, offsets or edits.

**MountTree** has the overlap check of `parseUser`, `node.insert`, `node.names` and
`node.resolve` on sequences of segments that nothing looks into; how segments compare is
the constant `SegmentLess`.  `Sorted` is the list that `slices.SortFunc` may return, and
`Overlap` the one-sided comparison along that list.  **DavPath** adds the
text: a character is `[c, n]`, that is `c` percent-encoded `n` times over, so that
`%252e` is `[".", 2]`, decoding decrements and encoding increments.  On it are `Parse`,
`SplitLiteral`, `Encode`, `CutPrefix`, `ParseHref` and `checkComponent` with its
look-alikes; `".."` is what one character becomes that stands for two dots, so that `fold`
keeps the length of a text.  **Config** has the checks of `Parse` that decide where a
request goes, from a file as written to upstreams and mounts.  **Propfind** is
`ParsePropfind` over the tokens of the decoder, a recursive function that skips what
`Decoder.Skip` does, and what `WriteCollections` says of each property; a body is any
sequence of tokens that `encoding/xml` can yield (`Decodable`: each end has its start, and
an error is the last).  **Paths** is
their composition: a configuration is loaded, and a client requests a path, follows an
entry of a synthetic directory, or follows an href that an upstream wrote in any of
its spellings.  **Traversal** has the readings of a text that the comment of
`checkComponent` names: `Reread` is one step (decode, split, take characters for others,
or leave it), `Readings` any `Rereadings` of them.

**MainLoop** is `runServe` with its start.  `raised` are signals that the runtime has not
dealt with, `signals` the channel of capacity 1; before `notified` a signal has its default
action (`Kill`), afterwards `Deliver` drops what does not fit.  `Load` reads the file and
pins what needs a restart; `ReadCertificate` and `ReadKey` are the two reads of
`tls.LoadX509KeyPair`.  The files are replaced at any time, each on its own.

## 4. Runs

| run | instance | shows |
|---|---|---|
| `auth` | 2 requests with any of 3 credentials, 1 slot, TTL 1, one reload that may change a password and remove a user | slots are conserved on every return; a hit is backed by a comparison less than the TTL old; only passwords of a configuration in effect let in; valid ones are refused only to cancelled requests; `AuthPolicy` is implemented; every request is answered |
| `local_download` | 3 writes of up to 2 bytes, lengths up to 3, a buffer of 1 | EOF means complete; errors are true; a download is a `Delivery`; the handler's goroutine ends when the client has left; a client that takes its data comes to the end |
| `round_trip` | upstream, another server, the proxy; 8 statuses, 6 `Proxy-Status` headers; 2 redirects | credentials and client stay on the upstream's origin; every hop is justified; what the client is answered describes the answer; bodies are closed; proxy errors end the chain and are not passed on as the target's; the request ends |
| `round_trip_userinfo` | the same | *violation*: user information of a `Location` reaches the proxy |
| `lifecycle` | 3 units of content, a buffer of 1 | a success that ends regularly is whole, unless it has no declared length and the client is gone or the context of the request had ended; a response is a `Delivery`; the log is true; the deadline ends no transfer whose background read it had not failed before; slow bodies are bounded |
| `lifecycle_silence` | the same | *violation*: a client that is there gets a 200 made of no answer |
| `lifecycle_get_body` | the same | *violation*: a GET whose body never comes is held for ever |
| `local_view` | 2 disks, 2 names, one level and a file in each directory, 2 changes | links that lead outside do not exist; a listing that looks complete is one of a directory that was read, and true to what was mounted |
| `rewriter` | every unit of up to 15 tokens | the output is what `Promised` says; a success is whole, and nothing is held between units |
| `rewriter_nested` | the same, with elements in displaynames | *violation*: a run-time panic |
| `paths` | 26 configuration files, of which six are accepted; paths of up to four segments, segments of up to three characters; 13 resources in every spelling; 400 bodies of PROPFIND | the tree is a function of the mounts; a path is what the configuration says; entries and hrefs lead where they should; what is asked is answered; nothing forwarded is a dot segment to a flawed upstream |
| `main_loop` | three contents of the file, two certificates, one request | the configuration in effect agrees with the listener, with matching key pairs; a SIGHUP leads to a reading of the file; SIGTERM ends the process |

Why these bounds are enough to see the interesting cases:

* `auth`: one password shares the only cache entry with the other while a second
  request finds or overwrites it; the clock passes the TTL between a look and a hit;
  the request that queues for the one slot is overtaken by the reload.
* `local_download`: 0 to 3 bytes declared against up to 6 written, by 2 and read by 1: a
  length is missed, met at the end and in the middle of a write, and exceeded.
* `round_trip`: with two redirects a chain leaves the upstream and comes back; the third
  is one too many.  The statuses stand for each branch of `Follow`, `errorStatus`,
  `clientStatus` and the two success tests.  The `Proxy-Status` headers have an error
  before, after and inside of quoted strings, and in one list member or another.  One
  set of client headers suffices: a name is on a white list or not.
* `lifecycle`: an error comes before anything is buffered, with a buffer not yet flushed,
  after the first flush, and in mid-body; the background read may fail before, and the
  context end at any time after, the deadline is cleared and the request forwarded.
* `local_view`: one change mounts a disk and the other takes it away, or changes an entry
  on either; names and disks are interchangeable, which the symmetry uses.
* `rewriter`: fifteen tokens hold a response with an href and a propstat that has either
  a status and a displayname with its text, on whichever side, or a property that
  contains another href.  One unit suffices since a unit starts from empty buffers,
  which `SuccessIsWhole` says and the proof shows for any number.
* `paths`: `checkComponent` refuses what can be decoded three times, and symbols are encoded
  up to four; 12 rereadings (`Rereadings`) leave nothing in three characters to decode, to
  fold or to split, and the theorem is for any number.
* `main_loop`: two signals before the loop takes one fill the channel and overflow it.

Deadlock is checked in all runs; a module whose system may end has an action for its
regular end, and stops nowhere else.

## 5. Fairness

* `Auth`: weak fairness of each request's own steps (the Go scheduler), strong fairness
  of `Acquire` (senders blocked on a channel are served in the order they came).
  Nothing makes a context end, the clock tick or the operator reload.
* `LocalDownload`: goroutines that can run do, the handler does not compute for ever, and
  `net/http` notices a client that has left.  That the client takes its data is a
  premise of `DownloadEnds` only: `HandlerReleased` holds for one that does not.
* `RoundTrip`: what the program does by itself, and what `net/http` does to pending
  operations once the context is done.  That servers answer is a premise of the
  second part of `RequestEnds` only: there is no timeout on the whole exchange.
* `Lifecycle`: the handler runs, its upstream answers, the timer fires.  A client need
  not send anything.
* `MainLoop`: the main goroutine runs, the runtime deals with signals, the timer of 10
  seconds fires.  Requests need not end, and files need not change.

`Rewriter`, `Paths` and `LocalView` are checked for safety only.

## 6. Proofs

Each `...Proofs` module defines an inductive invariant, shows that `Init` implies it and
each step preserves it, and derives the theorems.  They hold for
all values of the constants that satisfy the ASSUMEs beside their declarations: the bounds
are natural numbers (positive where 0 would be no program), configurations speak of known
names and passwords, credentials are well formed, the set of requests is finite, the
proxy is not on the upstream's origin, a `Proxy-Status` was rendered from members with
parameters, a body was read by `encoding/xml`.

* **AuthProofs**: `TypeCorrect`, `AdmissionSound`, `RefusalJustified`, `HitsBacked`,
  `SlotsConserved`, `RefinesPolicy`.  A hit has no comparison of its own, so that the
  invariant has to say of every cache entry that some request stored it after
  verifying the same password in the same generation (`EntryBacked`), and of every
  request that its verdict is right about the configuration it holds (`Judged`), which is one
  in effect since it arrived (`Located`).  `SlotsConserved` counts with
  `FS_AddElement`/`FS_RemoveElement`; the refinement goes action by action.
* **LocalDownloadProofs** starts with `LocalTransport`: `TypeCorrect`, `NoSilentTruncation`,
  `ErrorsTruthful`, for any caller of the transport.  The strengthening adds `got +
  remaining = Limit` while a declared body is read (`CallerInv`) and what each close
  error of the pipe says of the handler (`PipeInv`).  `UsesTransport` then shows that
  `serveGet` with its client is one of these callers, so that the invariant holds here
  too; `DownloadTypeCorrect` and `RefinesDelivery` add where `copyBody` is (`StepInv`), that
  what was got is with the client or in the buffer (`ByteInv`), and what each end means
  (`EndInv`).
* **RoundTripProofs**: `TypeCorrect`, `CredentialsConfined`, `ChainBounded`,
  `TargetsJustified`, `ReportsAreRead`, `ProxyErrorsStay`, `AnswersSound`, `NoBodyLeaks`, for
  any number of redirects, the 10 of the code among them, and any `Proxy-Status`.
  `ChainInv` says which hops were sent, `HeaderInv` that the header that hops start from
  never holds credentials, `PhaseInv` what is known of the last response in each phase.
  `ReportsAreRead` is about the parser alone: a text *passes* (`Passes`) if reading it from any
  state with the same quoting only makes the last part longer.  A parameter passes as it is
  written, because its separators are between quotes and its quotes escaped; joined texts pass
  if each does; so a separator outside begins the next part, and what was put together
  comes apart (`SplitMore`, `MembersFound`).  `ProxyErrorsStay` adds `ReportInv`: what
  `roundTrip` returned is what the proxy reported.  `ChainBounded` is proved only; the run
  checks what it is needed for (`RequestEnds`).
* **LifecycleProofs**: `TypeCorrect`, `TruncationExplained`, `StatusOnce`, `LogTruthful`,
  `TransfersSpared`, `RefinesDelivery`.  `ContentInv` and `WholeInv` say that what was
  taken is either with the client or in the buffer, and all of it once the handler
  returned, or else the response is `Excused`; `ContextInv` that nothing is forwarded under a
  deadline, and that only a failed read ends a context.  `TransfersSpared` needs an
  invariant of its own that holds from the moment of forwarding on (`Spared`).
  `TruncationExplained` and `RefinesDelivery` say nothing for a client whose request has
  a context that ended: section 7 has what such a client may get.
* **RewriterProofs**: `SuccessWhole`, `BufferBounded`, `RecordedAsRead`, `RewritesAsPromised`,
  `OnlyNestedNamesPanic`, for any limit, any number of units and any nesting.  The
  first two need the depth of the stack only.  The others go from the state to the tree:
  - the invariant `Known` says of a unit that is half read that the entries of the stack stand
    for the elements that are open, that those keep to the grammar of `Content`, and that the
    edits and displaynames recorded are *exactly* those which the elements that ended call for,
    without those in an element that was dropped (`EditSet`, `NameSet`).  `DropElement` cuts two
    lists at the marks of an element, so that the invariant has to say of each open element
    where its mark cuts them;
  - when the unit ends, those sets are the ones `Promised` speaks of (`Gone`, `Renamed`, the
    mapped hrefs), and no two edits begin at the same token, so that sorting them by their
    start leaves no choice;
  - `Splice` and `Promised` both join one piece per token, and the pieces are the same.

  `OnlyNestedNamesPanic` says that the panic of `rewriter_nested` has that one cause: without
  elements in displaynames nothing is inside of an href or a displayname (`Bare`), and then
  edits are apart.
* **LocalViewProofs**: `MissingSafe`, `ListingSafe`, for any disks, names and contents, and any
  number of changes.  Both compare what was ever seen at a path (`seen`, `used`, `gone`)
  with a walk that is still going on, so that the invariant has to follow the walk:
  `DiskInv` says that the history holds what is on the disks, `OpInv` that what an operation
  returns was seen where it looks, `WalkInv` which operations the walk still has before it,
  `MissingInv` that nothing but errors came of a path that never led anywhere, and
  `ListInv` that an entry which could be read all the time is listed, or still to come
  without an error.
* **PathsProofs**: `TreesAlwaysExact`, `AlwaysByPrefix`, `EntriesAlwaysLead`, `OnlyInsideShown`,
  `HrefsLeadBack`, `AskedIsAlwaysAnswered`, `NeverTraverses`, for any files, paths, bodies and
  resources of which `FilesAssumption`, `RequestPathsAssumption`, `BodiesAssumption` and
  `ResourcesAssumption` say no more than what they are made of.  It goes from operators to
  the system:
  - the tree: `AcceptedIsPrefixFree` that the overlap check, which looks at each pair of
    mounts from the side of the earlier only, is enough because a proper prefix sorts before
    what it is a prefix of (`PrefixSortsFirst`), for whatever relation `SegmentLess` is;
    `InsertAdds` says that the tree is a function of the *set* of mounts, whatever
    the order in which `newState` inserts them; `ResolveByPrefix` that walking it comes to
    the same as comparing prefixes;
  - the text: `EncodedParses`, that `Parse` takes back what `Encode` writes; `HrefResolves`, that
    `ParseHref` finds the resource from every way to write it (`Course` follows such a path
    down to the directory, up to where the ways part, and down to the resource);
  - `checkComponent`: `HarmlessReadings`, that a check which looks at two more decodings is
    enough for any number of decodings, splits and foldings in any order.  What a reading
    folds to has no fields but those of the texts that were checked (`Covered`): folding
    twice adds nothing, a field's fields are the whole's, and what a text decodes to has
    the fields of its decoded fields (`DecodedField`), which `checkComponent` has looked at
    unless it refused them;
  - the body of a PROPFIND: `Reading` says after any number of tokens how deep in the root
    the parser is, how many forms it has seen, and that the names it has are those of the
    children so far of the only form; so that it accepts a body if and only if that is
    `WellFormed`, and returns what was `Asked`, which `Propstats` answers once each;
  - the system: the invariant needs that what `config.Parse` accepts are prefix-free mounts
    with checked names and that the trees are theirs (`TreesInv`), that an upstream is asked
    for names and a listing holds nodes of the tree (`AnswerInv`), and that what was shown is
    the mount's path and what the resource has below the target (`FromInv`).

* **MainLoopProofs**: `TypeCorrect`, `SettingsPinned`.  `Loading` says that a configuration
  is pinned from the moment it is read, and which way through `newState` it takes.

Recursive functions (`newRoot`, `Resolved`, `Readings`, `ParsePropfind`, `ReadOn`, `Splice`,
and `FlattenSeq` of the community modules) are dealt with through the least number for
which a statement fails (`Least`), which needs no induction rule.

Only model-checked: every liveness property (`RequestEnds`, `HandlerReleased`,
`DownloadEnds` and their like), since the provers do not handle ENABLED.

## 7. Where code and text disagree

1. `round_trip_userinfo`: `docs/proxy-protocol.md:43` excludes user information from the
   target URL given to the download proxy; `proxy.go:106` passes on what a `Location` has.
2. `lifecycle_silence`: `proxy.go:173` takes a done context for a client that is gone.
   The read deadline, which `server.go:112` sets before authentication, ends the context
   as well if authentication has to wait for a slot: the client, still there, gets an
   empty 200.
3. `lifecycle_get_body`: the comment at `server.go:106` says that the deadline keeps
   clients from holding connections with slow bodies; a GET clears it
   (`server.go:164`) without having read its body, which `net/http` then waits for.
4. `rewriter_nested`: `multistatus_test.go:317` says that no input makes the rewriter
   panic; a displayname that contains a mapped href makes two edits overlap, and
   the slice at `multistatus.go:363` has its end before its start.

Seen while modelling, and not the subject of a run:

* A done context is taken for a client that is gone in `copyBody` (`proxy.go:246`) and
  `serveUpstreamPropfind` (`proxy.go:301`), too: they return without cutting the connection.
  The comment at `proxy.go:306` gives "避免客户端把截断的列表当成完整的" (so that the client does not
  take a truncated list for whole) as the reason for cutting it, and the README says of a
  `GET` at line 233 that "客户端不会把截断的内容当成完整文件" (the client does not take truncated content
  for a whole file).  But `net/http` also ends the context when the client closes its
  sending side only, and when the read deadline passes before the request is
  forwarded.  If the upstream then fails in mid-body, a client that still receives
  gets a truncated 200 or 207 without a Content-Length that ends like a whole one.
  `NoSilentTruncation` exempts this case, and `Delivery` counts such a client as one that
  has left.
* The comment at `server.go:106` says that the deadline is cleared when forwarding begins so
  that it does not interrupt downloads.  A background read that has timed out by then is
  not recalled: `net/http` ends the context next, and the transfer with it, whatever was
  cleared in between.  `DeadlineSparesTransfers` shows that this is the only way.
* A `Proxy-Status` with an unterminated quoted string, or a member without a name, may hide
  an error that follows; the comment at `downloadproxy.go:50` is about flawed headers.
  `ReportedError` is defined on well-formed headers only.
* A `PROPFIND` of a path *below* a link that leads outside, or below a file, is a 405 and not
  a 404: `notFoundIfUnresolvable` looks at the last component only, and an error other than
  `fs.ErrNotExist` is a 405 in `x/net/webdav`.  `UnresolvableIsMissing` is about the link.
* A directory that is unmounted in the middle of a listing may yield a shorter one that
  looks complete, since entries that cannot be resolved any more are left out.
  `ListingIsTrue` therefore asks for completeness only while something is mounted.
* The 502 that replaces a failed `PROPFIND` keeps the upstream's `Content-Language`, `Vary` and
  `Preference-Applied`; `AnswersForClient` asks only that nothing describes a body it does
  not have.
* A SIGTERM that arrives while a SIGHUP waits in the channel is dropped by the runtime, and
  the process goes on; `ShutdownEnds` shows that repeating it is enough.

## 8. Not modelled

* Timing: that the comparison with a dummy hash takes as long as one with a user's.
* Values of headers, and how the target's URL is written into the query of a proxy request.
* Bytes: character sets, byte order marks, namespaces, escaping and statistics in the
  rewriter; text that is not UTF-8, queries and fragments in paths; how elements of a
  synthetic answer are spelled.
* The YAML decoder, and what a URL, a name or a bcrypt hash looks like; the checks that
  use them are in `Config`.
* The methods of `readOnlyFS` that would write: they only return `permissionError`, and
  `webdav-mux` forwards none of them.
* `check` and `hash-password`: they read, print and exit.
* HTTP/2: `Lifecycle` is about HTTP/1.1, where the deadline belongs to the connection.
