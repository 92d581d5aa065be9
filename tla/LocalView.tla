------------------------------ MODULE LocalView ------------------------------
(***************************************************************************)
(* One request to a local upstream: readOnlyFS of localdav.go, the         *)
(* handler of x/net/webdav that calls it (external), and what webdav-mux   *)
(* makes of the result.  Meanwhile the directory is mounted and unmounted, *)
(* and what is in it changes.                                              *)
(*                                                                         *)
(* A tree has entries of one level, and each directory among them a file.  *)
(* A symbolic link that leads to a place inside is what it leads to;       *)
(* "link" is one that os.Root does not follow.                             *)
(***************************************************************************)
EXTENDS Naturals, Sequences

CONSTANTS
    Names,        \* of entries
    Trees,        \* what may be mounted at dir
    Unmounted,    \* dir does not exist
    MaxChanges    \* bound: changes while the request is served

ASSUME TreesAssumption == Unmounted \notin Trees
ASSUME BoundsAssumption == MaxChanges \in Nat

Kinds == {"absent", "file", "dir", "unreadable", "link"}
Listable == {"file", "dir"}
Inner == "x"     \* the file in each directory

VARIABLES
    mounted,     \* the tree at dir, or Unmounted
    tree,        \* tree -> name -> kind
    changes,     \* counts towards MaxChanges
    method, path, depth,    \* the request
    pc,          \* where the handler is
    current,     \* the path that it works on
    step,        \* of the operation of readOnlyFS in progress
    root,        \* os.Root, of the last operation if none is in progress
    result,      \* of the operation: a kind or an error
    directory,   \* the path is a directory, by its Stat
    todo,        \* paths that Readdir returned and that are not looked at yet
    listed,      \* paths in the multistatus
    read,        \* history: Readdir returned
    answer,      \* what the client is answered
    seen,        \* history: name -> kinds in trees mounted since the start
    used,        \* history: these trees
    gone         \* history: dir was unmounted at some time

disk == <<mounted, tree, changes, seen, used, gone>>
request == <<method, path, depth>>
operation == <<step, root, result>>
walk == <<current, directory, todo, listed, read>>
vars == <<disk, request, pc, operation, walk, answer>>

Errors == {"notExist", "permission", "other"}
Contents == [Names -> Kinds]

Init ==
    /\ mounted \in Trees \cup {Unmounted}
    /\ tree \in [Trees -> Contents]
    /\ changes = 0
    /\ \/ method = "GET" /\ depth = 0 /\ pc = "get"
       \/ method = "PROPFIND" /\ depth \in {0, 1} /\ pc = "stat"
    /\ path \in {<<>>} \cup {<<n>> : n \in Names} \cup {<<n, Inner>> : n \in Names}
    /\ current = path
    /\ step = "open root"
    /\ root \in Trees \cup {Unmounted}
    /\ result = "other"
    /\ directory = FALSE
    /\ todo = {}
    /\ listed = {}
    /\ read = FALSE
    /\ answer = "none"
    /\ used = {mounted} \ {Unmounted}
    /\ seen = [n \in Names |-> {tree[t][n] : t \in used}]
    /\ gone = (mounted = Unmounted)

-----------------------------------------------------------------------------
(* The disk and the client. *)

Change ==
    /\ pc # "done"
    /\ changes < MaxChanges
    /\ changes' = changes + 1
    /\ UNCHANGED <<request, pc, operation, walk, answer>>

Remount ==
    /\ Change
    /\ \E t \in (Trees \cup {Unmounted}) \ {mounted} :
          /\ mounted' = t
          /\ used' = used \cup ({t} \ {Unmounted})
          /\ seen' = [n \in Names |-> seen[n] \cup {tree[u][n] : u \in {t} \ {Unmounted}}]
          /\ gone' = (gone \/ t = Unmounted)
    /\ UNCHANGED tree

\* What changes in a tree before it is mounted makes no difference.
Replace ==
    /\ Change
    /\ \E t \in used, n \in Names, k \in Kinds :
          /\ tree' = [tree EXCEPT ![t][n] = k]
          /\ seen' = [seen EXCEPT ![n] = @ \cup {k}]
    /\ UNCHANGED <<mounted, used, gone>>

\* Once the context is done, nobody is answered, whatever the handler still
\* does: readOnlyFS returns the error of the context.
Cancel ==
    /\ pc # "done"
    /\ pc' = "done"
    /\ answer' = "silent"
    /\ UNCHANGED <<disk, request, operation, walk>>

-----------------------------------------------------------------------------
(* readOnlyFS: Stat and OpenFile of current.  The handler stats "stat" and  *)
(* "entry", and opens otherwise.                                            *)

Opens == pc \in {"get", "props", "readdir"}

\* os.Root in a tree.  Below a file or a link nothing can be resolved, and the
\* error is none of fs.ErrNotExist.
Lookup(t, p) ==
    IF p = <<>> THEN "dir"
    ELSE IF Len(p) = 1 THEN tree[t][p[1]]
    ELSE CASE tree[t][p[1]] = "dir" -> "file"
           [] tree[t][p[1]] = "absent" -> "absent"
           [] OTHER -> "below"

Yields(r) == result' = r /\ step' = "returned"

\* Mutant: a Root that is open already is used on.
CurrentRootKept == IF root \in Trees THEN root ELSE mounted

CurrentRoot == mounted

\* os.OpenRoot, for every operation.
OpenRoot ==
    /\ step = "open root"
    /\ IF CurrentRoot = Unmounted
       THEN Yields("notExist") /\ UNCHANGED root
       ELSE root' = CurrentRoot /\ step' = "resolve" /\ UNCHANGED result
    /\ UNCHANGED <<disk, request, pc, walk, answer>>

Resolve ==
    /\ step = "resolve"
    /\ LET kind == Lookup(root, current)
       IN  CASE kind = "absent" -> Yields("notExist")
             [] kind = "unreadable" /\ Opens -> Yields("permission")
             [] kind \in {"link", "below"} -> step' = "lstat" /\ UNCHANGED result
             [] OTHER -> Yields(kind)
    /\ UNCHANGED <<disk, request, pc, root, walk, answer>>

\* Mutant: the error stays as it is.
LinkErrorAsIs(t, p) == "other"

\* What cannot be followed is not there.
LinkError(t, p) == IF Lookup(t, p) = "link" THEN "notExist" ELSE "other"

\* notFoundIfUnresolvable has another look.
Lstat ==
    /\ step = "lstat"
    /\ Yields(LinkError(root, current))
    /\ UNCHANGED <<disk, request, pc, root, walk, answer>>

-----------------------------------------------------------------------------
(* webdav.Handler, from one operation to the next.                          *)

Returned(point) ==
    /\ pc = point
    /\ step = "returned"
    /\ UNCHANGED <<disk, request, root, result>>

Calls(point, p) ==
    /\ pc' = point
    /\ current' = p
    /\ step' = "open root"
    /\ UNCHANGED answer

Answers(a) ==
    /\ answer' = a
    /\ pc' = "done"
    /\ UNCHANGED <<current, step>>

\* handleGetHeadPost: every error is a 404.
Get ==
    /\ Returned("get")
    /\ Answers(CASE result \in Errors -> "404"
                 [] result = "dir" -> "405"
                 [] OTHER -> "200")
    /\ UNCHANGED <<directory, todo, listed, read>>

\* handlePropfind: an error that is not fs.ErrNotExist is a 405.
Stat ==
    /\ Returned("stat")
    /\ IF result \in Errors
       THEN Answers(IF result = "notExist" THEN "404" ELSE "405") /\ UNCHANGED directory
       ELSE Calls("props", path) /\ directory' = (result = "dir")
    /\ UNCHANGED <<todo, listed, read>>

\* The next path that walkFS looks at, or the end of the multistatus.
NextEntry(paths) ==
    \/ /\ paths # {}
       /\ \E p \in paths : Calls("entry", p) /\ todo' = paths \ {p}
    \/ /\ paths = {}
       /\ Answers("207")
       /\ UNCHANGED todo

\* handlePropfindError leaves out what has an error.  Without any response
\* there is no document, and the rewriter reports ErrNotMultistatus.
Props ==
    /\ Returned("props")
    /\ IF result \in Errors /\ current = path
       THEN Answers("502") /\ UNCHANGED <<todo, listed>>
       ELSE IF result \in Errors THEN NextEntry(todo) /\ UNCHANGED listed
       ELSE /\ listed' = listed \cup {current}
            /\ IF current = path /\ directory /\ depth = 1
               THEN Calls("readdir", path) /\ UNCHANGED todo
               ELSE NextEntry(todo)
    /\ UNCHANGED <<directory, read>>

\* Mutant: text after the root element is not looked at.
StrayTextIgnored == "207"

\* walkFS fails: the multistatus ends as if it were complete, and the text of a
\* 500 follows it.  The rewriter takes this for an error: a 502, or the
\* connection is cut.
StrayText == "502"

Children(t, p) ==
    IF p = <<>> THEN {<<n>> : n \in {m \in Names : tree[t][m] # "absent"}}
    ELSE {<<p[1], Inner>>}

\* OpenFile and Readdir of the directory.
Readdir ==
    /\ Returned("readdir")
    /\ IF result # "dir"
       THEN Answers(StrayText) /\ UNCHANGED <<todo, read>>
       ELSE read' = TRUE /\ NextEntry(Children(root, path))
    /\ UNCHANGED <<directory, listed>>

\* An entry that cannot be resolved any more, or never could, is left out.
Entry ==
    /\ Returned("entry")
    /\ IF result \in Errors
       THEN NextEntry(todo)
       ELSE Calls("props", current) /\ UNCHANGED todo
    /\ UNCHANGED <<directory, listed, read>>

Done ==
    /\ pc = "done"
    /\ UNCHANGED vars

Next ==
    \/ Remount
    \/ Replace
    \/ Cancel
    \/ OpenRoot
    \/ Resolve
    \/ Lstat
    \/ Get
    \/ Stat
    \/ Props
    \/ Readdir
    \/ Entry
    \/ Done

Spec == Init /\ [][Next]_vars

-----------------------------------------------------------------------------

(* What is a link that cannot be followed for as long as the request lasts, *)
(* or is not there, is answered with 404 like everything else that does not *)
(* exist, whatever else changes meanwhile.                                  *)
UnresolvableIsMissing ==
    \A n \in Names :
        path = <<n>> /\ seen[n] \in {{"link"}, {"absent"}} => answer \in {"none", "404", "silent"}

(* A listing that the client takes for complete is one of a directory that  *)
(* was read.  If dir was mounted all the time, it has every entry that was  *)
(* readable all the time, in whatever was mounted since the request began,  *)
(* and none that never was.                                                 *)
ListingIsTrue ==
    answer = "207" /\ depth = 1 =>
        /\ directory => read
        /\ path = <<>> => \A n \in Names :
              /\ seen[n] \subseteq Listable /\ ~gone => <<n>> \in listed
              /\ <<n>> \in listed => seen[n] \cap Listable # {}
=============================================================================
