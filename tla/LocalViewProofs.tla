--------------------------- MODULE LocalViewProofs ---------------------------
(***************************************************************************)
(* Proofs about LocalView, for any number of disks, names and changes      *)
(* while a request is served.                                              *)
(***************************************************************************)
EXTENDS LocalView, TLAPS

\* The groups of variables are only abbreviations.
USE DEF disk, request, operation, walk

Paths == {<<>>} \cup {<<n>> : n \in Names} \cup {<<n, Inner>> : n \in Names}

Types ==
    /\ mounted \in Trees \cup {Unmounted}
    /\ tree \in [Trees -> Contents]
    /\ path \in Paths
    /\ depth \in {0, 1}
    /\ pc \in {"get", "stat", "props", "readdir", "entry", "done"}
    /\ current \in Paths
    /\ step \in {"open root", "resolve", "lstat", "returned"}
    /\ root \in Trees \cup {Unmounted}
    /\ result \in Errors \cup Kinds
    /\ directory \in BOOLEAN
    /\ todo \in SUBSET Paths
    /\ listed \in SUBSET Paths
    /\ read \in BOOLEAN
    /\ answer \in {"none", "200", "207", "404", "405", "502", "silent"}
    /\ seen \in [Names -> SUBSET Kinds]
    /\ used \in SUBSET Trees
    /\ gone \in BOOLEAN

\* The history holds what is on the disks that were mounted.
DiskInv ==
    /\ mounted \in used \cup {Unmounted}
    /\ mounted = Unmounted => gone = TRUE
    /\ \A t \in used, n \in Names : tree[t][n] \in seen[n]

\* What an operation returns was seen at the path that it works on.
OpInv ==
    /\ step \in {"resolve", "lstat"} => root \in used
    /\ step = "lstat" =>
          /\ current # <<>>
          /\ \A n \in Names : current = <<n>> => "link" \in seen[n]
    /\ step = "returned" =>
          /\ current = <<>> => result \in {"dir", "notExist"}
          /\ result \notin Errors =>
                /\ root \in used
                /\ result \in Listable \/ (result = "unreadable" /\ ~Opens)
                /\ \A n \in Names : current = <<n>> => result \in seen[n]
                /\ \A n \in Names : current = <<n, Inner>> => result # "dir"

\* Where the handler is in its walk.
WalkInv ==
    /\ pc # "done" => answer = "none"
    /\ pc \in {"get", "stat", "readdir"} => current = path
    /\ pc = "readdir" => directory = TRUE /\ depth = 1
    /\ pc \in {"props", "readdir", "entry"} /\ path = <<>> => directory = TRUE
    /\ directory = TRUE => \A n \in Names : path # <<n, Inner>>
    /\ pc = "entry" => current # path
    /\ pc \in {"props", "entry"} /\ current # path => read = TRUE
    /\ path \notin todo
    /\ todo # {} => read = TRUE
    /\ answer = "207" /\ depth = 1 /\ directory = TRUE => read = TRUE

\* An entry that only ever was a link that cannot be followed, or was not there.
Steady(n) == seen[n] \subseteq {"link"} \/ seen[n] \subseteq {"absent"}

MissingInv ==
    \A n \in Names : path = <<n>> /\ Steady(n) =>
        /\ pc \in {"get", "stat", "done"}
        /\ pc # "done" /\ step = "returned" => result = "notExist"
        /\ answer \in {"none", "404", "silent"}

\* An entry that could be read all the time.
Persists(n) == seen[n] \subseteq Listable /\ gone = FALSE

\* Such an entry is listed or still to come, and nothing is wrong with it.
ListInv ==
    path = <<>> => \A n \in Names :
        /\ <<n>> \in listed => seen[n] \cap Listable # {}
        /\ Persists(n) =>
              /\ pc # "done" /\ read = TRUE => <<n>> \in listed \cup todo \cup {current}
              /\ pc # "done" /\ current = <<n>> =>
                    step # "lstat" /\ (step = "returned" => result \notin Errors)
              /\ answer = "207" /\ depth = 1 => <<n>> \in listed

IInv == Types /\ DiskInv /\ OpInv /\ WalkInv /\ MissingInv /\ ListInv

-----------------------------------------------------------------------------
(* Paths and what is found there.                                           *)

LEMMA PathFacts ==
    ASSUME NEW n \in Names, NEW m \in Names
    PROVE  /\ <<n>> # <<>> /\ <<n, Inner>> # <<>> /\ <<n>> # <<m, Inner>>
           /\ <<n>> = <<m>> => n = m
           /\ <<n, Inner>> = <<m, Inner>> => n = m
OBVIOUS

\* What os.Root finds is on the disk; the file in a directory is no directory.
LEMMA LookupFacts ==
    ASSUME NEW t \in Trees, NEW p \in Paths, Types
    PROVE  /\ p = <<>> => Lookup(t, p) = "dir"
           /\ \A n \in Names : p = <<n>> => Lookup(t, p) = tree[t][n]
           /\ \A n \in Names : p = <<n, Inner>> => Lookup(t, p) \in {"file", "absent", "below"}
           /\ Lookup(t, p) \in Kinds \cup {"below"}
<1>1. p = <<>> => Lookup(t, p) = "dir"
  BY DEF Lookup
<1>2. ASSUME NEW n \in Names, p = <<n>> PROVE Lookup(t, p) = tree[t][n]
  <2>1. Len(p) = 1 /\ p[1] = n /\ p # <<>>
    BY <1>2
  <2> QED  BY <2>1 DEF Lookup
<1>3. ASSUME NEW n \in Names, p = <<n, Inner>>
      PROVE  Lookup(t, p) \in {"file", "absent", "below"}
  <2>1. Len(p) = 2 /\ p[1] = n /\ p # <<>>
    BY <1>3
  <2>2. Lookup(t, p) = CASE tree[t][n] = "dir" -> "file"
                         [] tree[t][n] = "absent" -> "absent"
                         [] OTHER -> "below"
    BY <2>1 DEF Lookup
  <2> QED  BY <2>2
<1>4. \A n \in Names : tree[t][n] \in Kinds
  BY DEF Types, Contents
<1>5. Lookup(t, p) \in Kinds \cup {"below"}
  BY <1>1, <1>2, <1>3, <1>4 DEF Paths, Kinds
<1> QED  BY <1>1, <1>2, <1>3, <1>5

LEMMA InitIInv == Init => IInv
<1> SUFFICES ASSUME Init PROVE IInv
  OBVIOUS
<1> USE DEF Init
<1>1. Types
  <2>1. used \in SUBSET Trees
    OBVIOUS
  <2>2. \A t \in used, n \in Names : tree[t][n] \in Kinds
    BY <2>1 DEF Contents
  <2>3. seen \in [Names -> SUBSET Kinds]
    <3>1. seen = [n \in Names |-> {tree[t][n] : t \in used}]
      OBVIOUS
    <3> HIDE DEF Init
    <3>2. ASSUME NEW n \in Names PROVE {tree[t][n] : t \in used} \in SUBSET Kinds
      BY <2>2
    <3> QED  BY <3>1, <3>2
  <2>4. gone \in BOOLEAN
    OBVIOUS
  <2> QED  BY <2>1, <2>3, <2>4 DEF Types, Paths, Errors
<1>2. DiskInv
  BY DEF DiskInv
<1>3. OpInv
  BY DEF OpInv
<1>4. WalkInv
  BY DEF WalkInv
<1>5. MissingInv
  BY DEF MissingInv
<1>6. ListInv
  BY DEF ListInv
<1> QED  BY <1>1, <1>2, <1>3, <1>4, <1>5, <1>6 DEF IInv

-----------------------------------------------------------------------------
(* The disk and the client.                                                 *)

\* Nothing that was seen is forgotten, and nothing but the disk changes.
LEMMA HistoryGrows ==
    IInv /\ (Remount \/ Replace) =>
        /\ Types' /\ DiskInv'
        /\ \A n \in Names : seen[n] \subseteq seen'[n]
        /\ used \subseteq used'
        /\ gone' = FALSE => gone = FALSE
        /\ UNCHANGED <<request, pc, operation, walk, answer>>
<1> SUFFICES ASSUME IInv, Remount \/ Replace
             PROVE  /\ Types' /\ DiskInv'
                    /\ \A n \in Names : seen[n] \subseteq seen'[n]
                    /\ used \subseteq used'
                    /\ gone' = FALSE => gone = FALSE
                    /\ UNCHANGED <<request, pc, operation, walk, answer>>
  OBVIOUS
<1> USE DEF Change
<1>0. Types /\ DiskInv
  BY DEF IInv
<1>1. UNCHANGED <<request, pc, operation, walk, answer>>
  BY DEF Remount, Replace
<1>2. CASE Remount
  <2>1. PICK t \in (Trees \cup {Unmounted}) \ {mounted} :
          /\ mounted' = t
          /\ used' = used \cup ({t} \ {Unmounted})
          /\ seen' = [n \in Names |-> seen[n] \cup {tree[u][n] : u \in {t} \ {Unmounted}}]
          /\ gone' = (gone \/ t = Unmounted)
          /\ tree' = tree
    BY <1>2 DEF Remount
  <2>2. \A n \in Names : seen'[n] = seen[n] \cup {tree[u][n] : u \in {t} \ {Unmounted}}
    BY <2>1
  <2>3. \A u \in {t} \ {Unmounted}, n \in Names : tree[u][n] \in Kinds
    BY <1>0, <2>1 DEF Types, Contents
  <2>4. seen' \in [Names -> SUBSET Kinds]
    <3>1. \A n \in Names : seen[n] \in SUBSET Kinds
      BY <1>0 DEF Types
    <3>2. \A n \in Names : seen[n] \cup {tree[u][n] : u \in {t} \ {Unmounted}} \in SUBSET Kinds
      BY <3>1, <2>3
    <3> QED  BY <3>2, <2>1
  <2>5. gone \in BOOLEAN /\ gone' \in BOOLEAN
    BY <2>1, <1>0 DEF Types
  <2>6. mounted' \in Trees \cup {Unmounted} /\ used' \in SUBSET Trees
    BY <1>0, <2>1 DEF Types
  <2>7. Types'
    BY <1>0, <1>1, <2>1, <2>4, <2>5, <2>6 DEF Types
  <2>8. mounted' \in used' \cup {Unmounted} /\ (mounted' = Unmounted => gone' = TRUE)
    BY <2>1, <2>5
  <2>9. \A u \in used', n \in Names : tree'[u][n] \in seen'[n]
    BY <1>0, <2>1, <2>2 DEF DiskInv
  <2>10. gone' = FALSE => gone = FALSE
    BY <2>1, <2>5
  <2> QED  BY <1>1, <2>1, <2>2, <2>7, <2>8, <2>9, <2>10 DEF DiskInv
<1>3. CASE Replace
  <2>1. PICK t \in used, n \in Names, k \in Kinds :
          /\ tree' = [tree EXCEPT ![t][n] = k]
          /\ seen' = [seen EXCEPT ![n] = @ \cup {k}]
          /\ UNCHANGED <<mounted, used, gone>>
    BY <1>3 DEF Replace
  <2>2. seen' \in [Names -> SUBSET Kinds] /\ \A m \in Names : seen[m] \subseteq seen'[m]
    BY <1>0, <2>1 DEF Types
  <2>3. tree' \in [Trees -> Contents]
    BY <1>0, <2>1 DEF Types, Contents
  <2>4. Types'
    <3>1. mounted' \in Trees \cup {Unmounted} /\ used' \in SUBSET Trees
      BY <1>0, <2>1 DEF Types
    <3>2. gone' = gone /\ gone \in BOOLEAN
      BY <1>0, <2>1 DEF Types
    <3>3. gone' \in BOOLEAN
      BY <3>2
    <3> QED  BY <1>0, <1>1, <2>2, <2>3, <3>1, <3>3 DEF Types
  <2>5. \A u \in used', m \in Names : tree'[u][m] \in seen'[m]
    <3>1. TAKE u \in used', m \in Names
    <3>2. u \in Trees /\ t \in Trees /\ u \in used
      BY <1>0, <2>1 DEF Types
    <3>3. tree[u][m] \in seen[m] /\ tree[u] \in [Names -> Kinds]
      BY <1>0, <3>2 DEF DiskInv, Types, Contents
    <3>4. CASE u = t /\ m = n
      <4>1. tree'[u][m] = k
        BY <3>2, <3>3, <3>4, <2>1, <1>0 DEF Types
      <4>2. k \in seen'[n]
        BY <2>1, <1>0 DEF Types
      <4> QED  BY <4>1, <4>2, <3>4
    <3>5. CASE ~(u = t /\ m = n)
      <4>1. tree'[u][m] = tree[u][m]
        BY <3>2, <3>3, <3>5, <2>1, <1>0 DEF Types
      <4> QED  BY <4>1, <3>3, <2>2
    <3> QED  BY <3>4, <3>5
  <2> QED  BY <1>0, <1>1, <2>1, <2>2, <2>4, <2>5 DEF DiskInv
<1> QED  BY <1>2, <1>3

\* What is steady or persists after a change was so before.
LEMMA ChangeStep == IInv /\ (Remount \/ Replace) => IInv'
<1> SUFFICES ASSUME IInv, Remount \/ Replace PROVE IInv'
  OBVIOUS
<1>1. /\ Types' /\ DiskInv'
      /\ \A n \in Names : seen[n] \subseteq seen'[n]
      /\ used \subseteq used'
      /\ gone' = FALSE => gone = FALSE
      /\ UNCHANGED <<request, pc, operation, walk, answer>>
  BY HistoryGrows
<1>2. OpInv'
  BY <1>1 DEF IInv, OpInv, Opens
<1>3. WalkInv'
  BY <1>1 DEF IInv, WalkInv
<1>4. \A n \in Names : Steady(n)' => Steady(n)
  BY <1>1 DEF Steady
<1>5. MissingInv'
  BY <1>1, <1>4 DEF IInv, MissingInv
<1>6. \A n \in Names : Persists(n)' => Persists(n)
  BY <1>1 DEF Persists
<1>7. \A n \in Names : seen[n] \cap Listable # {} => seen'[n] \cap Listable # {}
  BY <1>1
<1>8. ListInv'
  BY <1>1, <1>6, <1>7 DEF IInv, ListInv
<1> QED  BY <1>1, <1>2, <1>3, <1>5, <1>8 DEF IInv

LEMMA CancelStep == IInv /\ Cancel => IInv'
<1> SUFFICES ASSUME IInv, Cancel PROVE IInv'
  OBVIOUS
<1> USE DEF Cancel
<1>1. Types'
  BY DEF IInv, Types
<1>2. DiskInv'
  BY DEF IInv, DiskInv
<1>3. OpInv'
  BY DEF IInv, OpInv, Opens
<1>4. WalkInv'
  BY DEF IInv, WalkInv
<1>5. MissingInv'
  BY DEF IInv, MissingInv, Steady
<1>6. ListInv'
  BY DEF IInv, ListInv, Persists
<1> QED  BY <1>1, <1>2, <1>3, <1>4, <1>5, <1>6 DEF IInv

-----------------------------------------------------------------------------
(* readOnlyFS.                                                              *)

\* Where the handler is stays the same during an operation.
LEMMA SameWalk ==
    IInv /\ UNCHANGED <<disk, request, pc, walk, answer>> => DiskInv' /\ WalkInv'
BY DEF IInv, DiskInv, WalkInv

LEMMA OpenRootStep == IInv /\ OpenRoot => IInv'
<1> SUFFICES ASSUME IInv, OpenRoot PROVE IInv'
  OBVIOUS
<1>1. UNCHANGED <<disk, request, pc, walk, answer>>
  BY DEF OpenRoot
<1>2. DiskInv' /\ WalkInv'
  BY <1>1, SameWalk
<1>3. CASE mounted = Unmounted
  <2>1. result' = "notExist" /\ step' = "returned" /\ root' = root /\ gone = TRUE
    BY <1>3 DEF OpenRoot, CurrentRoot, Yields, IInv, DiskInv
  <2>2. Types'
    BY <1>1, <2>1 DEF IInv, Types, Errors
  <2>3. OpInv'
    BY <1>1, <2>1 DEF OpInv, Errors
  <2>4. MissingInv'
    BY <1>1, <2>1 DEF IInv, MissingInv, Steady
  <2>5. ListInv'
    BY <1>1, <2>1 DEF IInv, ListInv, Persists
  <2> QED  BY <1>2, <2>2, <2>3, <2>4, <2>5 DEF IInv
<1>4. CASE mounted # Unmounted
  <2>1. root' = mounted /\ step' = "resolve" /\ result' = result /\ mounted \in used
    BY <1>4 DEF OpenRoot, CurrentRoot, IInv, DiskInv
  <2>2. Types'
    BY <1>1, <2>1 DEF IInv, Types
  <2>3. OpInv'
    BY <1>1, <2>1 DEF OpInv
  <2>4. MissingInv'
    BY <1>1, <2>1 DEF IInv, MissingInv, Steady
  <2>5. ListInv'
    BY <1>1, <2>1 DEF IInv, ListInv, Persists
  <2> QED  BY <1>2, <2>2, <2>3, <2>4, <2>5 DEF IInv
<1> QED  BY <1>3, <1>4

\* What is found at an entry was seen there.
LEMMA FoundWasSeen ==
    ASSUME IInv, step \in {"resolve", "lstat"}
    PROVE  /\ root \in Trees /\ root \in used /\ current \in Paths
           /\ \A n \in Names : current = <<n>> =>
                 /\ Lookup(root, current) \in seen[n]
                 /\ Lookup(root, current) \in Kinds
<1>1. root \in used /\ root \in Trees /\ current \in Paths
  BY DEF IInv, OpInv, Types
<1>2. ASSUME NEW n \in Names, current = <<n>>
      PROVE  Lookup(root, current) \in seen[n] /\ Lookup(root, current) \in Kinds
  <2>1. Lookup(root, current) = tree[root][n]
    BY <1>1, <1>2, LookupFacts DEF IInv
  <2>2. tree[root][n] \in seen[n]
    BY <1>1 DEF IInv, DiskInv
  <2> QED  BY <2>1, <2>2 DEF IInv, Types
<1> QED  BY <1>1, <1>2

LEMMA ResolveStep == IInv /\ Resolve => IInv'
<1> SUFFICES ASSUME IInv, Resolve PROVE IInv'
  OBVIOUS
<1> DEFINE kind == Lookup(root, current)
<1>1. step = "resolve" /\ UNCHANGED <<disk, request, pc, root, walk, answer>>
  BY DEF Resolve
<1>2. DiskInv' /\ WalkInv'
  BY <1>1, SameWalk
<1>3. /\ root \in Trees /\ root \in used /\ current \in Paths
      /\ \A n \in Names : current = <<n>> => kind \in seen[n] /\ kind \in Kinds
  BY <1>1, FoundWasSeen
<1>4. /\ current = <<>> => kind = "dir"
      /\ \A n \in Names : current = <<n, Inner>> => kind \in {"file", "absent", "below"}
      /\ kind \in Kinds \cup {"below"}
  BY <1>3, LookupFacts DEF IInv
<1>5. \/ kind = "absent" /\ result' = "notExist" /\ step' = "returned"
      \/ kind = "unreadable" /\ Opens /\ result' = "permission" /\ step' = "returned"
      \/ kind \in {"link", "below"} /\ step' = "lstat" /\ result' = result
      \/ /\ kind \in Listable \/ (kind = "unreadable" /\ ~Opens)
         /\ result' = kind /\ step' = "returned"
  BY <1>4 DEF Resolve, Yields, Kinds, Listable
<1> HIDE DEF kind
<1>6. Types'
  <2>1. result' \in Errors \cup Kinds
    BY <1>5 DEF IInv, Types, Errors, Kinds, Listable
  <2>2. step' \in {"open root", "resolve", "lstat", "returned"}
    BY <1>5
  <2> QED  BY <1>1, <2>1, <2>2 DEF IInv, Types
<1>7. OpInv'
  <2>1. (step' \in {"resolve", "lstat"}) => root' \in used'
    BY <1>1, <1>3
  <2>2. step' = "lstat" =>
          /\ current' # <<>>
          /\ \A n \in Names : current' = <<n>> => "link" \in seen'[n]
    BY <1>1, <1>3, <1>4, <1>5 DEF Kinds, Listable
  <2>3. step' = "returned" /\ current' = <<>> => result' \in {"dir", "notExist"}
    BY <1>1, <1>4, <1>5
  <2>4. step' = "returned" /\ result' \notin Errors =>
          /\ result' = kind
          /\ result' \in Listable \/ (result' = "unreadable" /\ ~Opens')
    BY <1>1, <1>5 DEF Errors, Opens
  <2>5. step' = "returned" /\ result' \notin Errors =>
          /\ \A n \in Names : current' = <<n>> => result' \in seen'[n]
          /\ \A n \in Names : current' = <<n, Inner>> => result' # "dir"
    BY <1>1, <1>3, <1>4, <2>4
  <2> QED  BY <1>1, <1>3, <2>1, <2>2, <2>3, <2>4, <2>5 DEF OpInv
<1>8. MissingInv'
  <2> SUFFICES ASSUME NEW n \in Names, path = <<n>>, Steady(n)
               PROVE  /\ pc \in {"get", "stat", "done"}
                      /\ pc # "done" /\ step' = "returned" => result' = "notExist"
                      /\ answer \in {"none", "404", "silent"}
    BY <1>1 DEF MissingInv, Steady
  <2>1. pc \in {"get", "stat", "done"} /\ answer \in {"none", "404", "silent"}
    BY DEF IInv, MissingInv
  <2>2. ASSUME pc # "done" PROVE current = <<n>>
    BY <2>1, <2>2 DEF IInv, WalkInv
  <2>3. pc # "done" => kind \in {"link", "absent"}
    BY <1>3, <2>2 DEF Steady
  <2> QED  BY <1>5, <2>1, <2>3 DEF Listable
<1>9. ListInv'
  <2> SUFFICES ASSUME path = <<>>, NEW n \in Names
               PROVE  /\ <<n>> \in listed => seen[n] \cap Listable # {}
                      /\ Persists(n) =>
                            /\ pc # "done" /\ read = TRUE => <<n>> \in listed \cup todo \cup {current}
                            /\ pc # "done" /\ current = <<n>> =>
                                  step' # "lstat" /\ (step' = "returned" => result' \notin Errors)
                            /\ answer = "207" /\ depth = 1 => <<n>> \in listed
    BY <1>1 DEF ListInv, Persists
  <2>1. ASSUME Persists(n), current = <<n>>
        PROVE  step' # "lstat" /\ result' \notin Errors
    <3>1. kind \in Listable
      BY <1>3, <2>1 DEF Persists
    <3> QED  BY <3>1, <1>5 DEF Listable, Errors
  <2> QED  BY <2>1 DEF IInv, ListInv
<1> QED  BY <1>2, <1>6, <1>7, <1>8, <1>9 DEF IInv

LEMMA LstatStep == IInv /\ Lstat => IInv'
<1> SUFFICES ASSUME IInv, Lstat PROVE IInv'
  OBVIOUS
<1>1. /\ step = "lstat" /\ step' = "returned" /\ result' = LinkError(root, current)
      /\ UNCHANGED <<disk, request, pc, root, walk, answer>>
  BY DEF Lstat, Yields
<1>2. DiskInv' /\ WalkInv'
  BY <1>1, SameWalk
<1>3. result' \in {"notExist", "other"}
  BY <1>1 DEF LinkError
<1>4. Types'
  BY <1>1, <1>3 DEF IInv, Types, Errors
<1>5. OpInv'
  BY <1>1, <1>3 DEF IInv, OpInv, Errors
<1>6. MissingInv'
  <2> SUFFICES ASSUME NEW n \in Names, path = <<n>>, Steady(n)
               PROVE  /\ pc \in {"get", "stat", "done"}
                      /\ pc # "done" => result' = "notExist"
                      /\ answer \in {"none", "404", "silent"}
    BY <1>1 DEF MissingInv, Steady
  <2>1. pc \in {"get", "stat", "done"} /\ answer \in {"none", "404", "silent"}
    BY DEF IInv, MissingInv
  <2>2. ASSUME pc # "done" PROVE result' = "notExist"
    <3>1. current = <<n>>
      BY <2>1, <2>2 DEF IInv, WalkInv
    <3>2. "link" \in seen[n]
      BY <1>1, <3>1 DEF IInv, OpInv
    <3>3. Lookup(root, current) \in seen[n]
      BY <1>1, <3>1, FoundWasSeen
    <3> QED  BY <1>1, <3>2, <3>3 DEF Steady, LinkError
  <2> QED  BY <2>1, <2>2
<1>7. ListInv'
  BY <1>1 DEF IInv, ListInv, Persists
<1> QED  BY <1>2, <1>4, <1>5, <1>6, <1>7 DEF IInv

-----------------------------------------------------------------------------
(* webdav.Handler.                                                          *)

LEMMA GetStep == IInv /\ Get => IInv'
<1> SUFFICES ASSUME IInv, Get PROVE IInv'
  OBVIOUS
<1> DEFINE a == CASE result \in Errors -> "404"
                  [] result = "dir" -> "405"
                  [] OTHER -> "200"
<1>1. /\ pc = "get" /\ step = "returned" /\ pc' = "done" /\ answer' = a
      /\ UNCHANGED <<disk, request, operation, walk>>
  BY DEF Get, Returned, Answers
<1>2. a \in {"200", "404", "405"} /\ (result = "notExist" => a = "404")
  BY DEF Errors
<1> HIDE DEF a
<1>3. Types'
  BY <1>1, <1>2 DEF IInv, Types
<1>4. DiskInv' /\ OpInv'
  BY <1>1 DEF IInv, DiskInv, OpInv, Opens
<1>5. WalkInv'
  BY <1>1, <1>2 DEF IInv, WalkInv
<1>6. MissingInv'
  BY <1>1, <1>2 DEF IInv, MissingInv, Steady
<1>7. ListInv'
  BY <1>1, <1>2 DEF IInv, ListInv, Persists
<1> QED  BY <1>3, <1>4, <1>5, <1>6, <1>7 DEF IInv

LEMMA StatStep == IInv /\ Stat => IInv'
<1> SUFFICES ASSUME IInv, Stat PROVE IInv'
  OBVIOUS
<1>1. /\ pc = "stat" /\ step = "returned" /\ current = path /\ answer = "none"
      /\ UNCHANGED <<disk, request, root, result, todo, listed, read>>
  BY DEF Stat, Returned, IInv, WalkInv
<1>2. CASE result \in Errors
  <2>1. /\ pc' = "done" /\ UNCHANGED <<current, step, directory>>
        /\ answer' = IF result = "notExist" THEN "404" ELSE "405"
    BY <1>2 DEF Stat, Answers
  <2>2. Types'
    BY <1>1, <2>1 DEF IInv, Types
  <2>3. DiskInv' /\ OpInv'
    BY <1>1, <2>1 DEF IInv, DiskInv, OpInv, Opens
  <2>4. WalkInv'
    BY <1>1, <2>1 DEF IInv, WalkInv
  <2>5. MissingInv'
    BY <1>1, <2>1 DEF IInv, MissingInv, Steady
  <2>6. ListInv'
    BY <1>1, <2>1 DEF IInv, ListInv, Persists
  <2> QED  BY <2>2, <2>3, <2>4, <2>5, <2>6 DEF IInv
<1>3. CASE result \notin Errors
  <2>1. /\ pc' = "props" /\ current' = path /\ step' = "open root" /\ answer' = answer
        /\ directory' = (result = "dir")
    BY <1>3 DEF Stat, Calls
  <2>2. directory' \in BOOLEAN /\ (directory' = TRUE <=> result = "dir")
    BY <2>1
  <2>3. Types'
    BY <1>1, <2>1, <2>2 DEF IInv, Types
  <2>4. DiskInv' /\ OpInv'
    BY <1>1, <2>1 DEF IInv, DiskInv, OpInv
  <2>5. /\ path = <<>> => result = "dir"
        /\ \A n \in Names : path = <<n, Inner>> => result # "dir"
    BY <1>1, <1>3 DEF IInv, OpInv, Errors
  <2>6. WalkInv'
    BY <1>1, <2>1, <2>2, <2>5 DEF IInv, WalkInv
  <2>7. MissingInv'
    BY <1>1, <1>3, <2>1 DEF IInv, MissingInv, Steady, Errors
  <2>8. ListInv'
    BY <1>1, <2>1 DEF IInv, ListInv, Persists
  <2> QED  BY <2>3, <2>4, <2>6, <2>7, <2>8 DEF IInv
<1> QED  BY <1>2, <1>3

\* During the walk, the path is not an entry that is missing.
LEMMA NotMissing ==
    IInv /\ pc \in {"props", "readdir", "entry"} => \A n \in Names : path = <<n>> => ~Steady(n)
BY DEF IInv, MissingInv

\* What is listed is true, and everything that is readable all the time is
\* listed or among the paths that are left.
LEMMA NextEntryStep ==
    ASSUME IInv, pc \in {"props", "readdir", "entry"},
           NEW paths \in SUBSET Paths, path \notin paths, NextEntry(paths),
           UNCHANGED <<disk, request, root, result, directory>>,
           step = "returned",
           listed' \in SUBSET Paths, read' \in BOOLEAN,
           read = TRUE => read' = TRUE,
           paths # {} => read' = TRUE,
           directory = TRUE /\ depth = 1 => read' = TRUE,
           path = <<>> => \A n \in Names :
               /\ <<n>> \in listed' => seen[n] \cap Listable # {}
               /\ Persists(n) /\ read' = TRUE => <<n>> \in listed' \cup paths
    PROVE  IInv'
<1>1. answer = "none"
  BY DEF IInv, WalkInv
<1>2. \A n \in Names : path = <<n>> => ~Steady(n)
  BY NotMissing
<1>3. DiskInv'
  BY DEF IInv, DiskInv
<1>4. MissingInv'
  BY <1>2 DEF MissingInv, Steady
<1>5. CASE paths # {}
  <2>1. PICK p \in paths : /\ pc' = "entry" /\ current' = p /\ step' = "open root"
                           /\ answer' = answer /\ todo' = paths \ {p}
    BY <1>5 DEF NextEntry, Calls
  <2>2. Types'
    BY <2>1 DEF IInv, Types
  <2>3. OpInv'
    BY <2>1 DEF OpInv
  <2>4. WalkInv'
    BY <1>1, <1>5, <2>1 DEF IInv, WalkInv
  <2>5. ListInv'
    <3> SUFFICES ASSUME path = <<>>, NEW n \in Names
                 PROVE  /\ <<n>> \in listed' => seen[n] \cap Listable # {}
                        /\ Persists(n) => <<n>> \in listed' \cup todo' \cup {current'}
      BY <1>1, <2>1 DEF ListInv, Persists
    <3> QED  BY <1>5, <2>1
  <2> QED  BY <1>3, <1>4, <2>2, <2>3, <2>4, <2>5 DEF IInv
<1>6. CASE paths = {}
  <2>1. pc' = "done" /\ answer' = "207" /\ UNCHANGED <<current, step, todo>>
    BY <1>6 DEF NextEntry, Answers
  <2>2. Types'
    BY <2>1 DEF IInv, Types
  <2>3. OpInv'
    BY <2>1 DEF IInv, OpInv, Opens
  <2>4. WalkInv'
    BY <2>1 DEF IInv, WalkInv
  <2>5. path = <<>> => directory = TRUE
    BY DEF IInv, WalkInv
  <2>6. ListInv'
    BY <1>6, <2>1, <2>5 DEF ListInv, Persists
  <2> QED  BY <1>3, <1>4, <2>2, <2>3, <2>4, <2>6 DEF IInv
<1> QED  BY <1>5, <1>6

\* An entry that is readable all the time causes no error.
LEMMA NoErrorWhilePersisting ==
    ASSUME IInv, step = "returned", pc \in {"props", "entry"}, current # path,
           path = <<>>, NEW n \in Names, Persists(n)
    PROVE  <<n>> \in listed \cup todo \cup {current} /\ (result \in Errors => current # <<n>>)
BY DEF IInv, ListInv, WalkInv

LEMMA PropsStep == IInv /\ Props => IInv'
<1> SUFFICES ASSUME IInv, Props PROVE IInv'
  OBVIOUS
<1>1. /\ pc = "props" /\ step = "returned"
      /\ UNCHANGED <<disk, request, root, result, directory, read>>
  BY DEF Props, Returned
<1>2. /\ answer = "none" /\ todo \in SUBSET Paths /\ path \notin todo
      /\ todo # {} => read = TRUE
      /\ current # path => read = TRUE
      /\ current \in Paths /\ listed \in SUBSET Paths
      /\ read \in BOOLEAN /\ directory \in BOOLEAN /\ depth \in {0, 1}
  BY <1>1 DEF IInv, Types, WalkInv
<1>3. path = <<>> => \A n \in Names : <<n>> \in listed => seen[n] \cap Listable # {}
  BY DEF IInv, ListInv
<1>4. \A n \in Names : path = <<n>> => ~Steady(n)
  BY <1>1, NotMissing
<1>5. CASE result \in Errors /\ current = path
  <2>1. /\ pc' = "done" /\ answer' = "502" /\ UNCHANGED <<current, step, todo, listed>>
    BY <1>5 DEF Props, Answers
  <2>2. Types'
    BY <1>1, <2>1 DEF IInv, Types
  <2>3. DiskInv' /\ OpInv'
    BY <1>1, <2>1 DEF IInv, DiskInv, OpInv, Opens
  <2>4. WalkInv'
    BY <1>1, <2>1 DEF IInv, WalkInv
  <2>5. MissingInv'
    BY <1>1, <1>4 DEF MissingInv, Steady
  <2>6. ListInv'
    BY <1>1, <2>1 DEF IInv, ListInv, Persists
  <2> QED  BY <2>2, <2>3, <2>4, <2>5, <2>6 DEF IInv
<1>6. CASE result \in Errors /\ current # path
  <2>1. NextEntry(todo) /\ listed' = listed
    BY <1>6 DEF Props
  <2>2. path = <<>> => \A n \in Names :
          /\ <<n>> \in listed' => seen[n] \cap Listable # {}
          /\ Persists(n) /\ read' = TRUE => <<n>> \in listed' \cup todo
    BY <1>1, <1>3, <1>6, <2>1, NoErrorWhilePersisting
  <2> QED  BY <1>1, <1>2, <1>6, <2>1, <2>2, NextEntryStep
<1>7. ASSUME result \notin Errors
      PROVE  path = <<>> => \A n \in Names :
                 <<n>> \in listed \cup {current} => seen[n] \cap Listable # {}
  <2>1. result \in Listable
    BY <1>1, <1>7 DEF IInv, OpInv, Opens
  <2>2. \A n \in Names : current = <<n>> => result \in seen[n]
    BY <1>1, <1>7 DEF IInv, OpInv
  <2> QED  BY <1>3, <2>1, <2>2
<1>8. CASE result \notin Errors /\ current = path /\ directory = TRUE /\ depth = 1
  <2>1. /\ pc' = "readdir" /\ current' = path /\ step' = "open root" /\ answer' = answer
        /\ todo' = todo /\ listed' = listed \cup {current}
    BY <1>8 DEF Props, Calls
  <2>2. Types'
    BY <1>1, <1>2, <2>1 DEF IInv, Types
  <2>3. DiskInv' /\ OpInv'
    BY <1>1, <2>1 DEF IInv, DiskInv, OpInv
  <2>4. WalkInv'
    BY <1>1, <1>8, <2>1 DEF IInv, WalkInv
  <2>5. MissingInv'
    BY <1>1, <1>4 DEF MissingInv, Steady
  <2>6. ListInv'
    <3> SUFFICES ASSUME path = <<>>, NEW n \in Names
                 PROVE  /\ <<n>> \in listed' => seen[n] \cap Listable # {}
                        /\ Persists(n) /\ read = TRUE =>
                              <<n>> \in listed' \cup todo' \cup {current'}
      BY <1>1, <1>2, <2>1 DEF ListInv, Persists
    <3>1. Persists(n) /\ read = TRUE => <<n>> \in listed \cup todo \cup {current}
      BY <1>1 DEF IInv, ListInv
    <3> QED  BY <1>7, <1>8, <2>1, <3>1
  <2> QED  BY <2>2, <2>3, <2>4, <2>5, <2>6 DEF IInv
<1>9. CASE result \notin Errors /\ ~(current = path /\ directory = TRUE /\ depth = 1)
  <2>1. NextEntry(todo) /\ listed' = listed \cup {current}
    BY <1>9, <1>2 DEF Props
  <2>2. path = <<>> => \A n \in Names :
          /\ <<n>> \in listed' => seen[n] \cap Listable # {}
          /\ Persists(n) /\ read' = TRUE => <<n>> \in listed' \cup todo
    <3>1. path = <<>> => \A n \in Names :
             Persists(n) /\ read = TRUE => <<n>> \in listed \cup todo \cup {current}
      BY <1>1 DEF IInv, ListInv
    <3> QED  BY <1>1, <1>7, <1>9, <2>1, <3>1
  <2> QED  BY <1>1, <1>2, <1>9, <2>1, <2>2, NextEntryStep
<1> QED  BY <1>2, <1>5, <1>6, <1>8, <1>9

LEMMA ReaddirStep == IInv /\ Readdir => IInv'
<1> SUFFICES ASSUME IInv, Readdir PROVE IInv'
  OBVIOUS
<1>1. /\ pc = "readdir" /\ step = "returned" /\ current = path /\ answer = "none"
      /\ UNCHANGED <<disk, request, root, result, directory, listed>>
      /\ path \in Paths /\ \A n \in Names : path # <<n, Inner>>
  BY DEF Readdir, Returned, IInv, WalkInv, Types
<1>2. \A n \in Names : path = <<n>> => ~Steady(n)
  BY <1>1, NotMissing
<1>3. CASE result # "dir"
  <2>1. /\ pc' = "done" /\ answer' = "502" /\ UNCHANGED <<current, step, todo, read>>
    BY <1>3 DEF Readdir, Answers, StrayText
  <2>2. Types'
    BY <1>1, <2>1 DEF IInv, Types
  <2>3. DiskInv' /\ OpInv'
    BY <1>1, <2>1 DEF IInv, DiskInv, OpInv, Opens
  <2>4. WalkInv'
    BY <1>1, <2>1 DEF IInv, WalkInv
  <2>5. MissingInv'
    BY <1>1, <1>2 DEF MissingInv, Steady
  <2>6. ListInv'
    BY <1>1, <2>1 DEF IInv, ListInv, Persists
  <2> QED  BY <2>2, <2>3, <2>4, <2>5, <2>6 DEF IInv
<1>4. CASE result = "dir"
  <2> DEFINE children == Children(root, path)
  <2>1. read' = TRUE /\ NextEntry(children)
    BY <1>4 DEF Readdir
  <2>2. root \in used
    BY <1>1, <1>4 DEF IInv, OpInv, Errors
  <2>3. children \in SUBSET Paths /\ path \notin children
    <3>1. CASE path = <<>>
      BY <3>1 DEF Children, Paths
    <3>2. ASSUME NEW n \in Names, path = <<n>>
          PROVE  children \in SUBSET Paths /\ path \notin children
      <4>1. path # <<>> /\ path[1] = n
        BY <3>2
      <4>2. children = {<<n, Inner>>}
        BY <4>1 DEF Children
      <4> QED  BY <3>2, <4>2 DEF Paths
    <3> QED  BY <1>1, <3>1, <3>2 DEF Paths
  <2>4. ASSUME path = <<>>, NEW n \in Names, Persists(n)
        PROVE  <<n>> \in children
    <3>1. tree[root][n] \in Listable
      BY <2>2, <2>4 DEF IInv, DiskInv, Persists
    <3> QED  BY <2>4, <3>1 DEF Children, Listable
  <2> HIDE DEF children
  <2>5. path = <<>> => \A n \in Names :
          /\ <<n>> \in listed' => seen[n] \cap Listable # {}
          /\ Persists(n) /\ read' = TRUE => <<n>> \in listed' \cup children
    BY <1>1, <2>4 DEF IInv, ListInv
  <2>6. listed' \in SUBSET Paths
    BY <1>1 DEF IInv, Types
  <2> QED  BY <1>1, <2>1, <2>3, <2>5, <2>6, NextEntryStep
<1> QED  BY <1>3, <1>4

LEMMA EntryStep == IInv /\ Entry => IInv'
<1> SUFFICES ASSUME IInv, Entry PROVE IInv'
  OBVIOUS
<1>1. /\ pc = "entry" /\ step = "returned" /\ current # path
      /\ answer = "none" /\ read = TRUE
      /\ UNCHANGED <<disk, request, root, result, directory, listed, read>>
  BY DEF Entry, Returned, IInv, WalkInv
<1>2. todo \in SUBSET Paths /\ path \notin todo /\ listed \in SUBSET Paths
  BY DEF IInv, WalkInv, Types
<1>3. CASE result \in Errors
  <2>1. NextEntry(todo)
    BY <1>3 DEF Entry
  <2>2. path = <<>> => \A n \in Names :
          /\ <<n>> \in listed' => seen[n] \cap Listable # {}
          /\ Persists(n) /\ read' = TRUE => <<n>> \in listed' \cup todo
    <3>1. path = <<>> => \A n \in Names : <<n>> \in listed => seen[n] \cap Listable # {}
      BY DEF IInv, ListInv
    <3> QED  BY <1>1, <1>3, <3>1, NoErrorWhilePersisting
  <2> QED  BY <1>1, <1>2, <2>1, <2>2, NextEntryStep
<1>4. CASE result \notin Errors
  <2>1. /\ pc' = "props" /\ current' = current /\ step' = "open root" /\ answer' = answer
        /\ todo' = todo
    BY <1>4 DEF Entry, Calls
  <2>2. Types'
    BY <1>1, <2>1 DEF IInv, Types
  <2>3. DiskInv' /\ OpInv'
    BY <1>1, <2>1 DEF IInv, DiskInv, OpInv
  <2>4. WalkInv'
    BY <1>1, <2>1 DEF IInv, WalkInv
  <2>5. MissingInv'
    BY <1>1, NotMissing DEF MissingInv, Steady
  <2>6. ListInv'
    BY <1>1, <2>1 DEF IInv, ListInv, Persists
  <2> QED  BY <2>2, <2>3, <2>4, <2>5, <2>6 DEF IInv
<1> QED  BY <1>3, <1>4

-----------------------------------------------------------------------------
(* The specification.                                                       *)

LEMMA StutterStep == IInv /\ UNCHANGED vars => IInv'
<1> SUFFICES ASSUME IInv, UNCHANGED vars PROVE IInv'
  OBVIOUS
<1> USE DEF vars
<1>1. Types'
  <2>1. Types
    BY DEF IInv
  <2>2. /\ directory' = directory /\ directory \in BOOLEAN
        /\ read' = read /\ read \in BOOLEAN
        /\ gone' = gone /\ gone \in BOOLEAN
    BY <2>1 DEF Types
  <2>3. directory' \in BOOLEAN /\ read' \in BOOLEAN /\ gone' \in BOOLEAN
    BY <2>2
  <2> QED  BY <2>1, <2>3 DEF Types
<1>2. DiskInv' /\ OpInv'
  BY DEF IInv, DiskInv, OpInv, Opens
<1>3. WalkInv'
  BY DEF IInv, WalkInv
<1>4. MissingInv'
  BY DEF IInv, MissingInv, Steady
<1>5. ListInv'
  BY DEF IInv, ListInv, Persists
<1> QED  BY <1>1, <1>2, <1>3, <1>4, <1>5 DEF IInv

LEMMA Invariance == Spec => []IInv
<1>1. IInv /\ [Next]_vars => IInv'
  <2> SUFFICES ASSUME IInv, [Next]_vars PROVE IInv'
    OBVIOUS
  <2>1. CASE Remount \/ Replace
    BY <2>1, ChangeStep
  <2>2. CASE Cancel
    BY <2>2, CancelStep
  <2>3. CASE OpenRoot
    BY <2>3, OpenRootStep
  <2>4. CASE Resolve
    BY <2>4, ResolveStep
  <2>5. CASE Lstat
    BY <2>5, LstatStep
  <2>6. CASE Get
    BY <2>6, GetStep
  <2>7. CASE Stat
    BY <2>7, StatStep
  <2>8. CASE Props
    BY <2>8, PropsStep
  <2>9. CASE Readdir
    BY <2>9, ReaddirStep
  <2>10. CASE Entry
    BY <2>10, EntryStep
  <2>11. CASE Done \/ UNCHANGED vars
    BY <2>11, StutterStep DEF Done
  <2> QED  BY <2>1, <2>2, <2>3, <2>4, <2>5, <2>6, <2>7, <2>8, <2>9, <2>10, <2>11 DEF Next
<1> QED  BY <1>1, InitIInv, PTL DEF Spec

(* A link that cannot be followed is a 404 like what is not there, however  *)
(* many disks come and go while readOnlyFS has its second look.             *)
THEOREM MissingSafe == Spec => []UnresolvableIsMissing
<1>1. IInv => UnresolvableIsMissing
  BY DEF IInv, MissingInv, Steady, UnresolvableIsMissing
<1> QED  BY <1>1, Invariance, PTL

(* A complete listing is one of a directory that was read, and has every    *)
(* entry that was readable all the time and none that never was, though     *)
(* every operation of the walk opens what is mounted by then.               *)
THEOREM ListingSafe == Spec => []ListingIsTrue
<1>1. IInv => ListingIsTrue
  <2> SUFFICES ASSUME IInv, answer = "207", depth = 1
               PROVE  /\ directory => read
                      /\ path = <<>> => \A n \in Names :
                            /\ seen[n] \subseteq Listable /\ ~gone => <<n>> \in listed
                            /\ <<n>> \in listed => seen[n] \cap Listable # {}
    BY DEF ListingIsTrue
  <2>1. directory \in BOOLEAN /\ read \in BOOLEAN /\ gone \in BOOLEAN
    <3>1. directory \in BOOLEAN
      BY DEF IInv, Types
    <3>2. read \in BOOLEAN
      BY DEF IInv, Types
    <3>3. gone \in BOOLEAN
      BY DEF IInv, Types
    <3> QED  BY <3>1, <3>2, <3>3
  <2>2. directory => read
    BY <2>1 DEF IInv, WalkInv
  <2>3. ASSUME path = <<>>, NEW n \in Names
        PROVE  /\ seen[n] \subseteq Listable /\ gone = FALSE => <<n>> \in listed
               /\ <<n>> \in listed => seen[n] \cap Listable # {}
    BY <2>3 DEF IInv, ListInv, Persists
  <2> QED  BY <2>1, <2>2, <2>3
<1> QED  BY <1>1, Invariance, PTL
=============================================================================
