------------------------------ MODULE PathsProofs ------------------------------
(***************************************************************************)
(* Proofs about Paths, for any files, requests and resources: inserting    *)
(* the mounts of an accepted configuration in any order makes the tree of  *)
(* their paths, resolve finds in it what follows from the paths alone,     *)
(* what a client is shown leads it back, and no upstream is asked for what *)
(* it could take for a dot segment.                                        *)
(***************************************************************************)
EXTENDS Traversal, TLAPS, SequenceTheorems, FiniteSetTheorems, WellFoundedInduction

-----------------------------------------------------------------------------
(* The tree of a user.                                                      *)

\* Mounts of a user as parseUser leaves them.
Mounts(M) == \A m \in M : m.path \in Seq(Segment) /\ m # NoMount
PrefixFree(M) == \A a, b \in M : a # b => ~HasPrefix(b.path, a.path)

Beginnings(path) == {SubSeq(path, 1, i) : i \in 0..Len(path)}
Nodes(M) == {<<>>} \cup UNION {Beginnings(m.path) : m \in M}

\* The tree that M describes.
TreeOf(tree, M) ==
    /\ tree.nodes = Nodes(M)
    /\ DOMAIN tree.mount = tree.nodes
    /\ \A m \in M : tree.mount[m.path] = m
    /\ \A n \in tree.nodes : (\A m \in M : n # m.path) => tree.mount[n] = NoMount

-----------------------------------------------------------------------------
\* Prefixes.

LEMMA Equal ==
    ASSUME NEW s \in Seq(Segment), NEW t \in Seq(Segment), Len(s) = Len(t),
           \A i \in 1..Len(s) : s[i] = t[i]
    PROVE  s = t
  BY SeqEqual

LEMMA BeginningFacts ==
    ASSUME NEW s \in Seq(Segment), NEW i \in 0..Len(s)
    PROVE  /\ SubSeq(s, 1, i) \in Seq(Segment)
           /\ Len(SubSeq(s, 1, i)) = i
           /\ \A k \in 1..i : SubSeq(s, 1, i)[k] = s[k]
<1>1. Len(s) \in Nat /\ i \in Int
  OBVIOUS
<1>2. CASE i = 0
  BY <1>1, <1>2, SubSeqEmpty, EmptySeq
<1>3. CASE i # 0
  <2>1. \A k \in 1..i : s[k] \in Segment
    BY <1>1
  <2> QED
    BY <1>1, <1>3, <2>1, SubSeqProperties
<1> QED
  BY <1>2, <1>3

\* A prefix is the beginning of its length.
LEMMA PrefixIsBeginning ==
    ASSUME NEW s \in Seq(Segment), NEW p \in Seq(Segment), HasPrefix(s, p)
    PROVE  Len(p) \in 0..Len(s) /\ p = SubSeq(s, 1, Len(p))
<1>1. Len(p) \in 0..Len(s) /\ \A i \in 1..Len(p) : s[i] = p[i]
  BY DEF HasPrefix
<1> QED
  BY <1>1, BeginningFacts, Equal

LEMMA BeginningIsPrefix ==
    ASSUME NEW s \in Seq(Segment), NEW i \in 0..Len(s)
    PROVE  HasPrefix(s, SubSeq(s, 1, i))
  BY BeginningFacts DEF HasPrefix

\* Two sequences with a common beginning have the shorter ones in common.
LEMMA SameBeginnings ==
    ASSUME NEW s \in Seq(Segment), NEW p \in Seq(Segment), HasPrefix(s, p),
           NEW i \in 0..Len(p)
    PROVE  i \in 0..Len(s) /\ SubSeq(s, 1, i) = SubSeq(p, 1, i)
<1>1. i \in 0..Len(s) /\ \A k \in 1..i : s[k] = p[k]
  BY DEF HasPrefix
<1> QED
  BY <1>1, BeginningFacts, Equal

\* Of two prefixes of a sequence one is a prefix of the other.
LEMMA PrefixesCompare ==
    ASSUME NEW s \in Seq(Segment), NEW p \in Seq(Segment), NEW q \in Seq(Segment),
           HasPrefix(s, p), HasPrefix(s, q)
    PROVE  HasPrefix(p, q) \/ HasPrefix(q, p)
<1>1. CASE Len(p) <= Len(q)
  BY <1>1 DEF HasPrefix
<1>2. CASE Len(q) <= Len(p)
  BY <1>2 DEF HasPrefix
<1> QED
  BY <1>1, <1>2

LEMMA PathIsNode ==
    ASSUME NEW M, Mounts(M), NEW m \in M, NEW i \in 0..Len(m.path)
    PROVE  SubSeq(m.path, 1, i) \in Nodes(M) /\ m.path \in Nodes(M)
<1>1. m.path \in Seq(Segment) /\ Len(m.path) \in 0..Len(m.path)
  BY DEF Mounts
<1>2. m.path = SubSeq(m.path, 1, Len(m.path))
  BY <1>1, PrefixIsBeginning DEF HasPrefix
<1>3. SubSeq(m.path, 1, i) \in Beginnings(m.path) /\ m.path \in Beginnings(m.path)
  BY <1>1, <1>2 DEF Beginnings
<1> QED
  BY <1>3 DEF Nodes

-----------------------------------------------------------------------------

\* Of two different mounts, sorted by path, the earlier does not lie within the
\* later: a proper prefix sorts before what it is a prefix of.
LEMMA PrefixSortsFirst ==
    ASSUME NEW p \in Seq(Segment), NEW q \in Seq(Segment), ~Before(p, q), HasPrefix(q, p)
    PROVE  HasPrefix(p, q)
<1>1. Len(p) \in Nat /\ Len(q) \in Nat
  BY LenProperties
<1>2. Len(p) = Len(q)
  BY <1>1 DEF Before, HasPrefix
<1> QED
  BY <1>1, <1>2 DEF HasPrefix

(* The overlap check of parseUser makes the mounts of a user prefix-free,   *)
(* though it looks at each pair from one side, in the order they are sorted *)
(* in.                                                                      *)
THEOREM AcceptedIsPrefixFree ==
    ASSUME NEW written, IsFiniteSet(DOMAIN written),
           \A i \in DOMAIN written : written[i].path \in Seq(Segment),
           NEW sorted \in Sorted(written), ~Overlap(sorted)
    PROVE  PrefixFree({written[i] : i \in DOMAIN written})
<1> DEFINE D == DOMAIN written
           n == Cardinality(D)
<1>1. PICK order \in Bijection(1..n, D) : sorted = [i \in DOMAIN order |-> written[order[i]]]
  BY DEF Sorted
<1>2. n \in Nat
  BY FS_CardinalityType
<1>3. /\ DOMAIN order = 1..n
      /\ \A i \in 1..n : order[i] \in D
      /\ \A key \in D : \E i \in 1..n : order[i] = key
  BY <1>1 DEF Bijection, Injection, Surjection
<1>4. DOMAIN sorted = 1..n /\ \A i \in 1..n : sorted[i] = written[order[i]]
  BY <1>1, <1>3
<1>5. \A i, j \in 1..n : i < j => ~Before(sorted[j].path, sorted[i].path)
  BY <1>4 DEF Sorted
<1>6. \A i, j \in 1..n : i < j => ~HasPrefix(sorted[j].path, sorted[i].path)
  BY <1>4 DEF Overlap
<1>7. ASSUME NEW k \in D, NEW l \in D, written[k] # written[l],
             HasPrefix(written[l].path, written[k].path)
      PROVE  FALSE
  <2>1. PICK i \in 1..n : order[i] = k
    BY <1>3
  <2>2. PICK j \in 1..n : order[j] = l
    BY <1>3
  <2>3. sorted[i] = written[k] /\ sorted[j] = written[l] /\ i # j
    BY <1>4, <1>7, <2>1, <2>2
  <2>4. CASE i < j
    BY <1>6, <1>7, <2>3, <2>4
  <2>5. CASE j < i
    <3>1. ~Before(written[k].path, written[l].path)
      BY <1>5, <2>3, <2>5
    <3>2. written[k].path \in Seq(Segment) /\ written[l].path \in Seq(Segment)
      OBVIOUS
    <3>3. HasPrefix(written[k].path, written[l].path)
      BY <1>7, <3>1, <3>2, PrefixSortsFirst
    <3> QED
      BY <1>6, <2>3, <2>5, <3>3
  <2> QED
    BY <1>2, <2>3, <2>4, <2>5
<1> QED
  BY <1>7 DEF PrefixFree

(* The empty tree has no mounts.                                            *)
THEOREM RootIsEmpty == TreeOf(Root, {})
  BY DEF TreeOf, Root, Nodes

(* Inserting a mount makes the tree of one more mount, whatever is there    *)
(* already: the order in which newState inserts them does not matter.       *)
THEOREM InsertAdds ==
    ASSUME NEW M, NEW tree, NEW m, TreeOf(tree, M),
           Mounts(M \cup {m}), PrefixFree(M \cup {m})
    PROVE  TreeOf(insert(tree, m), M \cup {m})
<1> DEFINE new == insert(tree, m)
<1>1. m.path \in Seq(Segment) /\ m.path \in Nodes(M \cup {m})
  <2>1. m.path \in Seq(Segment)
    BY DEF Mounts
  <2> QED
    BY <2>1, PathIsNode
<1>2. new.nodes = Nodes(M \cup {m})
  BY DEF insert, TreeOf, Nodes, Beginnings
<1>3. \A n \in new.nodes : new.mount[n] = IF n = m.path THEN m
                                          ELSE IF n \in Nodes(M) THEN tree.mount[n]
                                          ELSE NoMount
  BY DEF insert, TreeOf
<1>4. DOMAIN new.mount = new.nodes
  BY DEF insert
<1>5. ASSUME NEW k \in M \cup {m} PROVE new.mount[k.path] = k
  <2>1. CASE k.path = m.path
    <3>1. k = m
      BY <1>1, <2>1 DEF PrefixFree, HasPrefix
    <3> QED
      BY <1>1, <1>2, <1>3, <3>1
  <2>2. CASE k.path # m.path
    <3>1. k \in M /\ Mounts(M) /\ k.path \in Seq(Segment)
      BY <2>2 DEF Mounts
    <3>2. k.path \in Nodes(M) /\ k.path \in Nodes(M \cup {m})
      BY <3>1, PathIsNode
    <3> QED
      BY <1>2, <1>3, <2>2, <3>1, <3>2 DEF TreeOf
  <2> QED
    BY <2>1, <2>2
<1>6. ASSUME NEW n \in new.nodes, \A k \in M \cup {m} : n # k.path
      PROVE  new.mount[n] = NoMount
  BY <1>3, <1>6 DEF TreeOf
<1> QED
  BY <1>2, <1>4, <1>5, <1>6 DEF TreeOf

-----------------------------------------------------------------------------

\* Where resolve stops, and where it stops first.
Stops(tree, segs) ==
    {i \in 0..Len(segs) : \/ SubSeq(segs, 1, i) \notin tree.nodes
                          \/ tree.mount[SubSeq(segs, 1, i)] # NoMount}

LEMMA FirstStop ==
    ASSUME NEW S \in SUBSET Nat, S # {}
    PROVE  LET first == CHOOSE i \in S : \A j \in S : i <= j
           IN  first \in S /\ \A j \in S : first <= j
<1>1. PICK i \in S : \A j \in S : <<j, i>> \notin OpToRel(<, Nat)
  BY NatLessThanWellFounded, WFMin
<1>2. ASSUME NEW j \in S PROVE i <= j
  <2>1. <<j, i>> \in Nat \X Nat /\ <<j, i>>[1] = j /\ <<j, i>>[2] = i
    OBVIOUS
  <2>2. ~(j < i)
    BY <1>1, <2>1 DEF OpToRel
  <2> QED
    BY <2>2
<1> QED
  BY <1>2

\* Without a mount on the way to it a node stops nothing.
LEMMA StopsAtMount ==
    ASSUME NEW M, NEW tree, TreeOf(tree, M), Mounts(M), NEW segs \in Seq(Segment),
           NEW m \in M, HasPrefix(segs, m.path)
    PROVE  /\ Len(m.path) \in Stops(tree, segs)
           /\ m.path = SubSeq(segs, 1, Len(m.path))
<1>1. m.path \in Seq(Segment) /\ m # NoMount
  BY DEF Mounts
<1>2. Len(m.path) \in 0..Len(segs) /\ m.path = SubSeq(segs, 1, Len(m.path))
  BY <1>1, PrefixIsBeginning
<1>3. tree.mount[m.path] # NoMount
  BY <1>1 DEF TreeOf
<1> QED
  BY <1>2, <1>3 DEF Stops

(* resolve, in the tree of prefix-free mounts: a path that starts with a    *)
(* mount's path belongs to this mount and no other, with the rest below it; *)
(* one that leads to a mount, and the root, is a directory of the mux; any  *)
(* other is not there.                                                      *)
THEOREM ResolveByPrefix ==
    ASSUME NEW M, NEW tree, TreeOf(tree, M), Mounts(M), PrefixFree(M),
           NEW segs \in Seq(Segment)
    PROVE  LET found == resolve(tree, segs)
               above == {m \in M : HasPrefix(segs, m.path)}
               below == {m \in M : HasPrefix(m.path, segs)}
           IN  /\ found.kind = "mount" =>
                     /\ above = {found.mount}
                     /\ found.rest = CutPrefix(segs, found.mount.path)
               /\ found.kind = "synthetic" => above = {} /\ (below # {} \/ segs = <<>>)
               /\ found.kind = "missing" => above = {} /\ below = {}
               /\ found.kind \in {"mount", "synthetic", "missing"}
<1> DEFINE found == resolve(tree, segs)
           above == {m \in M : HasPrefix(segs, m.path)}
           below == {m \in M : HasPrefix(m.path, segs)}
           stops == Stops(tree, segs)
           first == CHOOSE i \in stops : \A j \in stops : i <= j
           end == SubSeq(segs, 1, first)
<1>1. found = IF stops = {} THEN [kind |-> "synthetic", node |-> segs]
              ELSE IF end \notin tree.nodes THEN [kind |-> "missing"]
              ELSE [kind |-> "mount", mount |-> tree.mount[end],
                    rest |-> SubSeq(segs, first + 1, Len(segs))]
  BY DEF resolve, Stops
<1>2. \A m \in M : m.path \in Seq(Segment) /\ m # NoMount
  BY DEF Mounts
<1>3. CASE stops = {}
  <2>1. found.kind = "synthetic"
    BY <1>1, <1>3
  <2>2. above = {}
    BY <1>3, StopsAtMount
  <2>3. segs \in Nodes(M)
    <3>1. Len(segs) \in 0..Len(segs) /\ SubSeq(segs, 1, Len(segs)) = segs
      BY PrefixIsBeginning DEF HasPrefix
    <3>2. Len(segs) \notin stops
      BY <1>3
    <3>3. SubSeq(segs, 1, Len(segs)) \in tree.nodes
      BY <3>1, <3>2 DEF Stops
    <3> QED
      BY <3>1, <3>3 DEF TreeOf
  <2>4. below # {} \/ segs = <<>>
    <3>1. CASE segs # <<>>
      <4>1. PICK m \in M : segs \in Beginnings(m.path)
        BY <2>3, <3>1 DEF Nodes
      <4>2. HasPrefix(m.path, segs)
        BY <1>2, <4>1, BeginningIsPrefix DEF Beginnings
      <4> QED
        BY <4>2
    <3> QED
      BY <3>1
  <2> QED
    BY <2>1, <2>2, <2>4
<1>4. CASE stops # {}
  <2>1. first \in stops /\ (\A j \in stops : first <= j) /\ first \in 0..Len(segs)
    <3>1. stops \in SUBSET Nat /\ stops \subseteq 0..Len(segs)
      BY DEF Stops
    <3> HIDE DEF stops
    <3>2. first \in stops /\ \A j \in stops : first <= j
      BY <1>4, <3>1, FirstStop
    <3> QED
      BY <3>1, <3>2
  <2> HIDE DEF first
  <2>2. CASE end \notin tree.nodes
    <3>1. found.kind = "missing"
      BY <1>1, <1>4, <2>2
    <3>2. ASSUME NEW m \in M, HasPrefix(segs, m.path) PROVE FALSE
      <4>1. Len(m.path) \in stops
        BY <3>2, StopsAtMount
      <4>2. first \in 0..Len(m.path)
        BY <1>2, <2>1, <4>1 DEF Stops
      <4>3. end = SubSeq(m.path, 1, first)
        BY <1>2, <3>2, <4>2, SameBeginnings
      <4> QED
        <5>1. SubSeq(m.path, 1, first) \in Nodes(M)
          BY <4>2, PathIsNode
        <5> QED
          BY <2>2, <4>3, <5>1 DEF TreeOf
    <3>3. ASSUME NEW m \in M, HasPrefix(m.path, segs) PROVE FALSE
      <4>1. first \in 0..Len(m.path) /\ end = SubSeq(m.path, 1, first)
        BY <1>2, <2>1, <3>3, SameBeginnings
      <4>2. SubSeq(m.path, 1, first) \in Nodes(M)
        BY <4>1, PathIsNode
      <4> QED
        BY <2>2, <4>1, <4>2 DEF TreeOf
    <3> QED
      BY <3>1, <3>2, <3>3
  <2>3. CASE end \in tree.nodes
    <3>1. PICK m \in M : end = m.path /\ tree.mount[end] = m
      BY <2>1, <2>3 DEF Stops, TreeOf
    <3>2. found.kind = "mount" /\ found.mount = m
          /\ found.rest = SubSeq(segs, first + 1, Len(segs))
      <4> HIDE DEF found, stops
      <4>1. found = [kind |-> "mount", mount |-> tree.mount[end],
                     rest |-> SubSeq(segs, first + 1, Len(segs))]
        BY <1>1, <1>4, <2>3
      <4> QED
        BY <3>1, <4>1
    <3>3. Len(m.path) = first /\ HasPrefix(segs, m.path)
      BY <2>1, <3>1, BeginningFacts, BeginningIsPrefix
    <3>4. ASSUME NEW k \in M, HasPrefix(segs, k.path) PROVE k = m
      BY <1>2, <3>3, <3>4, PrefixesCompare DEF PrefixFree
    <3> QED
      BY <3>2, <3>3, <3>4 DEF CutPrefix
  <2> QED
    BY <2>2, <2>3
<1> QED
  BY <1>3, <1>4

-----------------------------------------------------------------------------
(* newState.                                                                *)

\* The least number that has a property.
LEMMA Least ==
    ASSUME NEW S \in SUBSET Nat, S # {}
    PROVE  \E i \in S : \A j \in S : i <= j
BY FirstStop

\* A finite set as a sequence: every element is there, and once.
LEMMA Enumerates ==
    ASSUME NEW S, IsFiniteSet(S)
    PROVE  /\ SetToSeq(S) \in Seq(S)
           /\ Len(SetToSeq(S)) = Cardinality(S)
           /\ S = {SetToSeq(S)[i] : i \in 1..Len(SetToSeq(S))}
<1> DEFINE n == Cardinality(S)
           f == SetToSeq(S)
<1>1. n \in Nat /\ ExistsBijection(1..n, S)
  BY FS_CardinalityType
<1>2. PICK g : g \in Bijection(1..n, S)
  BY <1>1 DEF ExistsBijection
<1>3. g \in [1..n -> S] /\ IsInjective(g)
  BY <1>2 DEF Bijection, Injection
<1>4. f \in [1..n -> S] /\ IsInjective(f)
  BY <1>3 DEF SetToSeq
<1>5. f \in Injection(1..n, S)
  BY <1>4 DEF Injection
<1>6. f \in Surjection(1..n, S)
  BY <1>1, <1>5, FS_Injection, FS_Interval
<1>7. \A x \in S : \E i \in 1..n : f[i] = x
  BY <1>6 DEF Surjection
<1>8. f \in Seq(S) /\ Len(f) = n
  BY <1>1, <1>4, SeqDef
<1> QED  BY <1>4, <1>7, <1>8

\* The mounts of a user, inserted one after the other, make their tree.
LEMMA NewRootIsTree ==
    ASSUME NEW M, IsFiniteSet(M), Mounts(M), PrefixFree(M)
    PROVE  TreeOf(newRoot(M), M)
<1> DEFINE order == SetToSeq(M)
           n == Len(order)
           some(k) == {order[i] : i \in 1..k}
           Inserted(f, k) == f = [i \in 0..k |-> IF i = 0 THEN Root
                                               ELSE insert(f[i - 1], order[i])]
           tree == CHOOSE f : Inserted(f, n)
<1>1. n \in Nat /\ order \in Seq(M) /\ some(n) = M
  BY Enumerates, FS_CardinalityType
<1>2. newRoot(M) = tree[n]
  BY DEF newRoot
<1> HIDE DEF order, n, tree
<1>3. \A k \in 0..n : \E f : Inserted(f, k)
  <2> DEFINE missing == {k \in 0..n : ~ \E f : Inserted(f, k)}
  <2> SUFFICES ASSUME missing # {} PROVE FALSE
    OBVIOUS
  <2>1. missing \in SUBSET Nat
    BY <1>1
  <2>2. PICK k \in missing : \A j \in missing : k <= j
    <3> HIDE DEF missing
    <3> QED  BY <2>1, Least
  <2>3. k # 0
    <3>1. Inserted([i \in {0} |-> Root], 0)
      OBVIOUS
    <3> QED  BY <3>1
  <2>4. k - 1 \in 0..n /\ k - 1 \notin missing
    <3>1. k \in 0..n
      BY <2>2
    <3>2. k - 1 \in 0..n /\ ~(k <= k - 1)
      BY <1>1, <2>3, <3>1
    <3> HIDE DEF missing
    <3> QED  BY <2>2, <3>2
  <2>5. PICK f : Inserted(f, k - 1)
    BY <2>4
  <2> DEFINE g == [i \in 0..k |-> IF i < k THEN f[i] ELSE insert(f[k - 1], order[k])]
  <2>6. \A i \in 0..k : g[i] = IF i = 0 THEN Root ELSE insert(g[i - 1], order[i])
    <3>1. TAKE i \in 0..k
    <3>2. CASE i = k
      BY <1>1, <2>2, <2>3, <3>2
    <3>3. CASE i < k
      <4>1. i \in 0..(k - 1)
        BY <1>1, <2>2, <3>3
      <4>2. f[i] = IF i = 0 THEN Root ELSE insert(f[i - 1], order[i])
        BY <2>5, <4>1
      <4> QED  BY <1>1, <2>2, <3>3, <4>2
    <3> QED  BY <1>1, <2>2, <3>2, <3>3
  <2>7. Inserted(g, k)
    <3>1. g = [i \in 0..k |-> g[i]]
      OBVIOUS
    <3> HIDE DEF g
    <3> QED  BY <2>6, <3>1
  <2> QED  BY <2>2, <2>7
<1>4. Inserted(tree, n)
  <2>1. n \in 0..n
    BY <1>1
  <2>2. \E f : Inserted(f, n)
    BY <1>3, <2>1
  <2> HIDE DEF Inserted
  <2> QED  BY <2>2 DEF tree
<1>5. \A i \in 0..n : tree[i] = IF i = 0 THEN Root ELSE insert(tree[i - 1], order[i])
  BY <1>4
<1>6. \A k \in 0..n : TreeOf(tree[k], some(k))
  <2> DEFINE wrong == {k \in 0..n : ~TreeOf(tree[k], some(k))}
  <2> SUFFICES ASSUME wrong # {} PROVE FALSE
    OBVIOUS
  <2>1. wrong \in SUBSET Nat
    BY <1>1
  <2>2. PICK k \in wrong : \A j \in wrong : k <= j
    <3> HIDE DEF wrong
    <3> QED  BY <2>1, Least
  <2>3. k # 0
    <3>1. some(0) = {} /\ tree[0] = Root
      BY <1>1, <1>5
    <3> QED  BY <2>2, <3>1, RootIsEmpty
  <2>4. k - 1 \in 0..n /\ k - 1 \notin wrong /\ k \in 1..n
    <3>1. k \in 0..n
      BY <2>2
    <3>2. k - 1 \in 0..n /\ k \in 1..n /\ ~(k <= k - 1)
      BY <1>1, <2>3, <3>1
    <3> HIDE DEF wrong
    <3> QED  BY <2>2, <3>2
  <2>5. TreeOf(tree[k - 1], some(k - 1))
    BY <2>4
  <2>6. some(k) = some(k - 1) \cup {order[k]} /\ some(k) \subseteq M
    BY <1>1, <2>4
  <2>7. Mounts(some(k)) /\ PrefixFree(some(k))
    BY <2>6 DEF Mounts, PrefixFree
  <2>8. tree[k] = insert(tree[k - 1], order[k])
    BY <1>5, <2>2, <2>3
  <2> HIDE DEF some
  <2>9. TreeOf(tree[k], some(k))
    BY <2>5, <2>6, <2>7, <2>8, InsertAdds
  <2> QED  BY <2>2, <2>9
<1>7. n \in 0..n
  BY <1>1
<1> QED  BY <1>1, <1>2, <1>6, <1>7

-----------------------------------------------------------------------------
(* Texts and segments.                                                      *)

LEMMA UnescapeType ==
    ASSUME NEW s \in Segment
    PROVE  PathUnescape(s) \in Segment /\ Len(PathUnescape(s)) = Len(s)
<1>1. Len(s) \in Nat /\ DOMAIN s = 1..Len(s) /\ \A i \in 1..Len(s) : s[i] \in Character
  BY DEF Segment
<1>2. \A i \in 1..Len(s) :
         [s[i] EXCEPT !.n = IF @ = 0 THEN 0 ELSE @ - 1] \in Character
  BY <1>1 DEF Character
<1>3. PathUnescape(s) \in [1..Len(s) -> Character]
  BY <1>1, <1>2 DEF PathUnescape
<1> HIDE DEF PathUnescape
<1> QED  BY <1>1, <1>3, SeqDef DEF Segment

\* What Encode makes of a segment.
Escaped(s) ==
    [k \in DOMAIN s |-> [s[k] EXCEPT !.n = IF isUnreserved(s[k]) THEN 0 ELSE @ + 1]]

\* What is escaped once and decoded once is what it was.
LEMMA EscapedDecodes ==
    ASSUME NEW s \in Segment
    PROVE  /\ Escaped(s) \in Segment
           /\ ~BadEscape(Escaped(s))
           /\ PathUnescape(Escaped(s)) = s
           /\ Escaped(s) = <<>> <=> s = <<>>
<1> DEFINE e == Escaped(s)
<1>1. Len(s) \in Nat /\ DOMAIN s = 1..Len(s) /\ \A i \in 1..Len(s) : s[i] \in Character
  BY DEF Segment
<1>2. e \in [1..Len(s) -> Character] /\ \A i \in 1..Len(s) :
         /\ e[i].c = s[i].c
         /\ e[i].n = IF isUnreserved(s[i]) THEN 0 ELSE s[i].n + 1
  BY <1>1 DEF Escaped, Character
<1>3. e \in Segment /\ Len(e) = Len(s)
  BY <1>1, <1>2, SeqDef DEF Segment
<1>4. \A i \in 1..Len(s) : isUnreserved(s[i]) => s[i].n = 0 /\ s[i].c # "%"
  BY DEF isUnreserved
<1> HIDE DEF e
<1>5. ~BadEscape(e)
  <2> SUFFICES ASSUME NEW i \in 1..Len(s), e[i] = [c |-> "%", n |-> 0] PROVE FALSE
    BY <1>2 DEF BadEscape
  <2>1. e[i].c = "%" /\ e[i].n = 0
    BY <1>2
  <2>2. s[i].n \in Nat
    BY <1>1 DEF Character
  <2> QED  BY <1>2, <1>4, <2>1, <2>2
<1>6. PathUnescape(e) = s
  <2> DEFINE d == PathUnescape(e)
  <2>1. d \in Segment /\ Len(d) = Len(s)
    BY <1>3, UnescapeType
  <2>2. \A i \in 1..Len(s) : d[i] = [e[i] EXCEPT !.n = IF @ = 0 THEN 0 ELSE @ - 1]
    BY <1>2 DEF PathUnescape
  <2>3. ASSUME NEW i \in 1..Len(s) PROVE d[i] = s[i]
    <3>1. e[i] \in Character /\ s[i] \in Character
      BY <1>1, <1>2
    <3>2. d[i].c = s[i].c
      BY <1>2, <2>2, <3>1 DEF Character
    <3>3. d[i].n = s[i].n
      <4>1. d[i].n = IF e[i].n = 0 THEN 0 ELSE e[i].n - 1
        BY <2>2, <3>1 DEF Character
      <4>2. s[i].n \in Nat
        BY <3>1 DEF Character
      <4>3. e[i].n = IF isUnreserved(s[i]) THEN 0 ELSE s[i].n + 1
        BY <1>2
      <4>4. isUnreserved(s[i]) => s[i].n = 0
        BY <1>4
      <4> HIDE DEF d
      <4> QED  BY <4>1, <4>2, <4>3, <4>4
    <3>4. d[i] \in Character
      BY <1>1, <2>1 DEF Segment
    <3> QED  BY <3>1, <3>2, <3>3, <3>4 DEF Character
  <2> HIDE DEF d
  <2>4. d \in Seq(Character) /\ s \in Seq(Character) /\ Len(d) = Len(s)
    BY <2>1 DEF Segment
  <2>5. d = s
    BY <2>3, <2>4, SeqEqual
  <2> QED  BY <2>5 DEF d
<1>7. e = <<>> <=> s = <<>>
  BY <1>1, <1>3 DEF Segment
<1> QED  BY <1>3, <1>5, <1>6, <1>7 DEF e

LEMMA EncodeFacts ==
    ASSUME NEW segs \in Seq(Segment), NEW dir \in BOOLEAN
    PROVE  LET path == Encode(segs, dir)
           IN  /\ path \in Seq(Segment)
               /\ Len(path) = Len(segs) + (IF dir \/ segs = <<>> THEN 1 ELSE 0)
               /\ \A i \in 1..Len(segs) : path[i] = Escaped(segs[i])
               /\ \A i \in 1..Len(path) : i > Len(segs) => path[i] = <<>>
<1> DEFINE body == [i \in DOMAIN segs |-> Escaped(segs[i])]
           tail == IF dir \/ segs = <<>> THEN <<<<>>>> ELSE <<>>
<1>1. Encode(segs, dir) = body \o tail
  BY DEF Encode, Escaped
<1>2. Len(segs) \in Nat /\ DOMAIN segs = 1..Len(segs) /\ \A i \in 1..Len(segs) : segs[i] \in Segment
  OBVIOUS
<1>3. \A i \in 1..Len(segs) : Escaped(segs[i]) \in Segment
  BY <1>2, EscapedDecodes
<1>4. body \in [1..Len(segs) -> Segment] /\ \A i \in 1..Len(segs) : body[i] = Escaped(segs[i])
  BY <1>2, <1>3
<1> HIDE DEF body
<1>5. body \in Seq(Segment) /\ Len(body) = Len(segs)
  BY <1>2, <1>4, SeqDef
<1>6. <<>> \in Segment
  BY DEF Segment
<1>7. /\ tail \in Seq(Segment) /\ Len(tail) = (IF dir \/ segs = <<>> THEN 1 ELSE 0)
      /\ \A i \in 1..Len(tail) : tail[i] = <<>>
  BY <1>6
<1> HIDE DEF tail
<1>8. /\ body \o tail \in Seq(Segment) /\ Len(body \o tail) = Len(body) + Len(tail)
      /\ \A i \in 1..(Len(body) + Len(tail)) :
            (body \o tail)[i] = IF i <= Len(body) THEN body[i] ELSE tail[i - Len(body)]
  BY <1>5, <1>7, ConcatProperties
<1>9. \A i \in 1..Len(segs) : (body \o tail)[i] = Escaped(segs[i])
  BY <1>4, <1>5, <1>7, <1>8
<1>10. ASSUME NEW i \in 1..Len(body \o tail), i > Len(segs) PROVE (body \o tail)[i] = <<>>
  <2>1. i - Len(body) \in 1..Len(tail)
    BY <1>5, <1>7, <1>8, <1>10
  <2> QED  BY <1>5, <1>7, <1>8, <1>10, <2>1
<1> QED  BY <1>1, <1>5, <1>7, <1>8, <1>9, <1>10

-----------------------------------------------------------------------------
(* Where a path leads.                                                      *)

LEMMA DotSegments == dot # <<>> /\ dotdot # <<>> /\ dotdot # dot
<1>1. dot = <<[c |-> ".", n |-> 0]>> /\ Len(dot) = 1
  BY DEF dot
<1>2. dot \in Seq({dot[1]})
  BY <1>1
<1>3. Len(dotdot) = 2
  BY <1>1, <1>2, ConcatProperties DEF dotdot
<1>4. Len(<<>>) = 0 /\ Len(dot) = 1
  BY <1>1
<1>5. ~(1 = 0) /\ ~(2 = 0) /\ ~(2 = 1)
  OBVIOUS
<1> QED  BY <1>3, <1>4, <1>5, Zenon

LEMMA NameFacts ==
    ASSUME NEW s \in Seq(Name)
    PROVE  s \in Seq(Segment) /\ \A i \in 1..Len(s) : s[i] \in Segment \ {<<>>, dot, dotdot}
<1>1. Name \subseteq Segment
  BY DEF Name
<1>2. s \in Seq(Segment)
  BY <1>1, SeqMonotonic
<1> QED  BY <1>2 DEF Name

\* The beginnings of a sequence of names.
LEMMA NamesBeginning ==
    ASSUME NEW s \in Seq(Name), NEW k \in 0..Len(s)
    PROVE  /\ SubSeq(s, 1, k) \in Seq(Name)
           /\ Len(SubSeq(s, 1, k)) = k
           /\ \A i \in 1..k : SubSeq(s, 1, k)[i] = s[i]
<1>1. Len(s) \in Nat /\ k \in Int /\ \A i \in 1..k : s[i] \in Name
  OBVIOUS
<1>2. CASE k = 0
  BY <1>1, <1>2, SubSeqEmpty, EmptySeq
<1>3. CASE k # 0
  BY <1>1, <1>3, SubSeqProperties
<1> QED  BY <1>2, <1>3

\* Down by one name, and up again.
LEMMA DescendByOne ==
    ASSUME NEW s \in Seq(Name), NEW k \in 1..Len(s)
    PROVE  /\ Descend(SubSeq(s, 1, k - 1), s[k]) = SubSeq(s, 1, k)
           /\ Descend(SubSeq(s, 1, k), dotdot) = SubSeq(s, 1, k - 1)
<1> DEFINE above == SubSeq(s, 1, k - 1)
           below == SubSeq(s, 1, k)
<1>1. Len(s) \in Nat /\ k \in 0..Len(s) /\ k - 1 \in 0..Len(s) /\ k \in Nat /\ k # 0
  OBVIOUS
<1>2. /\ above \in Seq(Name) /\ Len(above) = k - 1 /\ \A i \in 1..(k - 1) : above[i] = s[i]
      /\ below \in Seq(Name) /\ Len(below) = k /\ \A i \in 1..k : below[i] = s[i]
  BY <1>1, NamesBeginning
<1> HIDE DEF above, below
<1>3. s[k] \in Name /\ s[k] \notin {<<>>, dot, dotdot}
  BY NameFacts DEF Name
<1>4. Append(above, s[k]) = below
  <2>1. /\ Append(above, s[k]) \in Seq(Name) /\ Len(Append(above, s[k])) = k
        /\ \A i \in 1..k : Append(above, s[k])[i] = s[i]
    BY <1>1, <1>2, <1>3, AppendProperties
  <2> QED  BY <1>2, <2>1, SeqEqual
<1>5. DropLast(below) = above
  <2>1. \A i \in 1..(k - 1) : below[i] \in Name
    BY <1>1, <1>2
  <2>2. /\ SubSeq(below, 1, k - 1) \in Seq(Name)
        /\ Len(SubSeq(below, 1, k - 1)) = IF 1 <= k - 1 THEN (k - 1) - 1 + 1 ELSE 0
        /\ \A i \in 1..((k - 1) - 1 + 1) : SubSeq(below, 1, k - 1)[i] = below[1 + i - 1]
    BY <1>1, <2>1, SubSeqProperties
  <2>3. /\ Len(SubSeq(below, 1, k - 1)) = k - 1
        /\ \A i \in 1..(k - 1) : SubSeq(below, 1, k - 1)[i] = below[i]
    BY <1>1, <2>2
  <2>4. SubSeq(below, 1, k - 1) = above
    BY <1>2, <2>2, <2>3, SeqEqual
  <2> QED  BY <1>2, <2>4 DEF DropLast
<1>6. Descend(above, s[k]) = below
  BY <1>3, <1>4 DEF Descend
<1>7. Descend(below, dotdot) = above
  BY <1>1, <1>2, <1>5, DotSegments DEF Descend
<1> QED  BY <1>6, <1>7 DEF above, below

LEMMA DescendType ==
    ASSUME NEW segs \in Seq(Name), NEW seg \in Segment
    PROVE  Descend(segs, seg) \in Seq(Name)
<1>1. CASE seg \notin {<<>>, dot, dotdot}
  <2>1. seg \in Name
    BY <1>1 DEF Name
  <2> QED  BY <1>1, <2>1 DEF Descend
<1>2. CASE seg = dotdot
  <2>1. CASE segs # <<>>
    <3>1. Len(segs) \in Nat /\ Len(segs) - 1 \in 0..Len(segs)
      BY <2>1
    <3>2. DropLast(segs) \in Seq(Name)
      BY <3>1, NamesBeginning DEF DropLast
    <3> QED  BY <1>2, <2>1, <3>2, DotSegments DEF Descend
  <2> QED  BY <1>2, <2>1, DotSegments DEF Descend
<1> QED  BY <1>1, <1>2 DEF Descend

\* Parse goes through a path from its first segment to its last.
LEMMA ResolvedSteps ==
    ASSUME NEW path \in Seq(Segment)
    PROVE  \E f \in [0..Len(path) -> Seq(Name)] :
              /\ f[0] = <<>>
              /\ \A i \in 1..Len(path) : f[i] = Descend(f[i - 1], path[i])
              /\ Resolved(path) = f[Len(path)]
<1> DEFINE n == Len(path)
           Stepped(f, k) == f = [i \in 0..k |-> IF i = 0 THEN <<>>
                                              ELSE Descend(f[i - 1], path[i])]
           steps == CHOOSE f : Stepped(f, n)
<1>1. n \in Nat /\ n \in 0..n /\ \A i \in 1..n : path[i] \in Segment
  OBVIOUS
<1>2. Resolved(path) = steps[n]
  BY DEF Resolved
<1> HIDE DEF n, steps
<1>3. \A k \in 0..n : \E f : Stepped(f, k)
  <2> DEFINE missing == {k \in 0..n : ~ \E f : Stepped(f, k)}
  <2> SUFFICES ASSUME missing # {} PROVE FALSE
    OBVIOUS
  <2>1. missing \in SUBSET Nat
    BY <1>1
  <2>2. PICK k \in missing : \A j \in missing : k <= j
    <3> HIDE DEF missing
    <3> QED  BY <2>1, Least
  <2>3. k # 0
    <3>1. Stepped([i \in {0} |-> <<>>], 0)
      OBVIOUS
    <3> QED  BY <3>1
  <2>4. k - 1 \in 0..n /\ k - 1 \notin missing
    <3>1. k \in 0..n
      BY <2>2
    <3>2. k - 1 \in 0..n /\ ~(k <= k - 1)
      BY <1>1, <2>3, <3>1
    <3> HIDE DEF missing
    <3> QED  BY <2>2, <3>2
  <2>5. PICK f : Stepped(f, k - 1)
    BY <2>4
  <2> DEFINE g == [i \in 0..k |-> IF i < k THEN f[i] ELSE Descend(f[k - 1], path[k])]
  <2>6. \A i \in 0..k : g[i] = IF i = 0 THEN <<>> ELSE Descend(g[i - 1], path[i])
    <3>1. TAKE i \in 0..k
    <3>2. CASE i = k
      BY <1>1, <2>2, <2>3, <3>2
    <3>3. CASE i < k
      <4>1. i \in 0..(k - 1)
        BY <1>1, <2>2, <3>3
      <4>2. f[i] = IF i = 0 THEN <<>> ELSE Descend(f[i - 1], path[i])
        BY <2>5, <4>1
      <4> QED  BY <1>1, <2>2, <3>3, <4>2
    <3> QED  BY <1>1, <2>2, <3>2, <3>3
  <2>7. Stepped(g, k)
    <3>1. g = [i \in 0..k |-> g[i]]
      OBVIOUS
    <3> HIDE DEF g
    <3> QED  BY <2>6, <3>1
  <2> QED  BY <2>2, <2>7
<1>4. Stepped(steps, n)
  <2>1. \E f : Stepped(f, n)
    BY <1>1, <1>3
  <2> HIDE DEF Stepped
  <2> QED  BY <2>1 DEF steps
<1>5. \A i \in 0..n : steps[i] = IF i = 0 THEN <<>> ELSE Descend(steps[i - 1], path[i])
  BY <1>4
<1>6. \A k \in 0..n : steps[k] \in Seq(Name)
  <2> DEFINE wrong == {k \in 0..n : steps[k] \notin Seq(Name)}
  <2> SUFFICES ASSUME wrong # {} PROVE FALSE
    OBVIOUS
  <2>1. wrong \in SUBSET Nat
    BY <1>1
  <2>2. PICK k \in wrong : \A j \in wrong : k <= j
    <3> HIDE DEF wrong
    <3> QED  BY <2>1, Least
  <2>3. k # 0
    <3>1. steps[0] = <<>>
      BY <1>1, <1>5
    <3>2. steps[0] \in Seq(Name)
      BY <3>1
    <3> QED  BY <2>2, <3>2
  <2>4. k - 1 \in 0..n /\ k - 1 \notin wrong /\ k \in 1..n
    <3>1. k \in 0..n
      BY <2>2
    <3>2. k - 1 \in 0..n /\ k \in 1..n /\ ~(k <= k - 1)
      BY <1>1, <2>3, <3>1
    <3> HIDE DEF wrong
    <3> QED  BY <2>2, <3>2
  <2>5. steps[k - 1] \in Seq(Name) /\ path[k] \in Segment
    BY <1>1, <2>4
  <2>6. steps[k] = Descend(steps[k - 1], path[k])
    BY <1>5, <2>2, <2>3
  <2>7. steps[k] \in Seq(Name)
    BY <2>5, <2>6, DescendType
  <2> QED  BY <2>2, <2>7
<1>7. steps \in [0..n -> Seq(Name)] /\ steps[0] = <<>>
  <2>1. steps = [i \in 0..n |-> steps[i]]
    BY <1>4
  <2>2. steps \in [0..n -> Seq(Name)]
    BY <1>6, <2>1
  <2>3. steps[0] = <<>>
    BY <1>1, <1>5
  <2> QED  BY <2>2, <2>3
<1>8. \A i \in 1..n : steps[i] = Descend(steps[i - 1], path[i])
  BY <1>1, <1>5
<1> QED  BY <1>2, <1>7, <1>8 DEF n

LEMMA ResolvedType ==
    ASSUME NEW path \in Seq(Segment)
    PROVE  Resolved(path) \in Seq(Name)
<1>1. Len(path) \in 0..Len(path)
  OBVIOUS
<1> QED  BY <1>1, ResolvedSteps

\* It comes to what it goes through.
LEMMA ResolvedIn ==
    ASSUME NEW path \in Seq(Segment), NEW S \in SUBSET Name,
           \A i \in 1..Len(path) : path[i] \in S \cup {<<>>, dot, dotdot}
    PROVE  Resolved(path) \in Seq(S)
<1> DEFINE n == Len(path)
<1>1. n \in Nat /\ n \in 0..n
  OBVIOUS
<1>2. PICK f \in [0..n -> Seq(Name)] :
         /\ f[0] = <<>>
         /\ \A i \in 1..n : f[i] = Descend(f[i - 1], path[i])
         /\ Resolved(path) = f[n]
  BY ResolvedSteps
<1>3. ASSUME NEW segs \in Seq(S), NEW seg \in S \cup {<<>>, dot, dotdot}
      PROVE  Descend(segs, seg) \in Seq(S)
  <2>1. CASE seg \in S
    <3>1. seg \notin {<<>>, dot, dotdot}
      BY <2>1 DEF Name
    <3> QED  BY <2>1, <3>1 DEF Descend
  <2>2. CASE seg = dotdot
    <3>1. CASE segs # <<>>
      <4>1. Len(segs) \in Nat /\ Len(segs) # 0 /\ 1 \in Int /\ Len(segs) - 1 \in Int
            /\ \A i \in 1..(Len(segs) - 1) : segs[i] \in S
        BY <3>1
      <4>2. SubSeq(segs, 1, Len(segs) - 1) \in Seq(S)
        BY <4>1, SubSeqProperties
      <4> QED  BY <2>2, <3>1, <4>2, DotSegments DEF Descend, DropLast
    <3> QED  BY <2>2, <3>1, DotSegments DEF Descend
  <2> QED  BY <2>1, <2>2 DEF Descend
<1>4. \A k \in 0..n : f[k] \in Seq(S)
  <2> DEFINE wrong == {k \in 0..n : f[k] \notin Seq(S)}
  <2> SUFFICES ASSUME wrong # {} PROVE FALSE
    OBVIOUS
  <2>1. wrong \in SUBSET Nat
    BY <1>1
  <2>2. PICK k \in wrong : \A j \in wrong : k <= j
    <3> HIDE DEF wrong
    <3> QED  BY <2>1, Least
  <2>3. k # 0
    <3>1. f[0] \in Seq(S)
      BY <1>2
    <3> QED  BY <2>2, <3>1
  <2>4. k - 1 \in 0..n /\ k - 1 \notin wrong /\ k \in 1..n
    <3>1. k \in 0..n
      BY <2>2
    <3>2. k - 1 \in 0..n /\ k \in 1..n /\ ~(k <= k - 1)
      BY <1>1, <2>3, <3>1
    <3> HIDE DEF wrong
    <3> QED  BY <2>2, <3>2
  <2>5. f[k - 1] \in Seq(S)
    BY <2>4
  <2>6. f[k] = Descend(f[k - 1], path[k])
    BY <1>2, <2>4
  <2>7. f[k] \in Seq(S)
    BY <1>3, <2>4, <2>5, <2>6
  <2> QED  BY <2>2, <2>7
<1> QED  BY <1>1, <1>2, <1>4

\* A path down to a place, up from there to what it has in common with another
\* place, and down to that; what follows does not lead anywhere.
Course(path, d, r, n, b, c) ==
    /\ n \in 0..Len(r) /\ n <= Len(d)
    /\ b = Len(d) + (Len(d) - n)
    /\ c = b + (Len(r) - n) /\ c <= Len(path)
    /\ \A i \in 1..n : d[i] = r[i]
    /\ \A i \in 1..Len(d) : path[i] = d[i]
    /\ \A i \in (Len(d) + 1)..b : path[i] = dotdot
    /\ \A i \in (b + 1)..c : path[i] = r[n + (i - b)]
    /\ \A i \in (c + 1)..Len(path) : path[i] \in {<<>>, dot}

LEMMA ResolvesTo ==
    ASSUME NEW path \in Seq(Segment), NEW d \in Seq(Name), NEW r \in Seq(Name),
           NEW n, NEW b, NEW c, Course(path, d, r, n, b, c)
    PROVE  Resolved(path) = r
<1> DEFINE a == Len(d)
           m == Len(path)
           at(i) == IF i <= a THEN SubSeq(d, 1, i)
                    ELSE IF i <= b THEN SubSeq(d, 1, a - (i - a))
                    ELSE IF i <= c THEN SubSeq(r, 1, n + (i - b))
                    ELSE r
<1>0. a = Len(d) /\ m = Len(path) /\ n \in 0..Len(r)
  BY DEF Course
<1>a. a \in Nat /\ m \in Nat /\ n \in Nat /\ Len(r) \in Nat
  BY <1>0
<1>b. b = a + (a - n) /\ n <= a /\ b \in Nat
  BY <1>a DEF Course
<1>c. c = b + (Len(r) - n) /\ c <= m /\ Len(r) \in Nat /\ n <= Len(r) /\ c \in Nat
  BY <1>0, <1>a, <1>b DEF Course
<1>1. a \in Nat /\ m \in Nat /\ n \in Nat /\ b \in Nat /\ c \in Nat
  BY <1>a, <1>b, <1>c
<1> HIDE DEF a, m
<1>o. a <= b /\ b <= c
  BY <1>a, <1>b, <1>c
<1>2. PICK f \in [0..m -> Seq(Name)] :
         /\ f[0] = <<>>
         /\ \A i \in 1..m : f[i] = Descend(f[i - 1], path[i])
         /\ Resolved(path) = f[m]
  BY ResolvedSteps DEF m
<1>3. SubSeq(d, 1, n) = SubSeq(r, 1, n)
  <2>1. /\ SubSeq(d, 1, n) \in Seq(Name) /\ Len(SubSeq(d, 1, n)) = n
        /\ \A i \in 1..n : SubSeq(d, 1, n)[i] = d[i]
    <3>1. n \in 0..Len(d)
      BY <1>0, <1>1
    <3> QED  BY <3>1, NamesBeginning
  <2>2. /\ SubSeq(r, 1, n) \in Seq(Name) /\ Len(SubSeq(r, 1, n)) = n
        /\ \A i \in 1..n : SubSeq(r, 1, n)[i] = r[i]
    BY <1>0, NamesBeginning
  <2>3. \A i \in 1..n : d[i] = r[i]
    BY DEF Course
  <2> QED  BY <2>1, <2>2, <2>3, SeqEqual
<1>4. SubSeq(r, 1, Len(r)) = r
  BY SubSeqFull
<1>5. at(a) = SubSeq(d, 1, a) /\ at(b) = SubSeq(r, 1, n) /\ at(c) = r
  <2>1. at(a) = SubSeq(d, 1, a)
    BY <1>1
  <2>2. at(b) = SubSeq(d, 1, n)
    <3>1. a - (b - a) = n
      BY <1>1, <1>b
    <3>2. b <= a => b = a /\ a = n
      BY <1>1, <1>b, <1>o
    <3>3. CASE b <= a
      BY <3>2, <3>3
    <3>4. CASE ~(b <= a)
      BY <1>1, <3>1, <3>4
    <3> QED  BY <3>3, <3>4
  <2>3. at(c) = r
    <3>1. CASE c <= b
      <4>0. c = b
        BY <1>1, <1>o, <3>1
      <4>1. c = b /\ n = Len(r)
        <5>1. c = b + (Len(r) - n)
          BY <1>c
        <5>2. b \in Nat /\ n \in Nat /\ Len(r) \in Nat
          BY <1>a, <1>b
        <5> QED  BY <4>0, <5>1, <5>2
      <4> QED  BY <1>3, <1>4, <2>2, <4>1
    <3>2. CASE ~(c <= b)
      <4>1. n + (c - b) = Len(r) /\ ~(c <= a)
        BY <1>1, <1>c, <1>o, <3>2
      <4> QED  BY <1>1, <1>4, <3>2, <4>1
    <3> QED  BY <3>1, <3>2
  <2> QED  BY <1>3, <2>1, <2>2, <2>3
<1>6. ASSUME NEW i \in 1..m PROVE at(i) = Descend(at(i - 1), path[i])
  <2>0. i \in Nat /\ i >= 1 /\ i <= m /\ i - 1 \in Nat
    BY <1>1
  <2>1. CASE i <= a
    <3>1. i \in 1..Len(d) /\ path[i] = d[i]
      BY <1>0, <1>1, <2>0, <2>1 DEF Course
    <3>2. at(i) = SubSeq(d, 1, i) /\ at(i - 1) = SubSeq(d, 1, i - 1)
      BY <1>1, <2>0, <2>1
    <3> HIDE DEF at
    <3> QED  BY <3>1, <3>2, DescendByOne
  <2>2. CASE a < i /\ i <= b
    <3> DEFINE k == a - (i - 1 - a)
    <3>0. path[i] = dotdot
      BY <1>0, <1>1, <2>0, <2>2 DEF Course
    <3>1. k \in 1..Len(d) /\ k - 1 = a - (i - a)
      BY <1>0, <1>1, <1>b, <2>0, <2>2
    <3>2. at(i) = SubSeq(d, 1, a - (i - a))
      BY <1>1, <2>0, <2>2
    <3>3. at(i - 1) = SubSeq(d, 1, k)
      <4>1. CASE i - 1 = a
        <5>1. k = a
          BY <1>1, <2>0, <4>1
        <5> QED  BY <1>5, <4>1, <5>1
      <4>2. CASE i - 1 # a
        <5>1. ~(i - 1 <= a) /\ i - 1 <= b
          BY <1>1, <2>0, <2>2, <4>2
        <5> QED  BY <5>1
      <4> QED  BY <4>1, <4>2
    <3> HIDE DEF at, k
    <3>4. Descend(SubSeq(d, 1, k), dotdot) = SubSeq(d, 1, k - 1)
      BY <3>1, DescendByOne
    <3> QED  BY <3>0, <3>1, <3>2, <3>3, <3>4
  <2>3. CASE b < i /\ i <= c
    <3> DEFINE k == n + (i - b)
    <3>0. path[i] = r[k]
      BY <1>1, <2>0, <2>3 DEF Course
    <3>1. k \in 1..Len(r) /\ k - 1 = n + (i - 1 - b)
      BY <1>1, <1>c, <2>0, <2>3
    <3>2. at(i) = SubSeq(r, 1, k)
      <4>1. ~(i <= a) /\ ~(i <= b)
        BY <1>1, <1>o, <2>0, <2>3
      <4> QED  BY <2>3, <4>1
    <3>3. at(i - 1) = SubSeq(r, 1, k - 1)
      <4>1. CASE i - 1 = b
        <5>1. k - 1 = n
          BY <1>1, <2>0, <4>1
        <5> QED  BY <1>5, <4>1, <5>1
      <4>2. CASE i - 1 # b
        <5>1. ~(i - 1 <= b) /\ i - 1 <= c
          BY <1>1, <2>0, <2>3, <4>2
        <5>2. ~(i - 1 <= a)
          BY <1>1, <1>o, <2>0, <5>1
        <5> QED  BY <3>1, <5>1, <5>2
      <4> QED  BY <4>1, <4>2
    <3> HIDE DEF at, k
    <3>4. Descend(SubSeq(r, 1, k - 1), r[k]) = SubSeq(r, 1, k)
      BY <3>1, DescendByOne
    <3> QED  BY <3>0, <3>1, <3>2, <3>3, <3>4
  <2>4. CASE c < i
    <3>1. path[i] \in {<<>>, dot}
      BY <1>0, <1>1, <2>0, <2>4 DEF Course
    <3>2. at(i) = r
      <4>1. ~(i <= a) /\ ~(i <= b) /\ ~(i <= c)
        BY <1>1, <1>o, <2>0, <2>4
      <4> QED  BY <4>1
    <3>3. at(i - 1) = r
      <4>1. CASE i - 1 = c
        BY <1>5, <4>1
      <4>2. CASE i - 1 # c
        <5>1. ~(i - 1 <= c)
          BY <1>1, <2>0, <2>4, <4>2
        <5>2. ~(i - 1 <= a) /\ ~(i - 1 <= b)
          BY <1>1, <1>o, <2>0, <5>1
        <5> QED  BY <5>1, <5>2
      <4> QED  BY <4>1, <4>2
    <3> HIDE DEF at
    <3> QED  BY <3>1, <3>2, <3>3 DEF Descend
  <2> HIDE DEF at
  <2> QED  BY <1>1, <2>0, <2>1, <2>2, <2>3, <2>4
<1>7. at(0) = <<>>
  BY <1>1, SubSeqEmpty
<1>8. at(m) = r
  <2>1. CASE m = c
    BY <1>5, <2>1
  <2>2. CASE m # c
    <3>0. c <= m
      BY <1>c
    <3>1. ~(m <= c) /\ ~(m <= b) /\ ~(m <= a)
      BY <1>1, <1>o, <2>2, <3>0
    <3> QED  BY <3>1
  <2> QED  BY <2>1, <2>2
<1> HIDE DEF at
<1>9. \A k \in 0..m : f[k] = at(k)
  <2> DEFINE wrong == {k \in 0..m : f[k] # at(k)}
  <2> SUFFICES ASSUME wrong # {} PROVE FALSE
    OBVIOUS
  <2>1. wrong \in SUBSET Nat
    BY <1>1
  <2>2. PICK k \in wrong : \A j \in wrong : k <= j
    <3> HIDE DEF wrong
    <3> QED  BY <2>1, Least
  <2>3. k # 0
    BY <1>2, <1>7, <2>2
  <2>4. k - 1 \in 0..m /\ k - 1 \notin wrong /\ k \in 1..m
    <3>1. k \in 0..m
      BY <2>2
    <3>2. k - 1 \in 0..m /\ k \in 1..m /\ ~(k <= k - 1)
      BY <1>1, <2>3, <3>1
    <3> HIDE DEF wrong
    <3> QED  BY <2>2, <3>2
  <2>5. f[k - 1] = at(k - 1)
    BY <2>4
  <2>6. f[k] = at(k)
    BY <1>2, <1>6, <2>4, <2>5
  <2> QED  BY <2>2, <2>6
<1>10. m \in 0..m
  BY <1>1
<1> QED  BY <1>2, <1>8, <1>9, <1>10

\* Names lead to themselves.
LEMMA NamesResolve ==
    ASSUME NEW path \in Seq(Segment), NEW r \in Seq(Name), Len(r) <= Len(path),
           \A i \in 1..Len(r) : path[i] = r[i],
           \A i \in 1..Len(path) : i > Len(r) => path[i] \in {<<>>, dot}
    PROVE  Resolved(path) = r
<1>1. Len(path) \in Nat /\ Len(r) \in Nat /\ <<>> \in Seq(Name) /\ Len(<<>>) = 0
  OBVIOUS
<1>2. Course(path, <<>>, r, 0, 0, Len(r))
  BY <1>1 DEF Course
<1> QED  BY <1>1, <1>2, ResolvesTo

LEMMA ParseType ==
    ASSUME NEW path \in Seq(Segment)
    PROVE  /\ Parse(path).ok \in BOOLEAN
           /\ Parse(path).ok => Parse(path).segs \in Seq(Name) /\ Parse(path).dir \in BOOLEAN
<1> DEFINE decoded == [i \in DOMAIN path |-> PathUnescape(path[i])]
<1>1. decoded \in Seq(Segment)
  <2>1. Len(path) \in Nat /\ DOMAIN path = 1..Len(path) /\ \A i \in 1..Len(path) : path[i] \in Segment
    OBVIOUS
  <2>2. decoded \in [1..Len(path) -> Segment]
    BY <2>1, UnescapeType
  <2> HIDE DEF decoded
  <2> QED  BY <2>1, <2>2, SeqDef
<1>2. Parse(path) = NotOK \/ Parse(path) = ParsedPath(decoded)
  BY DEF Parse
<1>3. Resolved(decoded) \in Seq(Name)
  BY <1>1, ResolvedType
<1> HIDE DEF decoded
<1>4. (IsDir(decoded) \/ Last(decoded) \in {dot, dotdot}) \in BOOLEAN
  OBVIOUS
<1>5. CASE Parse(path) = NotOK
  BY <1>5 DEF NotOK
<1>6. CASE Parse(path) = ParsedPath(decoded)
  <2>1. Parse(path).ok = TRUE /\ Parse(path).segs = Resolved(decoded)
    BY <1>6 DEF ParsedPath
  <2>2. Parse(path).dir = (IsDir(decoded) \/ Last(decoded) \in {dot, dotdot})
    BY <1>6 DEF ParsedPath
  <2> QED  BY <1>3, <1>4, <2>1, <2>2
<1> QED  BY <1>2, <1>5, <1>6

SafeNames(segs) == \A i \in 1..Len(segs) : checkComponent(segs[i])

\* Parse lets nothing unsafe through.
LEMMA ParseSafe ==
    ASSUME NEW path \in Seq(Segment), Parse(path).ok
    PROVE  SafeNames(Parse(path).segs)
<1> DEFINE decoded == [i \in DOMAIN path |-> PathUnescape(path[i])]
           S == {seg \in Name : checkComponent(seg)}
<1>1. Len(path) \in Nat /\ DOMAIN path = 1..Len(path) /\ \A i \in 1..Len(path) : path[i] \in Segment
  OBVIOUS
<1>2. \A i \in 1..Len(path) :
         PathUnescape(path[i]) \in {<<>>, dot, dotdot} \/ checkComponent(PathUnescape(path[i]))
  BY <1>1 DEF Parse, NotOK
<1>3. Parse(path) = ParsedPath(decoded)
  BY DEF Parse, NotOK
<1>4. \A i \in 1..Len(path) : PathUnescape(path[i]) \in S \cup {<<>>, dot, dotdot}
  <2> TAKE i \in 1..Len(path)
  <2>1. PathUnescape(path[i]) \in Segment
    BY <1>1, UnescapeType
  <2> QED  BY <1>2, <2>1 DEF Name
<1>5. decoded \in [1..Len(path) -> Segment]
  BY <1>1, UnescapeType
<1>6. \A i \in 1..Len(path) : decoded[i] = PathUnescape(path[i])
  BY <1>1
<1> HIDE DEF decoded
<1>7. decoded \in Seq(Segment) /\ Len(decoded) = Len(path)
  BY <1>1, <1>5, SeqDef
<1>8. S \in SUBSET Name
  OBVIOUS
<1>9. Resolved(decoded) \in Seq(S)
  <2> HIDE DEF S
  <2> QED  BY <1>4, <1>6, <1>7, <1>8, ResolvedIn
<1>10. Parse(path).segs = Resolved(decoded)
  BY <1>3 DEF ParsedPath
<1>11. \A i \in 1..Len(Resolved(decoded)) : Resolved(decoded)[i] \in S
  BY <1>9
<1> QED  BY <1>10, <1>11 DEF SafeNames

(* Parse takes back what Encode wrote, whatever the names: it refuses a     *)
(* path if and only if a segment is unsafe, and else finds the same         *)
(* segments.                                                                *)
THEOREM EncodedParses ==
    ASSUME NEW segs \in Seq(Name), NEW dir \in BOOLEAN
    PROVE  LET parsed == Parse(Encode(segs, dir))
           IN  /\ parsed.ok \in BOOLEAN
               /\ parsed.ok = TRUE <=> \A i \in DOMAIN segs : checkComponent(segs[i])
               /\ parsed.ok => parsed.segs = segs /\ parsed.dir \in BOOLEAN
<1> DEFINE path == Encode(segs, dir)
           decoded == [i \in DOMAIN path |-> PathUnescape(path[i])]
<1>1. /\ segs \in Seq(Segment) /\ Len(segs) \in Nat /\ DOMAIN segs = 1..Len(segs)
      /\ \A i \in 1..Len(segs) : segs[i] \in Segment \ {<<>>, dot, dotdot}
  BY NameFacts
<1>2. /\ path \in Seq(Segment) /\ Len(path) \in Nat /\ DOMAIN path = 1..Len(path)
      /\ Len(segs) <= Len(path) /\ Len(path) > 0
      /\ \A i \in 1..Len(segs) : path[i] = Escaped(segs[i])
      /\ \A i \in 1..Len(path) : i > Len(segs) => path[i] = <<>>
  <2>1. /\ path \in Seq(Segment)
        /\ Len(path) = Len(segs) + (IF dir \/ segs = <<>> THEN 1 ELSE 0)
        /\ \A i \in 1..Len(segs) : path[i] = Escaped(segs[i])
        /\ \A i \in 1..Len(path) : i > Len(segs) => path[i] = <<>>
    BY <1>1, EncodeFacts
  <2> HIDE DEF path
  <2>2. segs = <<>> \/ Len(segs) > 0
    BY <1>1
  <2> QED  BY <1>1, <2>1, <2>2
<1> HIDE DEF path
<1>3. PathUnescape(<<>>) = <<>> /\ ~BadEscape(<<>>)
  BY DEF PathUnescape, BadEscape
<1>4. \A i \in 1..Len(segs) : PathUnescape(path[i]) = segs[i] /\ ~BadEscape(path[i])
  BY <1>1, <1>2, EscapedDecodes
<1>5. \A i \in 1..Len(path) : i > Len(segs) => PathUnescape(path[i]) = <<>> /\ ~BadEscape(path[i])
  BY <1>2, <1>3
<1>6. \A i \in 1..Len(path) : i \in 1..Len(segs) \/ i > Len(segs)
  BY <1>1, <1>2
<1>7. Parse(path) = IF \E i \in 1..Len(segs) : ~checkComponent(segs[i]) THEN NotOK
                    ELSE ParsedPath(decoded)
  <2>1. path # <<>>
    BY <1>2
  <2>2. (\E i \in DOMAIN path :
            \/ BadEscape(path[i])
            \/ LET seg == PathUnescape(path[i])
               IN  seg \notin {<<>>, dot, dotdot} /\ ~checkComponent(seg))
        <=> \E i \in 1..Len(segs) : ~checkComponent(segs[i])
    <3>1. ASSUME NEW i \in 1..Len(segs), ~checkComponent(segs[i])
          PROVE  i \in DOMAIN path /\ PathUnescape(path[i]) \notin {<<>>, dot, dotdot}
                 /\ ~checkComponent(PathUnescape(path[i]))
      BY <1>1, <1>2, <1>4, <3>1
    <3>2. ASSUME NEW i \in DOMAIN path,
                 BadEscape(path[i]) \/ (PathUnescape(path[i]) \notin {<<>>, dot, dotdot}
                                       /\ ~checkComponent(PathUnescape(path[i])))
          PROVE  i \in 1..Len(segs) /\ ~checkComponent(segs[i])
      BY <1>2, <1>4, <1>5, <1>6, <3>2
    <3> QED  BY <3>1, <3>2
  <2> QED  BY <2>1, <2>2 DEF Parse
<1>8. decoded \in Seq(Segment) /\ Len(decoded) = Len(path)
  <2>1. \A i \in 1..Len(path) : PathUnescape(path[i]) \in Segment
    BY <1>2, UnescapeType
  <2>2. decoded \in [1..Len(path) -> Segment]
    BY <1>2, <2>1
  <2> HIDE DEF decoded
  <2> QED  BY <1>2, <2>2, SeqDef
<1>9. \A i \in 1..Len(path) : decoded[i] = PathUnescape(path[i])
  BY <1>2
<1> HIDE DEF decoded
<1>10. Resolved(decoded) = segs
  <2>1. \A i \in 1..Len(segs) : decoded[i] = segs[i]
    BY <1>1, <1>2, <1>4, <1>9
  <2>2. \A i \in 1..Len(decoded) : i > Len(segs) => decoded[i] \in {<<>>, dot}
    BY <1>5, <1>8, <1>9
  <2> QED  BY <1>2, <1>8, <2>1, <2>2, NamesResolve
<1>11. (IsDir(decoded) \/ Last(decoded) \in {dot, dotdot}) \in BOOLEAN
  OBVIOUS
<1> QED  BY <1>1, <1>7, <1>10, <1>11 DEF NotOK, ParsedPath, path

-----------------------------------------------------------------------------
(* What upstreams make of a segment.                                        *)

\* A maximal run of characters that are not separators.
Run(s, a, b) ==
    /\ a \in 1..Len(s) /\ b \in 1..Len(s) /\ a <= b
    /\ \A k \in a..b : ~isSeparator(s[k])
    /\ a = 1 \/ isSeparator(s[a - 1])
    /\ b = Len(s) \/ isSeparator(s[b + 1])

\* A part of a text.
LEMMA PartFacts ==
    ASSUME NEW s \in Segment, NEW a \in 1..Len(s), NEW b \in 1..Len(s), a <= b
    PROVE  /\ SubSeq(s, a, b) \in Segment
           /\ Len(SubSeq(s, a, b)) = b - a + 1
           /\ \A i \in 1..(b - a + 1) : SubSeq(s, a, b)[i] = s[a + i - 1]
<1>1. Len(s) \in Nat /\ a \in Int /\ b \in Int /\ \A i \in a..b : s[i] \in Character
  BY DEF Segment
<1> QED  BY <1>1, SubSeqProperties DEF Segment

LEMMA FieldsAreRuns ==
    ASSUME NEW s \in Segment, NEW q
    PROVE  q \in Fields(s) <=> \E a, b \in 1..Len(s) : Run(s, a, b) /\ q = SubSeq(s, a, b)
<1>1. DOMAIN s = 1..Len(s)
  BY DEF Segment
<1>2. ASSUME NEW p \in (1..Len(s)) \X (1..Len(s))
      PROVE  /\ p[1] \in 1..Len(s) /\ p[2] \in 1..Len(s)
             /\ Run(s, p[1], p[2]) <=> 
                  /\ p[1] <= p[2]
                  /\ \A k \in p[1]..p[2] : ~isSeparator(s[k])
                  /\ p[1] = 1 \/ isSeparator(s[p[1] - 1])
                  /\ p[2] = Len(s) \/ isSeparator(s[p[2] + 1])
  BY DEF Run
<1>3. Fields(s) = {SubSeq(s, p[1], p[2]) :
                     p \in {r \in (1..Len(s)) \X (1..Len(s)) : Run(s, r[1], r[2])}}
  BY <1>1, <1>2 DEF Fields
<1>4. ASSUME NEW a \in 1..Len(s), NEW b \in 1..Len(s), Run(s, a, b)
      PROVE  SubSeq(s, a, b) \in Fields(s)
  <2>1. <<a, b>> \in (1..Len(s)) \X (1..Len(s)) /\ <<a, b>>[1] = a /\ <<a, b>>[2] = b
    OBVIOUS
  <2> QED  BY <1>3, <1>4, <2>1
<1> QED  BY <1>2, <1>3, <1>4

\* Every part without separators lies in a run.
LEMMA InRun ==
    ASSUME NEW s \in Segment, NEW a \in 1..Len(s), NEW b \in 1..Len(s), a <= b,
           \A k \in a..b : ~isSeparator(s[k])
    PROVE  \E first \in 1..a, last \in b..Len(s) : Run(s, first, last)
<1> DEFINE starts == {i \in 1..a : \A k \in i..b : ~isSeparator(s[k])}
           ends == {i \in b..Len(s) : i = Len(s) \/ isSeparator(s[i + 1])}
<1>1. Len(s) \in Nat /\ a \in Nat /\ b \in Nat /\ 1 <= a /\ b <= Len(s)
  BY DEF Segment
<1>2. starts \in SUBSET Nat /\ a \in starts
  BY <1>1
<1>3. ends \in SUBSET Nat /\ Len(s) \in ends
  BY <1>1
<1>4. PICK first \in starts : \A j \in starts : first <= j
  <2> HIDE DEF starts
  <2> QED  BY <1>2, Least
<1>5. PICK last \in ends : \A j \in ends : last <= j
  <2> HIDE DEF ends
  <2> QED  BY <1>3, Least
<1>6. first \in 1..a /\ last \in b..Len(s)
  OBVIOUS
<1>7. first = 1 \/ isSeparator(s[first - 1])
  <2> SUFFICES ASSUME first # 1, ~isSeparator(s[first - 1]) PROVE FALSE
    OBVIOUS
  <2>1. first - 1 \in 1..a /\ ~(first <= first - 1)
    BY <1>1, <1>6
  <2>2. ASSUME NEW k \in (first - 1)..b PROVE ~isSeparator(s[k])
    <3>1. k = first - 1 \/ k \in first..b
      BY <1>1, <1>6
    <3>2. \A j \in first..b : ~isSeparator(s[j])
      OBVIOUS
    <3> QED  BY <3>1, <3>2
  <2>3. first - 1 \in starts
    BY <2>1, <2>2
  <2> QED  BY <1>4, <2>1, <2>3
<1>8. last = Len(s) \/ isSeparator(s[last + 1])
  OBVIOUS
<1>9. ASSUME NEW k \in first..last PROVE ~isSeparator(s[k])
  <2>1. CASE k <= b
    <3>1. k \in first..b
      BY <1>1, <1>6, <2>1
    <3> QED  BY <3>1
  <2>2. CASE b < k
    <3>1. k - 1 \in b..Len(s) /\ k - 1 # Len(s) /\ k - 1 + 1 = k /\ ~(last <= k - 1)
      BY <1>1, <1>6, <2>2
    <3>2. k - 1 \notin ends
      BY <1>5, <3>1
    <3> QED  BY <3>1, <3>2
  <2> QED  BY <1>1, <1>6, <2>1, <2>2
<1>10. first \in 1..Len(s) /\ last \in 1..Len(s) /\ first <= last
  BY <1>1, <1>6
<1> HIDE DEF starts, ends
<1> QED  BY <1>6, <1>7, <1>8, <1>9, <1>10 DEF Run

\* What becomes of one character.
Folded(ch) ==
    IF ch.n = 0 /\ ch.c \in DOMAIN confusables THEN [ch EXCEPT !.c = confusables[@]] ELSE ch
Once(ch) == [ch EXCEPT !.n = IF @ = 0 THEN 0 ELSE @ - 1]

\* Folding does not depend on when a character is decoded.
LEMMA CharacterFacts ==
    ASSUME NEW ch \in Character
    PROVE  /\ Folded(ch) \in Character /\ Once(ch) \in Character
           /\ Folded(Folded(ch)) = Folded(ch)
           /\ Folded(Once(Folded(ch))) = Folded(Once(ch))
           /\ isSeparator(ch) => isSeparator(Folded(ch))
           /\ isSeparator(Folded(ch)) => isSeparator(Folded(Once(ch)))
           /\ Folded(ch) = [c |-> "%", n |-> 0] => ch = [c |-> "%", n |-> 0]
           /\ ch.n = 0 => Once(ch) = ch
           /\ Folded(ch).n = ch.n
           /\ ch = [c |-> "NUL", n |-> 0] => Folded(ch) = ch /\ ~isSeparator(ch)
           /\ ch \in [c : {".", "..", "space"}, n : {0}] => Folded(ch) = ch /\ ~isSeparator(ch)
<1> DEFINE D == {"wide_dot", "overlong_dot", "two_dots", "wide_slash", "yen"}
<1>1. /\ DOMAIN confusables = D
      /\ \A c \in D : confusables[c] \in {".", "..", "/", "\\"} /\ confusables[c] \notin D
      /\ \A c \in {".", "..", "/", "\\", "%", "NUL", "space"} : c \notin D
  BY DEF confusables
<1>2. ch = [c |-> ch.c, n |-> ch.n] /\ ch.n \in Nat /\ ch.c \in Feared \cup STRING
  BY DEF Character
<1>3. CASE ch.n = 0 /\ ch.c \in D
  <2> DEFINE d == confusables[ch.c]
  <2>1. Folded(ch) = [c |-> d, n |-> 0] /\ Once(ch) = ch
    BY <1>1, <1>2, <1>3 DEF Folded, Once
  <2>2. d \in {".", "..", "/", "\\"} /\ d \notin D
    BY <1>1, <1>3
  <2> HIDE DEF d
  <2>3. /\ Folded(ch).c = d /\ Folded(ch).n = 0
        /\ Folded(Folded(ch)) = Folded(ch) /\ Once(Folded(ch)) = Folded(ch)
    BY <1>1, <2>1, <2>2 DEF Folded, Once
  <2>4. Folded(ch) \in Character
    BY <2>1, <2>2 DEF Character, Feared
  <2>5. ch.c \notin {".", "..", "/", "\\", "%", "NUL", "space"} /\ d # "%"
    BY <1>1, <1>3, <2>2
  <2>6. ~isSeparator(ch) /\ ch # [c |-> "NUL", n |-> 0] /\ ch \notin [c : {".", "..", "space"}, n : {0}]
    BY <2>5 DEF isSeparator
  <2>7. Folded(ch) # [c |-> "%", n |-> 0]
    BY <2>3, <2>5
  <2>8. Once(ch) \in Character
    BY <2>1
  <2>9. Folded(Once(Folded(ch))) = Folded(Once(ch)) /\ Folded(ch).n = ch.n
    BY <1>3, <2>1, <2>3
  <2> QED  BY <2>1, <2>3, <2>4, <2>6, <2>7, <2>8, <2>9
<1>4. CASE ~(ch.n = 0 /\ ch.c \in D)
  <2>1. Folded(ch) = ch
    BY <1>1, <1>4 DEF Folded
  <2>2. Once(ch) = [c |-> ch.c, n |-> IF ch.n = 0 THEN 0 ELSE ch.n - 1]
    BY <1>2 DEF Once
  <2>3. Once(ch) \in Character /\ (ch.n = 0 => Once(ch) = ch)
    BY <1>2, <2>2 DEF Character
  <2>4. isSeparator(ch) => ch.n = 0 
    BY DEF isSeparator
  <2>5. ~isSeparator([c |-> "NUL", n |-> 0])
        /\ \A d \in [c : {".", "..", "space"}, n : {0}] : ~isSeparator(d)
    BY DEF isSeparator
  <2> QED  BY <2>1, <2>3, <2>4, <2>5
<1> QED  BY <1>3, <1>4

LEMMA FoldFacts ==
    ASSUME NEW s \in Segment
    PROVE  /\ fold(s) \in Segment /\ Len(fold(s)) = Len(s)
           /\ \A i \in 1..Len(s) : fold(s)[i] = Folded(s[i])
<1>1. Len(s) \in Nat /\ DOMAIN s = 1..Len(s) /\ \A i \in 1..Len(s) : s[i] \in Character
  BY DEF Segment
<1>2. fold(s) = [i \in 1..Len(s) |-> Folded(s[i])]
  BY <1>1 DEF fold, Folded
<1>3. \A i \in 1..Len(s) : Folded(s[i]) \in Character
  BY <1>1, CharacterFacts
<1>4. fold(s) \in [1..Len(s) -> Character]
  BY <1>2, <1>3
<1> QED  BY <1>1, <1>2, <1>4, SeqDef DEF Segment

LEMMA OnceFacts ==
    ASSUME NEW s \in Segment
    PROVE  /\ PathUnescape(s) \in Segment /\ Len(PathUnescape(s)) = Len(s)
           /\ \A i \in 1..Len(s) : PathUnescape(s)[i] = Once(s[i])
<1>1. DOMAIN s = 1..Len(s)
  BY DEF Segment
<1>2. PathUnescape(s) = [i \in 1..Len(s) |-> Once(s[i])]
  BY <1>1 DEF PathUnescape, Once
<1> QED  BY <1>2, UnescapeType

\* What is folded once is folded.
LEMMA FoldTwice ==
    ASSUME NEW s \in Segment
    PROVE  /\ fold(fold(s)) = fold(s)
           /\ fold(PathUnescape(fold(s))) = fold(PathUnescape(s))
<1> DEFINE f == fold(s)
           o == PathUnescape(s)
           fo == PathUnescape(f)
<1>1. f \in Segment /\ Len(f) = Len(s) /\ \A i \in 1..Len(s) : f[i] = Folded(s[i])
  BY FoldFacts
<1>2. o \in Segment /\ Len(o) = Len(s) /\ \A i \in 1..Len(s) : o[i] = Once(s[i])
  BY OnceFacts
<1> HIDE DEF f, o
<1>3. fo \in Segment /\ Len(fo) = Len(s) /\ \A i \in 1..Len(s) : fo[i] = Once(Folded(s[i]))
  BY <1>1, OnceFacts
<1> HIDE DEF fo
<1>4. fold(f) \in Segment /\ Len(fold(f)) = Len(s) /\ \A i \in 1..Len(s) : fold(f)[i] = Folded(f[i])
  BY <1>1, FoldFacts
<1>5. fold(o) \in Segment /\ Len(fold(o)) = Len(s) /\ \A i \in 1..Len(s) : fold(o)[i] = Folded(o[i])
  BY <1>2, FoldFacts
<1>6. fold(fo) \in Segment /\ Len(fold(fo)) = Len(s) /\ \A i \in 1..Len(s) : fold(fo)[i] = Folded(fo[i])
  BY <1>3, FoldFacts
<1>7. \A i \in 1..Len(s) : s[i] \in Character
  BY DEF Segment
<1>8. ASSUME NEW i \in 1..Len(s) PROVE fold(f)[i] = f[i] /\ fold(fo)[i] = fold(o)[i]
  <2>1. /\ Folded(Folded(s[i])) = Folded(s[i])
        /\ Folded(Once(Folded(s[i]))) = Folded(Once(s[i]))
    BY <1>7, CharacterFacts
  <2>2. fold(f)[i] = Folded(Folded(s[i])) /\ f[i] = Folded(s[i])
    BY <1>1, <1>4
  <2>3. fold(fo)[i] = Folded(Once(Folded(s[i])))
    BY <1>3, <1>6
  <2>4. fold(o)[i] = Folded(Once(s[i]))
    BY <1>2, <1>5
  <2> QED  BY <2>1, <2>2, <2>3, <2>4
<1>9. fold(f) = f
  BY <1>1, <1>4, <1>8, SeqEqual DEF Segment
<1>10. fold(fo) = fold(o)
  BY <1>5, <1>6, <1>8, SeqEqual DEF Segment
<1> QED  BY <1>9, <1>10 DEF f, o, fo

\* The fields of what a field is folded to are fields of the whole.
LEMMA FieldOfField ==
    ASSUME NEW t \in Segment, NEW f \in Segment, Len(f) = Len(t),
           \A i \in 1..Len(t) : isSeparator(t[i]) => isSeparator(f[i]),
           NEW a \in 1..Len(t), NEW b \in 1..Len(t), Run(t, a, b),
           NEW q \in Fields(SubSeq(f, a, b))
    PROVE  q \in Fields(f)
<1> DEFINE p == SubSeq(f, a, b)
<1>1. Len(t) \in Nat /\ a \in Nat /\ b \in Nat /\ 1 <= a /\ a <= b /\ b <= Len(t)
  BY DEF Segment, Run
<1>2. /\ p \in Segment /\ Len(p) = b - a + 1
      /\ \A i \in 1..(b - a + 1) : p[i] = f[a + i - 1]
  BY <1>1, PartFacts
<1> HIDE DEF p
<1>3. PICK c \in 1..Len(p), d \in 1..Len(p) : Run(p, c, d) /\ q = SubSeq(p, c, d)
  BY <1>2, FieldsAreRuns DEF p
<1> DEFINE first == a + c - 1
           last == a + d - 1
<1>4. c \in Nat /\ d \in Nat /\ 1 <= c /\ c <= d /\ d <= b - a + 1
  BY <1>1, <1>2, <1>3 DEF Run
<1>5. first \in 1..Len(f) /\ last \in 1..Len(f) /\ first <= last /\ last - first = d - c
  BY <1>1, <1>4
<1>6. ASSUME NEW k \in first..last PROVE ~isSeparator(f[k])
  <2>1. k - a + 1 \in c..d /\ k - a + 1 \in 1..(b - a + 1) /\ a + (k - a + 1) - 1 = k
    BY <1>1, <1>4
  <2> QED  BY <1>2, <1>3, <2>1 DEF Run
<1>7. first = 1 \/ isSeparator(f[first - 1])
  <2>1. CASE c = 1
    <3>1. first = a
      BY <1>1, <2>1
    <3>2. a = 1 \/ (a - 1 \in 1..Len(t) /\ isSeparator(t[a - 1]))
      BY <1>1 DEF Run
    <3> QED  BY <3>1, <3>2
  <2>2. CASE c # 1
    <3>1. isSeparator(p[c - 1])
      BY <1>3, <2>2 DEF Run
    <3>2. c - 1 \in 1..(b - a + 1) /\ a + (c - 1) - 1 = first - 1
      BY <1>1, <1>4, <2>2
    <3> QED  BY <1>2, <3>1, <3>2
  <2> QED  BY <2>1, <2>2
<1>8. last = Len(f) \/ isSeparator(f[last + 1])
  <2>1. CASE d = b - a + 1
    <3>1. last = b
      BY <1>1, <2>1
    <3>2. b = Len(t) \/ (b + 1 \in 1..Len(t) /\ isSeparator(t[b + 1]))
      BY <1>1 DEF Run
    <3> QED  BY <3>1, <3>2
  <2>2. CASE d # b - a + 1
    <3>1. isSeparator(p[d + 1])
      BY <1>2, <1>3, <2>2 DEF Run
    <3>2. d + 1 \in 1..(b - a + 1) /\ a + (d + 1) - 1 = last + 1
      BY <1>1, <1>4, <2>2
    <3> QED  BY <1>2, <3>1, <3>2
  <2> QED  BY <2>1, <2>2
<1>9. q = SubSeq(f, first, last)
  <2>1. /\ q \in Segment /\ Len(q) = d - c + 1
        /\ \A i \in 1..(d - c + 1) : q[i] = p[c + i - 1]
    BY <1>2, <1>3, <1>4, PartFacts
  <2> DEFINE r == SubSeq(f, first, last)
  <2>2. /\ r \in Segment /\ Len(r) = last - first + 1
        /\ \A i \in 1..(last - first + 1) : r[i] = f[first + i - 1]
    <3> HIDE DEF first, last
    <3> QED  BY <1>5, PartFacts
  <2> HIDE DEF r
  <2>3. Len(r) = d - c + 1 /\ last - first + 1 = d - c + 1
    BY <1>1, <1>4, <2>2
  <2>4. ASSUME NEW i \in 1..(d - c + 1) PROVE q[i] = r[i]
    <3>1. c + i - 1 \in 1..(b - a + 1) /\ a + (c + i - 1) - 1 = first + i - 1
      BY <1>1, <1>4
    <3>2. i \in 1..(last - first + 1)
      BY <2>3
    <3> HIDE DEF first, last
    <3>3. r[i] = f[first + i - 1]
      BY <2>2, <3>2
    <3>4. q[i] = f[a + (c + i - 1) - 1]
      BY <1>2, <2>1, <3>1
    <3> QED  BY <3>1, <3>3, <3>4
  <2>5. q = r
    BY <2>1, <2>2, <2>3, <2>4, SeqEqual DEF Segment
  <2> QED  BY <2>5 DEF r
<1> HIDE DEF first, last
<1>10. Run(f, first, last)
  BY <1>5, <1>6, <1>7, <1>8 DEF Run
<1> QED  BY <1>5, <1>9, <1>10, FieldsAreRuns

LEMMA FoldOfPart ==
    ASSUME NEW t \in Segment, NEW a \in 1..Len(t), NEW b \in 1..Len(t), a <= b
    PROVE  /\ fold(SubSeq(t, a, b)) = SubSeq(fold(t), a, b)
           /\ PathUnescape(SubSeq(t, a, b)) = SubSeq(PathUnescape(t), a, b)
<1> DEFINE p == SubSeq(t, a, b)
           n == b - a + 1
<1>1. p \in Segment /\ Len(p) = n /\ \A i \in 1..n : p[i] = t[a + i - 1]
  BY PartFacts
<1>2. n \in Nat /\ \A i \in 1..n : a + i - 1 \in 1..Len(t)
  BY DEF Segment
<1> HIDE DEF p, n
<1>3. fold(p) = SubSeq(fold(t), a, b)
  <2> DEFINE f == fold(t)
             g == SubSeq(f, a, b)
  <2>1. f \in Segment /\ Len(f) = Len(t) /\ \A i \in 1..Len(t) : f[i] = Folded(t[i])
    BY FoldFacts
  <2> HIDE DEF f
  <2>2. g \in Segment /\ Len(g) = n /\ \A i \in 1..n : g[i] = f[a + i - 1]
    BY <2>1, PartFacts DEF n
  <2> HIDE DEF g
  <2>3. fold(p) \in Segment /\ Len(fold(p)) = n /\ \A i \in 1..n : fold(p)[i] = Folded(p[i])
    BY <1>1, FoldFacts
  <2>4. \A i \in 1..n : fold(p)[i] = g[i]
    BY <1>1, <1>2, <2>1, <2>2, <2>3
  <2>5. fold(p) = g
    BY <2>2, <2>3, <2>4, SeqEqual DEF Segment
  <2> QED  BY <2>5 DEF f, g
<1>4. PathUnescape(p) = SubSeq(PathUnescape(t), a, b)
  <2> DEFINE f == PathUnescape(t)
             g == SubSeq(f, a, b)
  <2>1. f \in Segment /\ Len(f) = Len(t) /\ \A i \in 1..Len(t) : f[i] = Once(t[i])
    BY OnceFacts
  <2> HIDE DEF f
  <2>2. g \in Segment /\ Len(g) = n /\ \A i \in 1..n : g[i] = f[a + i - 1]
    BY <2>1, PartFacts DEF n
  <2> HIDE DEF g
  <2>3. /\ PathUnescape(p) \in Segment /\ Len(PathUnescape(p)) = n
        /\ \A i \in 1..n : PathUnescape(p)[i] = Once(p[i])
    BY <1>1, OnceFacts
  <2>4. \A i \in 1..n : PathUnescape(p)[i] = g[i]
    BY <1>1, <1>2, <2>1, <2>2, <2>3
  <2>5. PathUnescape(p) = g
    BY <2>2, <2>3, <2>4, SeqEqual DEF Segment
  <2> QED  BY <2>5 DEF f, g
<1> QED  BY <1>3, <1>4 DEF p

\* A field folds to a text whose fields are those that the whole text folds to.
LEMMA FoldOfField ==
    ASSUME NEW t \in Segment, NEW q \in Fields(t)
    PROVE  q \in Segment /\ q # <<>> /\ Fields(fold(q)) \subseteq Fields(fold(t))
<1>1. PICK a \in 1..Len(t), b \in 1..Len(t) : Run(t, a, b) /\ q = SubSeq(t, a, b)
  BY FieldsAreRuns
<1>2. a <= b
  BY <1>1 DEF Run
<1>3. q \in Segment /\ Len(q) = b - a + 1
  BY <1>1, <1>2, PartFacts
<1>4. q # <<>>
  <2>1. Len(q) # 0
    BY <1>2, <1>3
  <2> QED  BY <2>1
<1>5. fold(q) = SubSeq(fold(t), a, b)
  BY <1>1, <1>2, FoldOfPart
<1>6. fold(t) \in Segment /\ Len(fold(t)) = Len(t)
      /\ \A i \in 1..Len(t) : isSeparator(t[i]) => isSeparator(fold(t)[i])
  BY FoldFacts, CharacterFacts DEF Segment
<1> QED  BY <1>1, <1>3, <1>4, <1>5, <1>6, FieldOfField

\* A run is a run of every part that it lies in.
LEMMA RunInPart ==
    ASSUME NEW g \in Segment, NEW first \in 1..Len(g), NEW last \in 1..Len(g), first <= last,
           NEW a \in first..last, NEW b \in first..last, Run(g, a, b)
    PROVE  SubSeq(g, a, b) \in Fields(SubSeq(g, first, last))
<1> DEFINE p == SubSeq(g, first, last)
           c == a - first + 1
           d == b - first + 1
           n == last - first + 1
<1>1. Len(g) \in Nat /\ a \in Nat /\ b \in Nat /\ a <= b /\ first \in Nat /\ last \in Nat
  BY DEF Segment, Run
<1>2. p \in Segment /\ Len(p) = n /\ \A i \in 1..n : p[i] = g[first + i - 1]
  BY PartFacts
<1> HIDE DEF p
<1>3. c \in 1..n /\ d \in 1..n /\ c <= d /\ d - c = b - a
  BY <1>1
<1>4. ASSUME NEW k \in c..d PROVE ~isSeparator(p[k])
  <2>1. k \in 1..n /\ first + k - 1 \in a..b
    BY <1>1, <1>3
  <2> QED  BY <1>2, <2>1 DEF Run
<1>5. c = 1 \/ isSeparator(p[c - 1])
  <2> SUFFICES ASSUME c # 1 PROVE isSeparator(p[c - 1])
    OBVIOUS
  <2>1. c - 1 \in 1..n /\ first + (c - 1) - 1 = a - 1 /\ a # 1
    BY <1>1, <1>3
  <2>2. isSeparator(g[a - 1])
    BY <2>1 DEF Run
  <2> QED  BY <1>2, <2>1, <2>2
<1>6. d = n \/ isSeparator(p[d + 1])
  <2> SUFFICES ASSUME d # n PROVE isSeparator(p[d + 1])
    OBVIOUS
  <2>1. d + 1 \in 1..n /\ first + (d + 1) - 1 = b + 1 /\ b # Len(g)
    BY <1>1, <1>3
  <2>2. isSeparator(g[b + 1])
    BY <2>1 DEF Run
  <2> QED  BY <1>2, <2>1, <2>2
<1>7. SubSeq(g, a, b) = SubSeq(p, c, d)
  <2> DEFINE q == SubSeq(g, a, b)
             r == SubSeq(p, c, d)
  <2>1. q \in Segment /\ Len(q) = b - a + 1 /\ \A i \in 1..(b - a + 1) : q[i] = g[a + i - 1]
    <3>1. a \in 1..Len(g) /\ b \in 1..Len(g)
      BY <1>1
    <3> QED  BY <1>1, <3>1, PartFacts
  <2>2. r \in Segment /\ Len(r) = d - c + 1 /\ \A i \in 1..(d - c + 1) : r[i] = p[c + i - 1]
    <3> HIDE DEF c, d, n
    <3>1. c \in 1..Len(p) /\ d \in 1..Len(p) /\ c <= d
      BY <1>2, <1>3
    <3> QED  BY <1>2, <3>1, PartFacts
  <2> HIDE DEF q, r
  <2>3. ASSUME NEW i \in 1..(b - a + 1) PROVE q[i] = r[i]
    <3>1. i \in 1..(d - c + 1) /\ c + i - 1 \in 1..n /\ first + (c + i - 1) - 1 = a + i - 1
      BY <1>1, <1>3
    <3>2. r[i] = g[first + (c + i - 1) - 1]
      BY <1>2, <2>2, <3>1
    <3> QED  BY <2>1, <3>1, <3>2
  <2>4. Len(q) = Len(r)
    BY <1>3, <2>1, <2>2
  <2>5. q = r
    BY <2>1, <2>2, <2>3, <2>4, SeqEqual DEF Segment
  <2> QED  BY <2>5 DEF q, r
<1> HIDE DEF c, d, n
<1>8. Run(p, c, d)
  BY <1>2, <1>3, <1>4, <1>5, <1>6 DEF Run
<1> QED  BY <1>2, <1>3, <1>7, <1>8, FieldsAreRuns DEF p

\* What a text decodes and folds to has no fields but those of its own fields.
LEMMA DecodedField ==
    ASSUME NEW t \in Segment, NEW q \in Fields(fold(PathUnescape(t)))
    PROVE  \E p \in Fields(fold(t)) : q \in Fields(fold(PathUnescape(p)))
<1> DEFINE f == fold(t)
           o == PathUnescape(t)
           g == fold(o)
<1>1. f \in Segment /\ Len(f) = Len(t) /\ \A i \in 1..Len(t) : f[i] = Folded(t[i])
  BY FoldFacts
<1>2. o \in Segment /\ Len(o) = Len(t) /\ \A i \in 1..Len(t) : o[i] = Once(t[i])
  BY OnceFacts
<1>3. fold(PathUnescape(f)) = g
  BY FoldTwice
<1> HIDE DEF o
<1>4. g \in Segment /\ Len(g) = Len(t) /\ \A i \in 1..Len(t) : g[i] = Folded(Once(t[i]))
  BY <1>2, FoldFacts
<1> HIDE DEF f, g
<1>5. \A i \in 1..Len(t) : isSeparator(f[i]) => isSeparator(g[i])
  <2>1. \A i \in 1..Len(t) : t[i] \in Character
    BY DEF Segment
  <2> QED  BY <1>1, <1>4, <2>1, CharacterFacts
<1>6. PICK a \in 1..Len(g), b \in 1..Len(g) : Run(g, a, b) /\ q = SubSeq(g, a, b)
  BY <1>4, FieldsAreRuns DEF g, o
<1>7. /\ a \in 1..Len(f) /\ b \in 1..Len(f) /\ a <= b
      /\ \A k \in a..b : k \in 1..Len(t) /\ ~isSeparator(f[k])
  <2>1. \A k \in a..b : k \in 1..Len(t)
    BY <1>4 DEF Segment
  <2> QED  BY <1>1, <1>4, <1>5, <1>6, <2>1 DEF Run
<1>8. PICK first \in 1..a, last \in b..Len(f) : Run(f, first, last)
  BY <1>1, <1>7, InRun
<1>9. /\ first \in 1..Len(f) /\ last \in 1..Len(f) /\ first <= last
      /\ a \in first..last /\ b \in first..last
  <2>1. Len(f) \in Nat
    BY <1>1 DEF Segment
  <2> QED  BY <1>7, <1>8, <2>1
<1> DEFINE p == SubSeq(f, first, last)
<1>10. p \in Fields(f) /\ p \in Segment
  BY <1>1, <1>8, <1>9, FieldsAreRuns, PartFacts
<1>11. fold(PathUnescape(p)) = SubSeq(g, first, last)
  <2>1. PathUnescape(p) = SubSeq(PathUnescape(f), first, last)
    BY <1>1, <1>9, FoldOfPart
  <2>2. PathUnescape(f) \in Segment /\ Len(PathUnescape(f)) = Len(f)
    BY <1>1, OnceFacts
  <2>3. fold(SubSeq(PathUnescape(f), first, last)) = SubSeq(fold(PathUnescape(f)), first, last)
    BY <1>9, <2>2, FoldOfPart
  <2> QED  BY <1>3, <2>1, <2>3
<1>12. q \in Fields(SubSeq(g, first, last))
  BY <1>1, <1>4, <1>6, <1>9, RunInPart
<1> QED  BY <1>10, <1>11, <1>12 DEF f

-----------------------------------------------------------------------------
(* What checkComponent accepts.                                             *)

More(S) == UNION {Decoded(t) : t \in S}

LEMMA PartsByDepth ==
    ASSUME NEW s
    PROVE  /\ DecodedParts(s)[0] = {s}
           /\ \A d \in 0..2 : DecodedParts(s)[d + 1] = More(DecodedParts(s)[d])
<1> DEFINE Stepped(f) == f = [d \in 0..maxDecodeDepth |->
                                 IF d = 0 THEN {s} ELSE UNION {Decoded(t) : t \in f[d - 1]}]
           one == More({s})
           two == More(one)
           three == More(two)
           g == [d \in 0..3 |-> IF d = 0 THEN {s} ELSE IF d = 1 THEN one
                                ELSE IF d = 2 THEN two ELSE three]
           parts == CHOOSE f : Stepped(f)
<1>1. DecodedParts(s) = parts
  BY DEF DecodedParts
<1>2. \E f : Stepped(f)
  <2>1. g[0] = {s} /\ g[1] = More(g[0]) /\ g[2] = More(g[1]) /\ g[3] = More(g[2])
    <3> HIDE DEF one, two, three
    <3>1. g[0] = {s} /\ g[1] = one /\ g[2] = two /\ g[3] = three
      OBVIOUS
    <3> HIDE DEF g
    <3> QED  BY <3>1 DEF one, two, three
  <2>2. g = [d \in 0..3 |-> g[d]]
    OBVIOUS
  <2> HIDE DEF g
  <2>3. \A d \in 0..3 : g[d] = IF d = 0 THEN {s} ELSE More(g[d - 1])
    <3> TAKE d \in 0..3
    <3>1. d = 0 \/ d = 1 \/ d = 2 \/ d = 3
      OBVIOUS
    <3> QED  BY <2>1, <3>1
  <2>4. g = [d \in 0..3 |-> IF d = 0 THEN {s} ELSE More(g[d - 1])]
    BY <2>2, <2>3
  <2>5. Stepped(g)
    BY <2>4 DEF maxDecodeDepth, More
  <2> HIDE DEF Stepped
  <2> QED  BY <2>5
<1>3. Stepped(parts)
  <2> HIDE DEF Stepped
  <2> QED  BY <1>2
<1> HIDE DEF parts
<1>4. parts = [d \in 0..3 |-> IF d = 0 THEN {s} ELSE More(parts[d - 1])]
  BY <1>3 DEF maxDecodeDepth, More
<1>5. \A d \in 0..3 : parts[d] = IF d = 0 THEN {s} ELSE More(parts[d - 1])
  BY <1>4
<1>6. ASSUME NEW d \in 0..2 PROVE parts[d + 1] = More(parts[d])
  <2>1. d + 1 \in 0..3 /\ d + 1 # 0 /\ d + 1 - 1 = d
    OBVIOUS
  <2> QED  BY <1>5, <2>1
<1> QED  BY <1>1, <1>5, <1>6

\* The texts that checkComponent looks at, and what is in them.
Checked(s) == UNION {DecodedParts(s)[d] : d \in 0..2}
Fine(s) == UNION {Fields(fold(x)) : x \in Checked(s)}

LEMMA CheckedFacts ==
    ASSUME NEW s \in Segment, checkComponent(s)
    PROVE  /\ s \in Checked(s)
           /\ Checked(s) \subseteq Segment
           /\ \A x \in Checked(s) : ~Dangerous(x) /\ Decoded(x) \subseteq Checked(s)
<1>1. /\ DecodedParts(s)[0] = {s}
      /\ \A d \in 0..2 : DecodedParts(s)[d + 1] = More(DecodedParts(s)[d])
  BY PartsByDepth
<1>2. /\ \A d \in 0..2 : \A x \in DecodedParts(s)[d] : ~Dangerous(x)
      /\ DecodedParts(s)[3] = {}
  BY DEF checkComponent, Unsafe, maxDecodeDepth
<1>3. ASSUME NEW S, S \subseteq Segment PROVE More(S) \subseteq Segment
  <2>1. ASSUME NEW x \in S, NEW y \in Decoded(x) PROVE y \in Segment
    <3>1. x \in Segment /\ fold(x) \in Segment
      BY <1>3, FoldFacts
    <3>2. PICK p \in Fields(x) \cup Fields(fold(x)) : y = PathUnescape(p)
      BY DEF Decoded
    <3> QED  BY <3>1, <3>2, FoldOfField, OnceFacts
  <2> QED  BY <2>1 DEF More
<1> DEFINE P(d) == DecodedParts(s)[d]
<1>4. P(0) \subseteq Segment /\ P(1) \subseteq Segment /\ P(2) \subseteq Segment
  <2>1. P(1) = More(P(0)) /\ P(2) = More(P(1))
    <3>1. 0 \in 0..2 /\ 1 \in 0..2 /\ 0 + 1 = 1 /\ 1 + 1 = 2
      OBVIOUS
    <3> QED  BY <1>1, <3>1
  <2>2. P(0) \subseteq Segment
    BY <1>1
  <2> HIDE DEF P
  <2> QED  BY <1>3, <2>1, <2>2
<1>5. ASSUME NEW x \in Checked(s) PROVE x \in Segment /\ ~Dangerous(x) /\ Decoded(x) \subseteq Checked(s)
  <2>1. PICK d \in 0..2 : x \in P(d)
    BY DEF Checked
  <2>2. x \in Segment
    <3>1. d = 0 \/ d = 1 \/ d = 2
      OBVIOUS
    <3> HIDE DEF P
    <3> QED  BY <1>4, <2>1, <3>1
  <2>3. Decoded(x) \subseteq DecodedParts(s)[d + 1]
    BY <1>1, <2>1 DEF More
  <2>4. Decoded(x) \subseteq Checked(s)
    <3>1. CASE d = 2
      <4>1. DecodedParts(s)[d + 1] = {}
        BY <1>2, <3>1
      <4> QED  BY <2>3, <4>1
    <3>2. CASE d # 2
      <4>1. d + 1 \in 0..2
        BY <3>2
      <4> QED  BY <2>3, <4>1 DEF Checked
    <3> QED  BY <3>1, <3>2
  <2> QED  BY <1>2, <2>1, <2>2, <2>4
<1>6. s \in Checked(s)
  <2>1. 0 \in 0..2 /\ s \in DecodedParts(s)[0]
    BY <1>1
  <2> QED  BY <2>1 DEF Checked
<1> QED  BY <1>5, <1>6

\* What a checked segment is read as has no fields but those that were checked.
Covered(t, s) == t \in Segment /\ t # <<>> /\ Fields(fold(t)) \subseteq Fine(s)

LEMMA CoveredReread ==
    ASSUME NEW s \in Segment, checkComponent(s), NEW t, Covered(t, s), NEW u \in Reread(t)
    PROVE  Covered(u, s)
<1>1. t \in Segment /\ t # <<>> /\ Fields(fold(t)) \subseteq Fine(s)
  BY DEF Covered
<1>2. CASE u = t
  BY <1>2
<1>3. CASE u = fold(t)
  <2>1. u \in Segment /\ Len(u) = Len(t) /\ fold(u) = fold(t)
    BY <1>1, <1>3, FoldFacts, FoldTwice
  <2>2. u # <<>>
    BY <1>1, <2>1 DEF Segment
  <2> QED  BY <1>1, <2>1, <2>2 DEF Covered
<1>4. CASE u \in Fields(t)
  BY <1>1, <1>4, FoldOfField DEF Covered
<1>5. CASE ~BadEscape(t) /\ u = PathUnescape(t)
  <2>1. u \in Segment /\ Len(u) = Len(t)
    BY <1>1, <1>5, OnceFacts
  <2>2. u # <<>>
    BY <1>1, <2>1 DEF Segment
  <2>3. ASSUME NEW q \in Fields(fold(u)) PROVE q \in Fine(s)
    <3>1. PICK p \in Fields(fold(t)) : q \in Fields(fold(PathUnescape(p)))
      BY <1>1, <1>5, <2>3, DecodedField
    <3>2. PICK x \in Checked(s) : p \in Fields(fold(x))
      BY <1>1, <3>1 DEF Fine
    <3>3. x \in Segment /\ Decoded(x) \subseteq Checked(s)
      BY <3>2, CheckedFacts
    <3>4. p \in Segment
      BY <3>2, <3>3, FoldFacts, FoldOfField
    <3>5. ~BadEscape(p)
      <4>1. fold(t) \in Segment /\ Len(fold(t)) = Len(t)
            /\ \A i \in 1..Len(t) : fold(t)[i] = Folded(t[i]) /\ t[i] \in Character
        BY <1>1, FoldFacts DEF Segment
      <4>2. PICK a \in 1..Len(t), b \in 1..Len(t) : Run(fold(t), a, b) /\ p = SubSeq(fold(t), a, b)
        BY <3>1, <4>1, FieldsAreRuns
      <4>3. /\ Len(p) = b - a + 1 /\ \A i \in 1..(b - a + 1) : p[i] = fold(t)[a + i - 1]
        BY <4>1, <4>2, PartFacts DEF Run
      <4> SUFFICES ASSUME NEW i \in DOMAIN p, p[i] = [c |-> "%", n |-> 0] PROVE FALSE
        BY DEF BadEscape
      <4>4. i \in 1..(b - a + 1) /\ a + i - 1 \in 1..Len(t)
        <5>1. i \in 1..Len(p) /\ Len(t) \in Nat
          BY <1>1, <3>4 DEF Segment
        <5> QED  BY <4>3, <5>1
      <4>5. Folded(t[a + i - 1]) = [c |-> "%", n |-> 0] /\ t[a + i - 1] \in Character
        BY <4>1, <4>3, <4>4
      <4>6. t[a + i - 1] = [c |-> "%", n |-> 0]
        BY <4>5, CharacterFacts
      <4>7. a + i - 1 \in DOMAIN t
        BY <1>1, <4>4 DEF Segment
      <4> QED  BY <1>5, <4>6, <4>7 DEF BadEscape
    <3>6. CASE HasPercent(p)
      <4>1. PathUnescape(p) \in Checked(s)
        BY <3>2, <3>3, <3>5, <3>6 DEF Decoded
      <4> QED  BY <3>1, <4>1 DEF Fine
    <3>7. CASE ~HasPercent(p)
      <4>1. PathUnescape(p) = p
        <5>1. DOMAIN p = 1..Len(p) /\ \A i \in 1..Len(p) : p[i] \in Character /\ p[i].n = 0
          <6>1. DOMAIN p = 1..Len(p) /\ \A i \in 1..Len(p) : p[i] \in Character
            BY <3>4 DEF Segment
          <6>2. \A i \in DOMAIN p : ~(p[i].n > 0)
            BY <3>7 DEF HasPercent
          <6>3. \A i \in 1..Len(p) : p[i].n \in Nat
            BY <6>1 DEF Character
          <6> QED  BY <6>1, <6>2, <6>3
        <5>2. \A i \in 1..Len(p) : Once(p[i]) = p[i]
          BY <5>1, CharacterFacts
        <5>3. /\ PathUnescape(p) \in Segment /\ Len(PathUnescape(p)) = Len(p)
              /\ \A i \in 1..Len(p) : PathUnescape(p)[i] = p[i]
          BY <3>4, <5>2, OnceFacts
        <5> QED  BY <3>4, <5>3, SeqEqual DEF Segment
      <4>2. fold(x) \in Segment /\ fold(fold(x)) = fold(x)
        BY <3>3, FoldFacts, FoldTwice
      <4>3. Fields(fold(p)) \subseteq Fields(fold(x))
        BY <3>2, <4>2, FoldOfField
      <4> QED  BY <3>1, <3>2, <4>1, <4>3 DEF Fine
    <3> QED  BY <3>6, <3>7
  <2> QED  BY <2>1, <2>2, <2>3 DEF Covered
<1> QED  BY <1>2, <1>3, <1>4, <1>5 DEF Reread

\* No text that is covered is what upstreams are to be kept from.
LEMMA CoveredIsHarmless ==
    ASSUME NEW s \in Segment, checkComponent(s), NEW t, Covered(t, s)
    PROVE  ~HasNUL(t) /\ ~DotsAndSpaces(t)
<1>1. /\ t \in Segment /\ t # <<>> /\ Fields(fold(t)) \subseteq Fine(s)
      /\ Len(t) \in Nat /\ DOMAIN t = 1..Len(t) /\ \A i \in 1..Len(t) : t[i] \in Character
  BY DEF Covered, Segment
<1>2. /\ fold(t) \in Segment /\ Len(fold(t)) = Len(t)
      /\ \A i \in 1..Len(t) : fold(t)[i] = Folded(t[i])
  BY <1>1, FoldFacts
<1>3. ASSUME NEW a \in 1..Len(t), NEW b \in 1..Len(t), Run(fold(t), a, b)
      PROVE  /\ ~DotsAndSpaces(SubSeq(fold(t), a, b))
             /\ \A i \in a..b : fold(t)[i] # [c |-> "NUL", n |-> 0]
  <2> DEFINE q == SubSeq(fold(t), a, b)
  <2>1. q \in Fields(fold(t))
    BY <1>2, <1>3, FieldsAreRuns
  <2>2. PICK x \in Checked(s) : q \in Fields(fold(x))
    BY <1>1, <2>1 DEF Fine
  <2>3. x \in Segment /\ ~Dangerous(x)
    BY <2>2, CheckedFacts
  <2>4. ~HasNUL(fold(x)) /\ ~DotsAndSpaces(q)
    BY <2>2, <2>3 DEF Dangerous
  <2>5. a <= b /\ Len(q) = b - a + 1 /\ \A i \in 1..(b - a + 1) : q[i] = fold(t)[a + i - 1]
    BY <1>2, <1>3, PartFacts DEF Run
  <2> HIDE DEF q
  <2>6. fold(x) \in Segment
    BY <2>3, FoldFacts
  <2>7. PICK c \in 1..Len(fold(x)), d \in 1..Len(fold(x)) :
           Run(fold(x), c, d) /\ q = SubSeq(fold(x), c, d)
    BY <2>2, <2>6, FieldsAreRuns
  <2>8. c <= d /\ Len(q) = d - c + 1 /\ \A i \in 1..(d - c + 1) : q[i] = fold(x)[c + i - 1]
    BY <2>6, <2>7, PartFacts DEF Run
  <2>9. ASSUME NEW i \in a..b PROVE fold(t)[i] # [c |-> "NUL", n |-> 0]
    <3> DEFINE k == i - a + 1
    <3>1. k \in 1..(b - a + 1) /\ a + k - 1 = i
      BY <2>5
    <3>2. k \in 1..(d - c + 1) /\ c + k - 1 \in 1..Len(fold(x))
      <4>1. b - a + 1 = d - c + 1
        BY <2>5, <2>8
      <4>2. Len(fold(x)) \in Nat
        BY <2>6 DEF Segment
      <4> QED  BY <3>1, <4>1, <4>2
    <3> HIDE DEF k
    <3>3. fold(t)[i] = fold(x)[c + k - 1]
      BY <2>5, <2>8, <3>1, <3>2
    <3>4. c + k - 1 \in DOMAIN fold(x)
      BY <2>6, <3>2 DEF Segment
    <3> QED  BY <2>4, <3>3, <3>4 DEF HasNUL
  <2> QED  BY <2>4, <2>9 DEF q
<1>4. ~HasNUL(t)
  <2> SUFFICES ASSUME NEW i \in 1..Len(t), t[i] = [c |-> "NUL", n |-> 0] PROVE FALSE
    BY <1>1 DEF HasNUL
  <2>1. fold(t)[i] = [c |-> "NUL", n |-> 0] /\ ~isSeparator(fold(t)[i])
    BY <1>1, <1>2, CharacterFacts
  <2>2. \A k \in i..i : ~isSeparator(fold(t)[k])
    BY <2>1
  <2>3. PICK first \in 1..i, last \in i..Len(t) : Run(fold(t), first, last)
    BY <1>2, <2>2, InRun
  <2>4. first \in 1..Len(t) /\ last \in 1..Len(t) /\ i \in first..last
    BY <1>1
  <2> QED  BY <1>3, <2>1, <2>3, <2>4
<1>5. ~DotsAndSpaces(t)
  <2> SUFFICES ASSUME DotsAndSpaces(t) PROVE FALSE
    OBVIOUS
  <2>1. ASSUME NEW i \in 1..Len(t) PROVE fold(t)[i] = t[i] /\ ~isSeparator(fold(t)[i])
    <3>1. t[i] \in [c : {".", "..", "space"}, n : {0}]
      BY <1>1 DEF DotsAndSpaces
    <3> QED  BY <1>1, <1>2, <3>1, CharacterFacts
  <2>2. fold(t) = t
    BY <1>1, <1>2, <2>1, SeqEqual DEF Segment
  <2>3. 1 \in 1..Len(t) /\ Len(t) \in 1..Len(t)
    BY <1>1
  <2>4. Run(fold(t), 1, Len(t))
    BY <1>2, <2>1, <2>3 DEF Run
  <2>5. SubSeq(t, 1, Len(t)) = t
    BY <1>1, SubSeqFull DEF Segment
  <2> QED  BY <1>3, <2>2, <2>3, <2>4, <2>5
<1> QED  BY <1>4, <1>5

\* What some texts are read as.
Rereads(S) == UNION {Reread(x) : x \in S}

(* checkComponent keeps its promise: whatever a segment that it accepts is   *)
(* read as, however often it is decoded, split or folded, it is neither a   *)
(* dot segment nor has NUL.  It looks at what the segment is after up to    *)
(* two decodings, and refuses what could be decoded once more.              *)
THEOREM HarmlessReadings ==
    ASSUME NEW s \in Segment, s # <<>>, checkComponent(s), NEW t \in Readings(s)
    PROVE  ~HasNUL(t) /\ ~DotsAndSpaces(t)
<1> DEFINE n == Rereadings
           Stepped(f, k) == f = [i \in 0..k |-> IF i = 0 THEN {s}
                                               ELSE Rereads(f[i - 1])]
           read == CHOOSE f : Stepped(f, n)
<1>1. n \in Nat /\ n \in 0..n
  BY RereadingsAssumption
<1>2. t \in read[n]
  BY DEF Readings, Rereads
<1> HIDE DEF n, read
<1>3. \A k \in 0..n : \E f : Stepped(f, k)
  <2> DEFINE missing == {k \in 0..n : ~ \E f : Stepped(f, k)}
  <2> SUFFICES ASSUME missing # {} PROVE FALSE
    OBVIOUS
  <2>1. missing \in SUBSET Nat
    BY <1>1
  <2>2. PICK k \in missing : \A j \in missing : k <= j
    <3> HIDE DEF missing
    <3> QED  BY <2>1, Least
  <2>3. k # 0
    <3>1. Stepped([i \in {0} |-> {s}], 0)
      OBVIOUS
    <3> QED  BY <3>1
  <2>4. k - 1 \in 0..n /\ k - 1 \notin missing
    <3>1. k \in 0..n
      BY <2>2
    <3>2. k - 1 \in 0..n /\ ~(k <= k - 1)
      BY <1>1, <2>3, <3>1
    <3> HIDE DEF missing
    <3> QED  BY <2>2, <3>2
  <2>5. PICK f : Stepped(f, k - 1)
    BY <2>4
  <2> DEFINE g == [i \in 0..k |-> IF i < k THEN f[i] ELSE Rereads(f[k - 1])]
  <2>6. \A i \in 0..k : g[i] = IF i = 0 THEN {s} ELSE Rereads(g[i - 1])
    <3>1. TAKE i \in 0..k
    <3>2. CASE i = k
      BY <1>1, <2>2, <2>3, <3>2
    <3>3. CASE i < k
      <4>1. i \in 0..(k - 1)
        BY <1>1, <2>2, <3>3
      <4>2. f[i] = IF i = 0 THEN {s} ELSE Rereads(f[i - 1])
        BY <2>5, <4>1
      <4> QED  BY <1>1, <2>2, <3>3, <4>2
    <3> QED  BY <1>1, <2>2, <3>2, <3>3
  <2>7. Stepped(g, k)
    <3>1. g = [i \in 0..k |-> g[i]]
      OBVIOUS
    <3> HIDE DEF g
    <3> QED  BY <2>6, <3>1
  <2> QED  BY <2>2, <2>7
<1>4. Stepped(read, n)
  <2>1. \E f : Stepped(f, n)
    BY <1>1, <1>3
  <2> HIDE DEF Stepped
  <2> QED  BY <2>1 DEF read
<1>5. \A i \in 0..n : read[i] = IF i = 0 THEN {s} ELSE Rereads(read[i - 1])
  BY <1>4
<1>6. \A k \in 0..n : \A x \in read[k] : Covered(x, s)
  <2> DEFINE wrong == {k \in 0..n : ~ \A x \in read[k] : Covered(x, s)}
  <2> SUFFICES ASSUME wrong # {} PROVE FALSE
    OBVIOUS
  <2>1. wrong \in SUBSET Nat
    BY <1>1
  <2>2. PICK k \in wrong : \A j \in wrong : k <= j
    <3> HIDE DEF wrong
    <3> QED  BY <2>1, Least
  <2>3. k # 0
    <3>1. read[0] = {s}
      BY <1>1, <1>5
    <3>2. s \in Checked(s)
      BY CheckedFacts
    <3>3. Covered(s, s)
      BY <3>2 DEF Covered, Fine
    <3> QED  BY <2>2, <3>1, <3>3
  <2>4. k - 1 \in 0..n /\ k - 1 \notin wrong
    <3>1. k \in 0..n
      BY <2>2
    <3>2. k - 1 \in 0..n /\ ~(k <= k - 1)
      BY <1>1, <2>3, <3>1
    <3> HIDE DEF wrong
    <3> QED  BY <2>2, <3>2
  <2>5. \A x \in read[k - 1] : Covered(x, s)
    BY <2>4
  <2>6. read[k] = Rereads(read[k - 1])
    BY <1>5, <2>2, <2>3
  <2>7. \A x \in read[k] : Covered(x, s)
    BY <2>5, <2>6, CoveredReread DEF Rereads
  <2> QED  BY <2>2, <2>7
<1> QED  BY <1>1, <1>2, <1>6, CoveredIsHarmless

-----------------------------------------------------------------------------
(* What config.Parse accepts.                                               *)

\* The upstreams and mounts of an accepted file.
Configured(c) ==
    /\ \A up \in DOMAIN c.base : c.base[up] \in Seq(Name) /\ SafeNames(c.base[up])
    /\ \A u \in DOMAIN c.mounts :
          /\ IsFiniteSet(c.mounts[u])
          /\ PrefixFree(c.mounts[u])
          /\ \A m \in c.mounts[u] :
                /\ m # NoMount
                /\ m.path \in Seq(Name)
                /\ \A i \in 1..Len(m.path) : checkComponent(m.path[i])
                /\ m.target \in Seq(Name)
                /\ SafeNames(m.target)
                /\ m.upstream \in DOMAIN c.base

\* SplitLiteral returns names that a client can ask for.
LEMMA SplitLiteralFacts ==
    ASSUME NEW literal \in Seq(Segment), SplitLiteral(literal).ok
    PROVE  LET segs == SplitLiteral(literal).segs
           IN  segs \in Seq(Name) /\ \A i \in 1..Len(segs) : checkComponent(segs[i])
<1> DEFINE trimmed == IF Len(literal) > 1 /\ IsDir(literal) THEN DropLast(literal)
                      ELSE literal
<1>1. Len(literal) \in Nat
  OBVIOUS
<1>2. trimmed \in Seq(Segment)
  <2>1. CASE Len(literal) > 1
    <3>1. Len(literal) - 1 \in 0..Len(literal)
      BY <1>1, <2>1
    <3> QED  BY <3>1, BeginningFacts DEF DropLast
  <2> QED  BY <2>1
<1>3. SplitLiteral(literal) =
         IF literal = <<>> THEN NotOK
         ELSE IF trimmed = <<<<>>>> THEN [ok |-> TRUE, segs |-> <<>>]
         ELSE IF \E i \in DOMAIN trimmed :
                    trimmed[i] \in {<<>>, dot, dotdot} \/ ~checkComponent(trimmed[i])
         THEN NotOK
         ELSE [ok |-> TRUE, segs |-> trimmed]
  BY DEF SplitLiteral
<1> HIDE DEF trimmed
<1>4. literal # <<>>
  BY <1>3 DEF NotOK
<1>5. CASE trimmed = <<<<>>>>
  <2>1. SplitLiteral(literal).segs = <<>>
    BY <1>3, <1>4, <1>5
  <2>2. <<>> \in Seq(Name) /\ Len(<<>>) = 0
    OBVIOUS
  <2> QED  BY <2>1, <2>2
<1>6. CASE trimmed # <<<<>>>>
  <2>1. \A i \in DOMAIN trimmed :
           trimmed[i] \notin {<<>>, dot, dotdot} /\ checkComponent(trimmed[i])
    BY <1>3, <1>4, <1>6 DEF NotOK
  <2>2. SplitLiteral(literal).segs = trimmed
    BY <1>3, <1>4, <1>6, <2>1
  <2>3. Len(trimmed) \in Nat /\ DOMAIN trimmed = 1..Len(trimmed)
        /\ \A i \in 1..Len(trimmed) : trimmed[i] \in Segment
    BY <1>2
  <2>4. \A i \in 1..Len(trimmed) : trimmed[i] \in Name
    BY <2>1, <2>3 DEF Name
  <2>5. trimmed \in Seq(Name)
    <3>1. trimmed \in [1..Len(trimmed) -> Name]
      BY <1>2, <2>3, <2>4
    <3> QED  BY <2>3, <3>1, SeqDef
  <2> QED  BY <2>1, <2>2, <2>3, <2>5
<1> QED  BY <1>5, <1>6

\* The base path of an upstream.
LEMMA BasePathType ==
    ASSUME NEW raw, TypedUpstream(raw), AcceptedUpstream(raw)
    PROVE  basePath(raw) \in Seq(Name) /\ SafeNames(basePath(raw))
<1>1. CASE raw.url = {}
  <2>1. basePath(raw) = <<>> /\ Len(<<>>) = 0
    BY <1>1 DEF basePath
  <2> QED  BY <2>1 DEF SafeNames
<1>2. CASE raw.url # {}
  <2> DEFINE u == CHOOSE v \in raw.url : TRUE
  <2>1. u \in raw.url
    BY <1>2
  <2>2. \E v \in raw.url : Parse(URLPath(v)).ok
    BY <1>2 DEF AcceptedUpstream, RemoteUpstream, LocalUpstream
  <2>3. Parse(URLPath(u)).ok
    BY <2>1, <2>2 DEF TypedUpstream, AtMostOne
  <2>4. URLPath(u) \in Seq(Segment)
    <3>1. u.path \in Seq(Segment)
      BY <2>1 DEF TypedUpstream
    <3>2. <<>> \in Segment
      BY DEF Segment
    <3>3. <<<<>>>> \in Seq(Segment)
      BY <3>2
    <3> QED  BY <3>1, <3>3 DEF URLPath
  <2>5. basePath(raw) = Parse(URLPath(u)).segs
    BY <1>2 DEF basePath
  <2> HIDE DEF u
  <2> QED  BY <2>3, <2>4, <2>5, ParseType, ParseSafe
<1> QED  BY <1>1, <1>2

\* The mounts of one user.
LEMMA MountsFacts ==
    ASSUME NEW raw, NEW upstreams, TypedUser(raw), AcceptedUser(raw, upstreams)
    PROVE  LET M == Range(parseMounts(raw.mounts))
           IN  /\ IsFiniteSet(M)
               /\ PrefixFree(M)
               /\ \A m \in M :
                     /\ m # NoMount
                     /\ m.path \in Seq(Name)
                     /\ \A i \in 1..Len(m.path) : checkComponent(m.path[i])
                     /\ m.target \in Seq(Name)
                     /\ SafeNames(m.target)
                     /\ m.upstream \in upstreams
<1> DEFINE written == parseMounts(raw.mounts)
           D == DOMAIN raw.mounts
           M == Range(written)
<1>1. DOMAIN written = D /\ \A path \in D : written[path] = parseMount(path, raw.mounts[path])
  BY DEF parseMounts
<1>2. M = {written[path] : path \in D}
  BY <1>1 DEF Range
<1>3. IsFiniteSet(D)
  BY DEF TypedUser
<1>4. IsFiniteSet(M)
  <2>1. [path \in D |-> written[path]] \in Surjection(D, M)
    BY <1>2 DEF Surjection
  <2> HIDE DEF written, D, M
  <2> QED  BY <1>3, <2>1, FS_Surjection
<1>5. ASSUME NEW path \in D
      PROVE  LET m == parseMount(path, raw.mounts[path])
             IN  /\ m # NoMount
                 /\ m.path \in Seq(Name)
                 /\ \A i \in 1..Len(m.path) : checkComponent(m.path[i])
                 /\ m.target \in Seq(Name)
                 /\ SafeNames(m.target)
                 /\ m.upstream \in upstreams
  <2> DEFINE target == raw.mounts[path]
             up == CHOOSE name \in target.upstream : TRUE
  <2>1. path \in Seq(Segment) /\ target.path \in Seq(Segment) /\ AtMostOne(target.upstream)
    BY DEF TypedUser
  <2>2. /\ SplitLiteral(path).ok /\ SplitLiteral(target.path).ok
        /\ \E name \in target.upstream : name \in upstreams
    BY DEF AcceptedUser, AcceptedMount
  <2>3. up \in upstreams
    BY <2>1, <2>2 DEF AtMostOne
  <2>4. parseMount(path, target) = [path |-> SplitLiteral(path).segs, upstream |-> up,
                                    target |-> SplitLiteral(target.path).segs]
    BY DEF parseMount
  <2> HIDE DEF target, up
  <2>5. SplitLiteral(path).segs \in Seq(Name)
        /\ \A i \in 1..Len(SplitLiteral(path).segs) : checkComponent(SplitLiteral(path).segs[i])
    BY <2>1, <2>2, SplitLiteralFacts
  <2>6. SplitLiteral(target.path).segs \in Seq(Name) /\ SafeNames(SplitLiteral(target.path).segs)
    BY <2>1, <2>2, SplitLiteralFacts DEF SafeNames
  <2>7. [path |-> SplitLiteral(path).segs, upstream |-> up,
         target |-> SplitLiteral(target.path).segs] # NoMount
    BY DEF NoMount
  <2> QED  BY <2>3, <2>4, <2>5, <2>6, <2>7 DEF target
<1>6. PrefixFree(M)
  <2>1. PICK sorted \in Sorted(written) : ~Overlap(sorted)
    BY DEF AcceptedUser
  <2>2. M = {written[path] : path \in DOMAIN written}
    BY <1>1, <1>2
  <2>3. \A path \in DOMAIN written : written[path].path \in Seq(Segment)
    <3>1. Seq(Name) \subseteq Seq(Segment)
      BY DEF Name
    <3>2. \A path \in D : parseMount(path, raw.mounts[path]).path \in Seq(Name)
      BY <1>5
    <3> HIDE DEF written, D
    <3> QED  BY <1>1, <3>1, <3>2
  <2>4. IsFiniteSet(DOMAIN written)
    BY <1>1, <1>3
  <2> HIDE DEF written, D, M
  <2> QED  BY <2>1, <2>2, <2>3, <2>4, AcceptedIsPrefixFree
<1> QED  BY <1>1, <1>2, <1>4, <1>5, <1>6

LEMMA AcceptedIsConfigured ==
    ASSUME NEW file, TypedFile(file), Accepted(file)
    PROVE  Configured(parse(file))
<1> DEFINE c == parse(file)
<1>1. /\ DOMAIN c.base = DOMAIN file.upstreams
      /\ \A up \in DOMAIN c.base : c.base[up] = basePath(file.upstreams[up])
      /\ DOMAIN c.mounts = DOMAIN file.users
      /\ \A u \in DOMAIN c.mounts : c.mounts[u] = Range(parseMounts(file.users[u].mounts))
  BY DEF parse
<1> HIDE DEF c
<1>2. \A up \in DOMAIN c.base : c.base[up] \in Seq(Name) /\ SafeNames(c.base[up])
  BY <1>1, BasePathType DEF TypedFile, Accepted
<1>3. ASSUME NEW u \in DOMAIN c.mounts
      PROVE  /\ IsFiniteSet(c.mounts[u])
             /\ PrefixFree(c.mounts[u])
             /\ \A m \in c.mounts[u] :
                   /\ m # NoMount
                   /\ m.path \in Seq(Name)
                   /\ \A i \in 1..Len(m.path) : checkComponent(m.path[i])
                   /\ m.target \in Seq(Name)
                   /\ SafeNames(m.target)
                   /\ m.upstream \in DOMAIN c.base
  <2>1. TypedUser(file.users[u]) /\ AcceptedUser(file.users[u], DOMAIN file.upstreams)
    BY <1>1 DEF TypedFile, Accepted
  <2>2. c.mounts[u] = Range(parseMounts(file.users[u].mounts))
    BY <1>1
  <2> QED  BY <1>1, <2>1, <2>2, MountsFacts
<1> QED  BY <1>2, <1>3 DEF Configured, c

-----------------------------------------------------------------------------
(* PROPFIND bodies: what RFC 4918 has in a body and what ParsePropfind has   *)
(* found after so many of its tokens.                                       *)

\* Elements are opened and closed one at a time.
LEMMA LevelSteps ==
    ASSUME NEW body \in Seq(Token), NEW n \in 0..Len(body)
    PROVE  /\ Level(body, 0) = 0
           /\ Level(body, n) \in Int
           /\ n < Len(body) =>
                 Level(body, n + 1) = Level(body, n) + (IF body[n + 1].t = "start" THEN 1
                                                        ELSE IF body[n + 1].t = "end" THEN -1 ELSE 0)
<1> DEFINE of(t, k) == {i \in 1..k : body[i].t = t}
<1>1. Len(body) \in Nat /\ n \in Nat
  OBVIOUS
<1>2. ASSUME NEW t, NEW k \in Nat
      PROVE  /\ IsFiniteSet(of(t, k)) /\ Cardinality(of(t, k)) \in Nat
             /\ of(t, k + 1) = IF body[k + 1].t = t THEN of(t, k) \cup {k + 1} ELSE of(t, k)
             /\ k + 1 \notin of(t, k)
  <2>1. IsFiniteSet(1..k)
    BY FS_Interval
  <2>2. IsFiniteSet(of(t, k))
    BY <2>1, FS_Subset
  <2>3. 1..(k + 1) = (1..k) \cup {k + 1} /\ k + 1 \notin 1..k
    OBVIOUS
  <2>4. of(t, k + 1) = IF body[k + 1].t = t THEN of(t, k) \cup {k + 1} ELSE of(t, k)
    BY <2>3
  <2>5. Cardinality(of(t, k)) \in Nat
    BY <2>2, FS_CardinalityType
  <2> QED  BY <2>2, <2>3, <2>4, <2>5
<1>3. \A k \in Nat : Level(body, k) = Cardinality(of("start", k)) - Cardinality(of("end", k))
  BY DEF Level
<1>4. of("start", 0) = {} /\ of("end", 0) = {}
  OBVIOUS
<1> HIDE DEF of
<1>5. ASSUME NEW t
      PROVE  Cardinality(of(t, n + 1)) = Cardinality(of(t, n)) + (IF body[n + 1].t = t THEN 1 ELSE 0)
  <2>1. CASE body[n + 1].t = t
    <3>1. of(t, n + 1) = of(t, n) \cup {n + 1} /\ n + 1 \notin of(t, n) /\ IsFiniteSet(of(t, n))
      BY <1>1, <1>2, <2>1
    <3> QED  BY <2>1, <3>1, FS_AddElement
  <2>2. CASE body[n + 1].t # t
    <3>1. of(t, n + 1) = of(t, n) /\ Cardinality(of(t, n)) \in Nat
      BY <1>1, <1>2, <2>2
    <3> QED  BY <2>2, <3>1
  <2> QED  BY <2>1, <2>2
<1>6. Level(body, 0) = 0
  <2>1. Cardinality({}) = 0
    BY FS_EmptySet
  <2>2. Level(body, 0) = Cardinality(of("start", 0)) - Cardinality(of("end", 0))
    BY <1>3
  <2>3. Level(body, 0) = 0 - 0
    BY <1>4, <2>1, <2>2, Zenon
  <2> QED  BY <2>3
<1>7. Cardinality(of("start", n)) \in Nat /\ Cardinality(of("end", n)) \in Nat
  BY <1>1, <1>2
<1>8. Level(body, n) \in Int
  BY <1>1, <1>3, <1>7
<1>9. Level(body, n + 1) = Level(body, n) + (IF body[n + 1].t = "start" THEN 1
                                             ELSE IF body[n + 1].t = "end" THEN -1 ELSE 0)
  <2>1. Level(body, n + 1) = Cardinality(of("start", n + 1)) - Cardinality(of("end", n + 1))
        /\ Level(body, n) = Cardinality(of("start", n)) - Cardinality(of("end", n))
    BY <1>1, <1>3
  <2>2. Cardinality(of("start", n + 1)) = Cardinality(of("start", n)) + (IF body[n + 1].t = "start" THEN 1 ELSE 0)
        /\ Cardinality(of("end", n + 1)) = Cardinality(of("end", n)) + (IF body[n + 1].t = "end" THEN 1 ELSE 0)
    BY <1>5
  <2> QED  BY <1>7, <2>1, <2>2
<1> QED  BY <1>6, <1>8, <1>9

\* There is one root at most, and nothing is open before it.
LEMMA RootFacts ==
    ASSUME NEW body \in Seq(Token), NEW r \in PropfindRoots(body)
    PROVE  /\ r \in 1..Len(body) /\ body[r].t = "start"
           /\ Level(body, r) = 1
           /\ \A i \in 1..Len(body) : body[i].t = "start" => r <= i
           /\ PropfindRoots(body) = {r}
<1>1. /\ r \in 1..Len(body) /\ body[r].t = "start"
      /\ \A k \in 1..(r - 1) : body[k].t \in {"blank", "other"}
  BY DEF PropfindRoots
<1>2. Len(body) \in Nat /\ r - 1 \in 0..Len(body) /\ r - 1 < Len(body) /\ r - 1 + 1 = r
  BY <1>1
<1>3. Level(body, r - 1) = 0
  <2>1. {i \in 1..(r - 1) : body[i].t = "start"} = {} /\ {i \in 1..(r - 1) : body[i].t = "end"} = {}
    BY <1>1
  <2>2. Cardinality({}) = 0
    BY FS_EmptySet
  <2>3. Level(body, r - 1) = 0 - 0
    BY <2>1, <2>2, Zenon DEF Level
  <2> QED  BY <2>3
<1>4. Level(body, r) = 1
  BY <1>1, <1>2, <1>3, LevelSteps
<1>5. ASSUME NEW i \in 1..Len(body), body[i].t = "start" PROVE r <= i
  <2>1. ~(i \in 1..(r - 1))
    BY <1>1, <1>5
  <2> QED  BY <1>1, <2>1
<1>6. ASSUME NEW s \in PropfindRoots(body) PROVE s = r
  <2>1. /\ s \in 1..Len(body) /\ body[s].t = "start"
        /\ \A k \in 1..(s - 1) : body[k].t \in {"blank", "other"}
    BY DEF PropfindRoots
  <2>2. r <= s
    BY <1>5, <2>1
  <2>3. ~(r \in 1..(s - 1))
    BY <1>1, <2>1
  <2> QED  BY <1>1, <2>1, <2>2, <2>3
<1> QED  BY <1>1, <1>4, <1>5, <1>6

FormsTo(body, n) == {f \in Forms(body) : f <= n}
ChildrenTo(body, f, n) == {i \in 1..n : Child(body, f, i)}

\* A form is an element right in the root.
LEMMA FormFacts ==
    ASSUME NEW body \in Seq(Token), NEW r \in PropfindRoots(body), NEW f
    PROVE  f \in Forms(body) <=>
              /\ f \in 1..Len(body) /\ Child(body, r, f)
              /\ body[f].name \in {DAV("allprop"), DAV("propname"), DAV("prop")}
BY RootFacts DEF Forms

\* A form is open where it starts, and starts within the root.
LEMMA FormStarts ==
    ASSUME NEW body \in Seq(Token), NEW r \in PropfindRoots(body), NEW f \in Forms(body)
    PROVE  f \in (r + 1)..Len(body) /\ body[f].t = "start" /\ Level(body, f) = 2
<1>1. Child(body, r, f)
  BY FormFacts
<1> QED  BY <1>1, RootFacts DEF Child

\* While the root is open, an element is a child of it if nothing else is open.
LEMMA ChildOfRoot ==
    ASSUME NEW body \in Seq(Token), NEW r \in PropfindRoots(body), NEW n \in r..Len(body),
           \A k \in r..n : Level(body, k) >= 1, n < Len(body)
    PROVE  Child(body, r, n + 1) <=> body[n + 1].t = "start" /\ Level(body, n) = 1
<1>1. /\ r \in 1..Len(body) /\ Level(body, r) = 1 /\ n \in 0..Len(body)
      /\ Len(body) \in Nat /\ Level(body, n) \in Int
  BY RootFacts, LevelSteps
<1>2. CASE body[n + 1].t = "start"
  <2>1. Level(body, n + 1) = Level(body, n) + 1
    BY <1>1, <1>2, LevelSteps
  <2>2. Level(body, n) >= 1 /\ n + 1 \in (r + 1)..Len(body)
    BY <1>1
  <2>3. \A k \in r..(n + 1) : Level(body, k) >= Level(body, r)
    <3>1. TAKE k \in r..(n + 1)
    <3>2. CASE k = n + 1
      BY <1>1, <2>1, <2>2, <3>2
    <3>3. CASE k # n + 1
      <4>1. k \in r..n
        BY <1>1, <3>3
      <4> QED  BY <1>1, <4>1
    <3> QED  BY <3>2, <3>3
  <2>4. Level(body, n + 1) = Level(body, r) + 1 <=> Level(body, n) = 1
    BY <1>1, <2>1
  <2> QED  BY <1>2, <2>2, <2>3, <2>4 DEF Child
<1>3. CASE body[n + 1].t # "start"
  BY <1>3 DEF Child
<1> QED  BY <1>2, <1>3

\* While a form is open, an element is a child of it if nothing else is open in it.
LEMMA ChildOfForm ==
    ASSUME NEW body \in Seq(Token), NEW r \in PropfindRoots(body), NEW f \in Forms(body),
           NEW n \in f..Len(body), n < Len(body)
    PROVE  Child(body, f, n + 1) <=> /\ body[n + 1].t = "start" /\ Level(body, n) = 2
                                     /\ \A k \in f..n : Level(body, k) >= 2
<1>1. /\ f \in 1..Len(body) /\ Level(body, f) = 2 /\ n \in 0..Len(body)
      /\ Len(body) \in Nat /\ Level(body, n) \in Int
  BY RootFacts, FormStarts, LevelSteps
<1>2. CASE body[n + 1].t = "start"
  <2>1. Level(body, n + 1) = Level(body, n) + 1
    BY <1>1, <1>2, LevelSteps
  <2>2. n + 1 \in (f + 1)..Len(body)
    BY <1>1
  <2>3. (\A k \in f..n : Level(body, k) >= 2) => \A k \in f..(n + 1) : Level(body, k) >= 2
    <3>1. HAVE \A k \in f..n : Level(body, k) >= 2
    <3>2. TAKE k \in f..(n + 1)
    <3>3. CASE k = n + 1
      <4>1. Level(body, n) >= 2
        BY <1>1, <3>1
      <4> QED  BY <1>1, <2>1, <3>3, <4>1
    <3>4. CASE k # n + 1
      <4>1. k \in f..n
        BY <1>1, <3>4
      <4> QED  BY <3>1, <4>1
    <3> QED  BY <3>3, <3>4
  <2>4. (\A k \in f..(n + 1) : Level(body, k) >= 2) => \A k \in f..n : Level(body, k) >= 2
    BY <1>1
  <2>5. Level(body, n + 1) = Level(body, f) + 1 <=> Level(body, n) = 2
    BY <1>1, <2>1
  <2> QED  BY <1>1, <1>2, <2>2, <2>3, <2>4, <2>5 DEF Child
<1>3. CASE body[n + 1].t # "start"
  BY <1>3 DEF Child
<1> QED  BY <1>2, <1>3

\* What one more token adds to the forms and to the children of one.
LEMMA FormsGrow ==
    ASSUME NEW body \in Seq(Token), NEW r \in PropfindRoots(body), NEW n \in r..Len(body),
           \A k \in r..n : Level(body, k) >= 1, n < Len(body)
    PROVE  LET new == /\ body[n + 1].t = "start" /\ Level(body, n) = 1
                      /\ body[n + 1].name \in {DAV("allprop"), DAV("propname"), DAV("prop")}
           IN  /\ FormsTo(body, n + 1) = IF new THEN FormsTo(body, n) \cup {n + 1} ELSE FormsTo(body, n)
               /\ n + 1 \notin FormsTo(body, n)
               /\ IsFiniteSet(FormsTo(body, n))
               /\ Cardinality(FormsTo(body, n)) \in Nat
<1>1. n \in Nat /\ n + 1 \in 1..Len(body)
  BY RootFacts
<1>2. n + 1 \in Forms(body) <=>
         /\ body[n + 1].t = "start" /\ Level(body, n) = 1
         /\ body[n + 1].name \in {DAV("allprop"), DAV("propname"), DAV("prop")}
  BY <1>1, FormFacts, ChildOfRoot
<1>3. \A f \in Forms(body) : f \in Nat
  BY FormFacts
<1>4. FormsTo(body, n + 1) = IF n + 1 \in Forms(body) THEN FormsTo(body, n) \cup {n + 1} ELSE FormsTo(body, n)
  BY <1>1, <1>3 DEF FormsTo
<1>5. n + 1 \notin FormsTo(body, n)
  BY <1>1 DEF FormsTo
<1>6. IsFiniteSet(FormsTo(body, n))
  <2>1. FormsTo(body, n) \subseteq 1..n
    BY <1>1, FormFacts DEF FormsTo
  <2>2. IsFiniteSet(1..n)
    BY <1>1, FS_Interval
  <2> QED  BY <2>1, <2>2, FS_Subset
<1> QED  BY <1>2, <1>4, <1>5, <1>6, FS_CardinalityType

LEMMA ChildrenGrow ==
    ASSUME NEW body \in Seq(Token), NEW r \in PropfindRoots(body), NEW n \in r..Len(body),
           NEW f \in FormsTo(body, n), n < Len(body)
    PROVE  LET new == /\ body[n + 1].t = "start" /\ Level(body, n) = 2
                      /\ \A k \in f..n : Level(body, k) >= 2
           IN  ChildrenTo(body, f, n + 1)
                  = IF new THEN ChildrenTo(body, f, n) \cup {n + 1} ELSE ChildrenTo(body, f, n)
<1>1. /\ n \in Nat /\ n + 1 \in 1..Len(body) /\ f \in Forms(body)
      /\ n \in f..Len(body) /\ 1..(n + 1) = (1..n) \cup {n + 1}
  BY RootFacts, FormStarts DEF FormsTo
<1>2. Child(body, f, n + 1) <=> /\ body[n + 1].t = "start" /\ Level(body, n) = 2
                                /\ \A k \in f..n : Level(body, k) >= 2
  BY <1>1, ChildOfForm
<1>3. ChildrenTo(body, f, n + 1) = IF Child(body, f, n + 1) THEN ChildrenTo(body, f, n) \cup {n + 1}
                                   ELSE ChildrenTo(body, f, n)
  BY <1>1 DEF ChildrenTo
<1> QED  BY <1>2, <1>3

\* Nothing is in a form that starts now.
LEMMA NewFormIsEmpty ==
    ASSUME NEW body \in Seq(Token), NEW f \in Nat
    PROVE  ChildrenTo(body, f, f) = {}
BY DEF ChildrenTo, Child

-----------------------------------------------------------------------------
\* What ParsePropfind knows after so many tokens.

Place(p) == IF p.at = "skip" THEN p.back ELSE p.at

Kinds == {"allprop", "propname", "prop"}
Element == [space : STRING, local : STRING]

\* The types of what it knows.
Known(p) ==
    /\ p \in [at : {"start", "propfind", "prop", "skip", "good", "bad"}, open : Nat,
              back : {"start", "propfind", "prop"}, kind : Kinds, names : Seq(Element), forms : Nat]
    /\ IsInjective(p.names)

\* The root is open.
RootOpen(body, n) ==
    \E r \in PropfindRoots(body) : n \in r..Len(body) /\ \A k \in r..n : Level(body, k) >= 1

\* It is in the root, so many elements deep.
InRoot(body, n, p) ==
    /\ RootOpen(body, n)
    /\ Place(p) \in {"propfind", "prop"}
    /\ p.at = "skip" <=> p.open > 0
    /\ Level(body, n) = p.open + (IF Place(p) = "propfind" THEN 1 ELSE 2)

\* The names of the elements at some places.
NamesAt(body, places) == {body[i].name : i \in places}

\* The only form so far.
OneRead(body, n, p, f) ==
    /\ body[f].name = DAV(p.kind)
    /\ p.kind = "prop" =>
          /\ Range(p.names) = NamesAt(body, ChildrenTo(body, f, n))
          /\ Place(p) = "prop" <=> \A k \in f..n : Level(body, k) >= 2

\* The forms so far.
FormsRead(body, n, p) ==
    /\ p.forms = Cardinality(FormsTo(body, n))
    /\ Place(p) = "prop" => p.kind = "prop" /\ p.forms > 0
    /\ p.forms = 1 => \A f \in FormsTo(body, n) : OneRead(body, n, p, f)

\* All that was asked for.
Found(body, p) ==
    /\ \A f \in Forms(body) : body[f].name = DAV(p.kind)
    /\ p.kind = "prop" => Range(p.names) = Asked(body)

Reading(body, n, p) ==
    /\ Known(p)
    /\ p.at = "start" => p = Beginning /\ \A k \in 1..n : body[k].t \in {"blank", "other"}
    /\ p.at \in {"propfind", "prop", "skip"} => InRoot(body, n, p) /\ FormsRead(body, n, p)
    /\ p.at = "good" => WellFormed(body) /\ Found(body, p)
    /\ p.at = "bad" => ~WellFormed(body)

LEMMA RootStaysOpen ==
    ASSUME NEW body \in Seq(Token), NEW n, RootOpen(body, n), n < Len(body), Level(body, n + 1) >= 1
    PROVE  RootOpen(body, n + 1)
<1>1. PICK r \in PropfindRoots(body) : n \in r..Len(body) /\ \A k \in r..n : Level(body, k) >= 1
  BY DEF RootOpen
<1>2. r \in Nat /\ n + 1 \in r..Len(body) /\ \A k \in r..(n + 1) : k \in r..n \/ k = n + 1
  BY <1>1, RootFacts
<1>3. \A k \in r..(n + 1) : Level(body, k) >= 1
  BY <1>1, <1>2
<1> QED  BY <1>2, <1>3 DEF RootOpen

\* The root is open and ends here, or the body does: whether it is well-formed.
LEMMA RootNeverEnds ==
    ASSUME NEW body \in Seq(Token), RootOpen(body, Len(body))
    PROVE  ~WellFormed(body)
<1>1. PICK r \in PropfindRoots(body) : \A k \in r..Len(body) : Level(body, k) >= 1
  BY DEF RootOpen
<1>2. Level(body, r) = 1 /\ PropfindRoots(body) = {r} /\ r \in 1..Len(body)
  BY <1>1, RootFacts
<1>3. ASSUME NEW k \in r..Len(body) PROVE ~(Level(body, k) < 1)
  <2>1. k \in 0..Len(body)
    BY <1>2
  <2> QED  BY <1>1, <2>1, LevelSteps
<1> QED  BY <1>2, <1>3 DEF WellFormed

LEMMA RootEnds ==
    ASSUME NEW body \in Seq(Token), NEW n, RootOpen(body, n), n < Len(body),
           body[n + 1].t = "end", Level(body, n) = 1
    PROVE  /\ Forms(body) = FormsTo(body, n)
           /\ WellFormed(body) <=> Cardinality(FormsTo(body, n)) = 1
           /\ \A f \in Forms(body) :
                 ChildrenTo(body, f, n) = {k \in DOMAIN body : Child(body, f, k)}
<1>1. PICK r \in PropfindRoots(body) : n \in r..Len(body) /\ \A k \in r..n : Level(body, k) >= 1
  BY DEF RootOpen
<1>2. /\ Level(body, r) = 1 /\ PropfindRoots(body) = {r} /\ r \in 1..Len(body)
      /\ n \in 1..Len(body) /\ n + 1 \in 1..Len(body) /\ n \in 0..Len(body) /\ n \in Nat
      /\ n + 1 \in r..Len(body) /\ Len(body) \in Nat
  BY <1>1, RootFacts
<1>3. Level(body, n + 1) = 0
  BY <1>2, LevelSteps
<1>4. ASSUME NEW p \in 1..n, Level(body, p) >= 1, NEW k, Child(body, p, k) PROVE k <= n
  <2>1. /\ k \in (p + 1)..Len(body) /\ body[k].t = "start"
        /\ \A j \in p..k : Level(body, j) >= Level(body, p)
    BY <1>4 DEF Child
  <2>2. k # n + 1
    BY <2>1
  <2>3. ~(n + 1 \in p..k)
    <3>1. p \in 0..Len(body)
      BY <1>2
    <3>2. Level(body, p) \in Int
      BY <3>1, LevelSteps
    <3> QED  BY <1>3, <1>4, <2>1, <3>2
  <2> QED  BY <1>2, <2>1, <2>2, <2>3
<1>5. Forms(body) = FormsTo(body, n)
  <2>1. ASSUME NEW f \in Forms(body) PROVE f <= n
    BY <1>1, <1>2, <1>4, FormFacts
  <2> QED  BY <2>1 DEF FormsTo
<1>6. \E k \in r..Len(body) : Level(body, k) < Level(body, r)
  BY <1>2, <1>3
<1>7. WellFormed(body) <=> Cardinality(FormsTo(body, n)) = 1
  BY <1>2, <1>5, <1>6 DEF WellFormed
<1>8. ASSUME NEW f \in Forms(body)
      PROVE  ChildrenTo(body, f, n) = {k \in DOMAIN body : Child(body, f, k)}
  <2>1. f \in 1..n /\ Level(body, f) >= 1
    <3>1. f \in (r + 1)..Len(body) /\ Level(body, f) = 2
      BY FormStarts
    <3>2. f <= n
      BY <1>5 DEF FormsTo
    <3> QED  BY <1>2, <3>1, <3>2
  <2>2. \A k : Child(body, f, k) => k <= n /\ k \in 1..Len(body)
    <3>1. TAKE k
    <3>2. HAVE Child(body, f, k)
    <3>3. k \in (f + 1)..Len(body)
      BY <3>2 DEF Child
    <3> QED  BY <1>4, <2>1, <3>2, <3>3
  <2> QED  BY <1>2, <2>2 DEF ChildrenTo
<1> QED  BY <1>5, <1>7, <1>8

\* Nothing is found before the first form.
LEMMA NoRoot ==
    ASSUME NEW body \in Seq(Token), NEW n \in 0..Len(body), n < Len(body),
           \A k \in 1..n : body[k].t \in {"blank", "other"},
           body[n + 1].t \notin {"blank", "other"},
           ~(body[n + 1].t = "start" /\ body[n + 1].name = DAV("propfind"))
    PROVE  ~WellFormed(body)
<1>1. ASSUME NEW r \in PropfindRoots(body) PROVE FALSE
  <2>1. /\ r \in 1..Len(body) /\ body[r].t = "start" /\ body[r].name = DAV("propfind")
        /\ \A k \in 1..(r - 1) : body[k].t \in {"blank", "other"}
    BY DEF PropfindRoots
  <2>2. ~(r \in 1..n)
    BY <2>1
  <2>3. ~(n + 1 \in 1..(r - 1))
    BY <2>1
  <2>4. r = n + 1
    BY <2>1, <2>2, <2>3
  <2> QED  BY <2>1, <2>4
<1> QED  BY <1>1 DEF WellFormed

\* A token that starts neither a form nor what a prop asks for changes nothing
\* about the forms, if it does not leave the form.
LEMMA FormsStay ==
    ASSUME NEW body \in Seq(Token), NEW n, NEW p, NEW q, RootOpen(body, n), n < Len(body),
           FormsRead(body, n, p),
           q.kind = p.kind, q.names = p.names, q.forms = p.forms, Place(q) = Place(p),
           Place(p) = "prop" => Level(body, n + 1) >= 2,
           ~(/\ body[n + 1].t = "start" /\ Level(body, n) = 1
             /\ body[n + 1].name \in {DAV("allprop"), DAV("propname"), DAV("prop")}),
           ~(body[n + 1].t = "start" /\ Level(body, n) = 2 /\ Place(p) = "prop")
    PROVE  FormsRead(body, n + 1, q)
<1>1. PICK r \in PropfindRoots(body) : n \in r..Len(body) /\ \A k \in r..n : Level(body, k) >= 1
  BY DEF RootOpen
<1>2. FormsTo(body, n + 1) = FormsTo(body, n)
  BY <1>1, FormsGrow
<1>3. ASSUME p.forms = 1, NEW f \in FormsTo(body, n) PROVE OneRead(body, n + 1, q, f)
  <2>1. OneRead(body, n, p, f)
    BY <1>3 DEF FormsRead
  <2>2. f \in Nat /\ f <= n /\ n \in Nat
    BY <1>1, RootFacts, FormStarts DEF FormsTo
  <2>3. ASSUME p.kind = "prop"
        PROVE  /\ ChildrenTo(body, f, n + 1) = ChildrenTo(body, f, n)
               /\ Place(q) = "prop" <=> \A k \in f..(n + 1) : Level(body, k) >= 2
    <3>1. Place(p) = "prop" <=> \A k \in f..n : Level(body, k) >= 2
      BY <2>1, <2>3 DEF OneRead
    <3>2. ChildrenTo(body, f, n + 1) = ChildrenTo(body, f, n)
      BY <1>1, <3>1, ChildrenGrow
    <3>3. \A k : k \in f..(n + 1) <=> k \in f..n \/ k = n + 1
      BY <2>2
    <3>4. Place(p) = "prop" <=> \A k \in f..(n + 1) : Level(body, k) >= 2
      BY <3>1, <3>3
    <3> QED  BY <3>2, <3>4
  <2> QED  BY <2>1, <2>3 DEF OneRead
<1>4. Place(p) = "prop" => p.kind = "prop" /\ p.forms > 0
  BY DEF FormsRead
<1>5. p.forms = Cardinality(FormsTo(body, n))
  BY DEF FormsRead
<1> QED  BY <1>2, <1>3, <1>4, <1>5 DEF FormsRead

\* The cases of OnToken, before the root.
LEMMA ReadsBeginning ==
    ASSUME NEW body \in Seq(Token), Decodable(body), NEW n \in 0..Len(body), n < Len(body),
           NEW p, Reading(body, n, p), p.at = "start"
    PROVE  Reading(body, n + 1, OnToken(p, body[n + 1]))
<1> DEFINE token == body[n + 1]
           q == OnToken(p, token)
<1>1. p = Beginning /\ (\A k \in 1..n : body[k].t \in {"blank", "other"}) /\ Known(p)
  BY DEF Reading
<1>2. n + 1 \in 1..Len(body) /\ token \in Token
      /\ (\A k \in 1..(n + 1) : k \in 1..n \/ k = n + 1) /\ n + 1 - 1 = n
  OBVIOUS
<1>3. Level(body, n) = 0
  <2>1. {i \in 1..n : body[i].t = "start"} = {} /\ {i \in 1..n : body[i].t = "end"} = {}
    BY <1>1
  <2>2. Cardinality({}) = 0
    BY FS_EmptySet
  <2>3. Level(body, n) = 0 - 0
    BY <2>1, <2>2, Zenon DEF Level
  <2> QED  BY <2>3
<1>4. CASE token.t \in {"blank", "other"}
  <2>1. q = p
    BY <1>1, <1>4 DEF OnToken, Beginning
  <2>2. \A k \in 1..(n + 1) : body[k].t \in {"blank", "other"}
    BY <1>1, <1>2, <1>4
  <2>3. Reading(body, n + 1, p)
    BY <1>1, <2>2 DEF Reading, Beginning
  <2> QED  BY <2>1, <2>3
<1>5. CASE token.t \in {"text", "error"} \/ (token.t = "start" /\ token.name # DAV("propfind"))
  <2>1. q = [p EXCEPT !.at = "bad"]
    BY <1>1, <1>5 DEF OnToken, OnStart, Beginning
  <2>2. Known(q) /\ q.at = "bad"
    BY <1>1, <2>1 DEF Known
  <2>3. ~WellFormed(body)
    BY <1>1, <1>5, NoRoot
  <2> HIDE DEF q
  <2>4. Reading(body, n + 1, q)
    BY <2>2, <2>3 DEF Reading
  <2> QED  BY <2>4 DEF q
<1>6. CASE token.t = "start" /\ token.name = DAV("propfind")
  <2>1. q = [p EXCEPT !.at = "propfind"]
    BY <1>1, <1>6 DEF OnToken, OnStart, Beginning
  <2>2. Known(q) /\ q.at = "propfind" /\ q.open = 0 /\ q.forms = 0 /\ Place(q) = "propfind"
    BY <1>1, <2>1 DEF Known, Beginning, Place
  <2>3. n + 1 \in PropfindRoots(body)
    BY <1>1, <1>2, <1>6 DEF PropfindRoots
  <2>4. Level(body, n + 1) = 1
    BY <2>3, RootFacts
  <2>5. RootOpen(body, n + 1)
    BY <1>2, <2>3, <2>4 DEF RootOpen
  <2>6. FormsTo(body, n + 1) = {}
    BY <1>2, <2>3, FormStarts DEF FormsTo
  <2>7. Cardinality(FormsTo(body, n + 1)) = 0
    BY <2>6, FS_EmptySet
  <2> HIDE DEF q
  <2>8. InRoot(body, n + 1, q)
    BY <2>2, <2>4, <2>5 DEF InRoot
  <2>9. FormsRead(body, n + 1, q)
    BY <2>2, <2>7 DEF FormsRead
  <2>10. Reading(body, n + 1, q)
    BY <2>2, <2>8, <2>9 DEF Reading
  <2> QED  BY <2>10 DEF q
<1>7. CASE token.t = "end"
  <2>1. Level(body, n + 1) = -1
    BY <1>3, <1>7, LevelSteps
  <2>2. Level(body, n + 1) >= 0
    BY <1>2 DEF Decodable
  <2> QED  BY <2>1, <2>2
<1>8. token.t \in {"start", "end", "text", "blank", "other", "error"}
  BY <1>2 DEF Token
<1> QED  BY <1>4, <1>5, <1>6, <1>7, <1>8

\* What all cases in the root have in common.
LEMMA RootRead ==
    ASSUME NEW body \in Seq(Token), NEW n, NEW p, Reading(body, n, p),
           p.at \in {"propfind", "prop", "skip"}
    PROVE  /\ Known(p) /\ InRoot(body, n, p) /\ FormsRead(body, n, p)
           /\ n \in 1..Len(body) /\ p.open \in Nat /\ Level(body, n) \in Nat /\ Level(body, n) >= 1
           /\ p.at = "propfind" => p.open = 0 /\ Place(p) = "propfind" /\ Level(body, n) = 1
           /\ p.at = "prop" => p.open = 0 /\ Place(p) = "prop" /\ Level(body, n) = 2
           /\ p.at = "skip" => p.open > 0 /\ Place(p) = p.back
<1>1. Known(p) /\ InRoot(body, n, p) /\ FormsRead(body, n, p)
  BY DEF Reading
<1>2. PICK r \in PropfindRoots(body) : n \in r..Len(body)
  BY <1>1 DEF InRoot, RootOpen
<1>3. n \in 1..Len(body)
  BY <1>2, RootFacts
<1>4. p.open \in Nat
  BY <1>1 DEF Known
<1>5. Level(body, n) = p.open + (IF Place(p) = "propfind" THEN 1 ELSE 2)
      /\ (p.at = "skip" <=> p.open > 0)
  BY <1>1 DEF InRoot
<1>6. Level(body, n) \in Nat /\ Level(body, n) >= 1
  BY <1>4, <1>5
<1> QED  BY <1>1, <1>3, <1>4, <1>5, <1>6 DEF Place

\* Tokens that are neither a start nor an end.
LEMMA ReadsText ==
    ASSUME NEW body \in Seq(Token), Decodable(body), NEW n \in 0..Len(body), n < Len(body),
           NEW p, Reading(body, n, p), p.at \in {"propfind", "prop", "skip"},
           body[n + 1].t \notin {"start", "end"}
    PROVE  Reading(body, n + 1, OnToken(p, body[n + 1]))
<1> DEFINE token == body[n + 1]
           q == OnToken(p, token)
<1>1. Level(body, n + 1) = Level(body, n) /\ n + 1 \in 1..Len(body) /\ Level(body, n) >= 1
  BY LevelSteps, RootRead
<1>2. RootOpen(body, n + 1)
  BY <1>1, RootRead, RootStaysOpen DEF InRoot
<1>3. CASE token.t = "error"
  <2>1. q = [p EXCEPT !.at = "bad"]
    BY <1>3 DEF OnToken
  <2>2. Known(q) /\ q.at = "bad"
    BY <2>1, RootRead DEF Known
  <2>3. n + 1 = Len(body)
    BY <1>1, <1>3 DEF Decodable
  <2>4. ~WellFormed(body)
    BY <1>2, <2>3, RootNeverEnds
  <2> HIDE DEF q
  <2>5. Reading(body, n + 1, q)
    BY <2>2, <2>4 DEF Reading
  <2> QED  BY <2>5 DEF q
<1>4. CASE token.t # "error"
  <2>1. q = p
    BY <1>4 DEF OnToken
  <2>2. Place(p) = "prop" => Level(body, n + 1) >= 2
    BY <1>1, RootRead DEF InRoot
  <2>3. FormsRead(body, n + 1, p)
    BY <2>2, RootRead, FormsStay DEF InRoot
  <2>4. InRoot(body, n + 1, p)
    BY <1>1, <1>2, RootRead DEF InRoot
  <2>5. Reading(body, n + 1, p)
    BY <2>3, <2>4, RootRead DEF Reading
  <2> QED  BY <2>1, <2>5
<1> QED  BY <1>3, <1>4

\* A token that only changes how deep it is.
LEMMA ReadsOn ==
    ASSUME NEW body \in Seq(Token), NEW n \in 0..Len(body), n < Len(body),
           NEW p, Reading(body, n, p), p.at \in {"propfind", "prop", "skip"},
           NEW q, Known(q), q.at \in {"propfind", "prop", "skip"},
           q.kind = p.kind, q.names = p.names, q.forms = p.forms, Place(q) = Place(p),
           q.at = "skip" <=> q.open > 0,
           Level(body, n + 1) = q.open + (IF Place(p) = "propfind" THEN 1 ELSE 2),
           ~(/\ body[n + 1].t = "start" /\ Level(body, n) = 1
             /\ body[n + 1].name \in {DAV("allprop"), DAV("propname"), DAV("prop")}),
           ~(body[n + 1].t = "start" /\ Level(body, n) = 2 /\ Place(p) = "prop")
    PROVE  Reading(body, n + 1, q)
<1>1. q.open \in Nat
  BY DEF Known
<1>2. Level(body, n + 1) >= 1 /\ (Place(p) = "prop" => Level(body, n + 1) >= 2)
  BY <1>1
<1>3. RootOpen(body, n + 1)
  BY <1>2, RootRead, RootStaysOpen DEF InRoot
<1>4. InRoot(body, n + 1, q)
  BY <1>3, RootRead DEF InRoot
<1>5. FormsRead(body, n + 1, q)
  BY <1>2, RootRead, FormsStay DEF InRoot
<1> QED  BY <1>4, <1>5 DEF Reading

\* A form starts.
LEMMA ReadsForm ==
    ASSUME NEW body \in Seq(Token), NEW n \in 0..Len(body), n < Len(body),
           NEW p, Reading(body, n, p), p.at = "propfind",
           NEW q, Known(q), NEW kind \in Kinds,
           body[n + 1].t = "start", body[n + 1].name = DAV(kind),
           q.kind = kind, q.forms = p.forms + 1,
           IF kind = "prop" THEN q.at = "prop" /\ q.open = 0 /\ q.names = <<>>
           ELSE q.at = "skip" /\ q.open = 1 /\ q.back = "propfind"
    PROVE  Reading(body, n + 1, q)
<1>1. /\ Level(body, n) = 1 /\ RootOpen(body, n) /\ FormsRead(body, n, p)
      /\ n \in Nat /\ p.forms \in Nat
  BY RootRead DEF InRoot, Known
<1>2. Level(body, n + 1) = 2
  BY <1>1, LevelSteps
<1>3. RootOpen(body, n + 1)
  BY <1>1, <1>2, RootStaysOpen
<1>4. Place(q) = IF kind = "prop" THEN "prop" ELSE "propfind"
  BY DEF Place
<1>5. InRoot(body, n + 1, q)
  BY <1>2, <1>3, <1>4 DEF InRoot
<1>6. PICK r \in PropfindRoots(body) : n \in r..Len(body) /\ \A k \in r..n : Level(body, k) >= 1
  BY <1>1 DEF RootOpen
<1>7. body[n + 1].name \in {DAV("allprop"), DAV("propname"), DAV("prop")}
  BY DEF Kinds
<1>8. /\ FormsTo(body, n + 1) = FormsTo(body, n) \cup {n + 1} /\ n + 1 \notin FormsTo(body, n)
      /\ IsFiniteSet(FormsTo(body, n)) /\ Cardinality(FormsTo(body, n)) \in Nat
  BY <1>1, <1>6, <1>7, FormsGrow
<1>9. Cardinality(FormsTo(body, n + 1)) = Cardinality(FormsTo(body, n)) + 1
  BY <1>8, FS_AddElement
<1>10. p.forms = Cardinality(FormsTo(body, n))
  BY <1>1 DEF FormsRead
<1>11. ASSUME q.forms = 1, NEW f \in FormsTo(body, n + 1) PROVE OneRead(body, n + 1, q, f)
  <2>1. Cardinality(FormsTo(body, n)) = 0
    BY <1>1, <1>10, <1>11
  <2>2. FormsTo(body, n) = {}
    BY <1>8, <2>1, FS_EmptySet
  <2>3. f = n + 1
    BY <1>8, <1>11, <2>2
  <2>4. ASSUME q.kind = "prop"
        PROVE  /\ Range(q.names) = NamesAt(body, ChildrenTo(body, n + 1, n + 1))
               /\ Place(q) = "prop" <=> \A k \in (n + 1)..(n + 1) : Level(body, k) >= 2
    <3>1. ChildrenTo(body, n + 1, n + 1) = {}
      BY <1>1, NewFormIsEmpty
    <3>2. q.names = <<>>
      BY <2>4
    <3>3. Range(q.names) = {} /\ NamesAt(body, {}) = {}
      BY <3>2 DEF Range, NamesAt
    <3>4. \A k \in (n + 1)..(n + 1) : k = n + 1
      BY <1>1
    <3>5. \A k \in (n + 1)..(n + 1) : Level(body, k) >= 2
      BY <1>2, <3>4
    <3> QED  BY <1>4, <2>4, <3>1, <3>3, <3>5
  <2> QED  BY <2>3, <2>4 DEF OneRead
<1>12. FormsRead(body, n + 1, q)
  BY <1>1, <1>4, <1>9, <1>10, <1>11 DEF FormsRead
<1> QED  BY <1>5, <1>12 DEF Reading

\* The names of a prop.
LEMMA Appended ==
    ASSUME NEW S, NEW s \in Seq(S), NEW e \in S
    PROVE  LET t == IF Contains(s, e) THEN s ELSE Append(s, e)
           IN  /\ t \in Seq(S)
               /\ Range(t) = Range(s) \cup {e}
               /\ IsInjective(s) => IsInjective(t)
<1>1. Len(s) \in Nat /\ DOMAIN s = 1..Len(s)
  OBVIOUS
<1>2. CASE Contains(s, e)
  BY <1>1, <1>2 DEF Contains, Range
<1>3. CASE ~Contains(s, e)
  <2> DEFINE t == Append(s, e)
  <2>1. /\ t \in Seq(S) /\ Len(t) = Len(s) + 1 /\ t[Len(s) + 1] = e
        /\ \A i \in 1..Len(s) : t[i] = s[i]
    BY AppendProperties
  <2> HIDE DEF t
  <2>2. DOMAIN t = 1..(Len(s) + 1) /\ \A i : i \in DOMAIN t <=> i \in DOMAIN s \/ i = Len(s) + 1
    BY <1>1, <2>1
  <2>3. Range(t) = Range(s) \cup {e}
    BY <1>1, <2>1, <2>2 DEF Range
  <2>4. \A i \in DOMAIN s : s[i] # e
    BY <1>1, <1>3 DEF Contains
  <2>5. IsInjective(s) => IsInjective(t)
    BY <1>1, <2>1, <2>2, <2>4 DEF IsInjective
  <2> QED  BY <1>3, <2>1, <2>3, <2>5 DEF t
<1> QED  BY <1>2, <1>3

\* A prop asks for something.
LEMMA ReadsName ==
    ASSUME NEW body \in Seq(Token), NEW n \in 0..Len(body), n < Len(body),
           NEW p, Reading(body, n, p), p.at = "prop", body[n + 1].t = "start",
           NEW q, Known(q), q.kind = p.kind, q.forms = p.forms,
           q.at = "skip", q.open = 1, q.back = "prop",
           Range(q.names) = Range(p.names) \cup {body[n + 1].name}
    PROVE  Reading(body, n + 1, q)
<1>1. /\ Level(body, n) = 2 /\ RootOpen(body, n) /\ FormsRead(body, n, p)
      /\ n \in Nat /\ p.forms \in Nat /\ Place(p) = "prop"
  BY RootRead DEF InRoot, Known
<1>2. Level(body, n + 1) = 3
  BY <1>1, LevelSteps
<1>3. RootOpen(body, n + 1)
  BY <1>1, <1>2, RootStaysOpen
<1>4. Place(q) = "prop"
  BY DEF Place
<1>5. InRoot(body, n + 1, q)
  BY <1>2, <1>3, <1>4 DEF InRoot
<1>6. PICK r \in PropfindRoots(body) : n \in r..Len(body) /\ \A k \in r..n : Level(body, k) >= 1
  BY <1>1 DEF RootOpen
<1>7. FormsTo(body, n + 1) = FormsTo(body, n)
  <2>1. Level(body, n) # 1
    BY <1>1
  <2> QED  BY <1>6, <2>1, FormsGrow
<1>8. p.forms = Cardinality(FormsTo(body, n)) /\ p.kind = "prop" /\ p.forms > 0
  BY <1>1 DEF FormsRead
<1>9. ASSUME q.forms = 1, NEW f \in FormsTo(body, n + 1) PROVE OneRead(body, n + 1, q, f)
  <2>1. OneRead(body, n, p, f)
    BY <1>1, <1>7, <1>9 DEF FormsRead
  <2>2. f \in Nat /\ f <= n
    BY <1>6, <1>7, RootFacts, FormStarts DEF FormsTo
  <2>3. \A k \in f..n : Level(body, k) >= 2
    BY <1>1, <1>8, <2>1 DEF OneRead
  <2>4. ChildrenTo(body, f, n + 1) = ChildrenTo(body, f, n) \cup {n + 1}
    BY <1>1, <1>6, <1>7, <2>3, ChildrenGrow
  <2>5. Range(p.names) = NamesAt(body, ChildrenTo(body, f, n))
    BY <1>8, <2>1 DEF OneRead
  <2>6. NamesAt(body, ChildrenTo(body, f, n + 1))
           = NamesAt(body, ChildrenTo(body, f, n)) \cup {body[n + 1].name}
    BY <2>4 DEF NamesAt
  <2>7. \A k \in f..(n + 1) : Level(body, k) >= 2
    <3>1. \A k \in f..(n + 1) : k \in f..n \/ k = n + 1
      BY <1>1, <2>2
    <3> QED  BY <1>2, <2>3, <3>1
  <2>8. body[f].name = DAV(p.kind)
    BY <2>1 DEF OneRead
  <2> QED  BY <1>4, <2>5, <2>6, <2>7, <2>8 DEF OneRead
<1>10. FormsRead(body, n + 1, q)
  BY <1>7, <1>8, <1>9 DEF FormsRead
<1> QED  BY <1>5, <1>10 DEF Reading

\* The propfind ends.
LEMMA ReadsEnd ==
    ASSUME NEW body \in Seq(Token), NEW n \in 0..Len(body), n < Len(body),
           NEW p, Reading(body, n, p), p.at = "propfind", body[n + 1].t = "end",
           NEW q, q = [p EXCEPT !.at = IF OneForm(p.forms) THEN "good" ELSE "bad"]
    PROVE  Reading(body, n + 1, q)
<1>1. /\ Level(body, n) = 1 /\ RootOpen(body, n) /\ FormsRead(body, n, p) /\ Known(p)
      /\ Place(p) = "propfind" /\ n \in 1..Len(body)
  BY RootRead DEF InRoot
<1>2. /\ Forms(body) = FormsTo(body, n)
      /\ WellFormed(body) <=> Cardinality(FormsTo(body, n)) = 1
      /\ \A f \in Forms(body) : ChildrenTo(body, f, n) = {k \in DOMAIN body : Child(body, f, k)}
  BY <1>1, RootEnds
<1>3. p.forms = Cardinality(FormsTo(body, n))
      /\ (p.forms = 1 => \A f \in FormsTo(body, n) : OneRead(body, n, p, f))
  BY <1>1 DEF FormsRead
<1>4. Known(q) /\ q.kind = p.kind /\ q.names = p.names
      /\ q.at = IF p.forms = 1 THEN "good" ELSE "bad"
  BY <1>1 DEF Known, OneForm
<1>5. CASE p.forms = 1
  <2>1. IsFiniteSet(Forms(body)) /\ Cardinality(Forms(body)) = 1
    <3>1. Forms(body) \subseteq 1..Len(body)
      BY DEF Forms
    <3>2. IsFiniteSet(1..Len(body))
      <4>1. 1 \in Int /\ Len(body) \in Int
        OBVIOUS
      <4> QED  BY <4>1, FS_Interval
    <3> QED  BY <1>2, <1>3, <1>5, <3>1, <3>2, FS_Subset
  <2>2. PICK f : Forms(body) = {f}
    BY <2>1, FS_Singleton
  <2>3. OneRead(body, n, p, f)
    BY <1>2, <1>3, <1>5, <2>2
  <2>4. body[f].name = DAV(p.kind)
    BY <2>3 DEF OneRead
  <2>5. ASSUME p.kind = "prop" PROVE Range(p.names) = Asked(body)
    <3>1. Range(p.names) = NamesAt(body, ChildrenTo(body, f, n))
      BY <2>3, <2>5 DEF OneRead
    <3>2. ChildrenTo(body, f, n) = {k \in DOMAIN body : Child(body, f, k)}
      BY <1>2, <2>2
    <3>3. Asked(body) = {body[i].name : i \in {k \in DOMAIN body : Child(body, f, k)}}
      BY <2>2, <2>4, <2>5 DEF Asked
    <3> QED  BY <3>1, <3>2, <3>3 DEF NamesAt
  <2>6. Found(body, q)
    BY <1>4, <2>2, <2>4, <2>5 DEF Found
  <2>7. WellFormed(body) /\ q.at = "good"
    BY <1>2, <1>3, <1>4, <1>5
  <2> QED  BY <1>4, <2>6, <2>7 DEF Reading
<1>6. CASE p.forms # 1
  <2>1. ~WellFormed(body) /\ q.at = "bad"
    BY <1>2, <1>3, <1>4, <1>6
  <2> QED  BY <1>4, <2>1 DEF Reading
<1> QED  BY <1>5, <1>6

LEMMA ReadsStart ==
    ASSUME NEW body \in Seq(Token), NEW n \in 0..Len(body), n < Len(body),
           NEW p, Reading(body, n, p), p.at \in {"propfind", "prop", "skip"},
           body[n + 1].t = "start"
    PROVE  Reading(body, n + 1, OnToken(p, body[n + 1]))
<1> DEFINE token == body[n + 1]
           q == OnToken(p, token)
<1>1. Known(p) /\ Level(body, n + 1) = Level(body, n) + 1 /\ Level(body, n) \in Nat
  BY RootRead, LevelSteps
<1>2. q = OnStart(p, token.name) /\ token.name \in Element
  <2>1. n + 1 \in 1..Len(body)
    OBVIOUS
  <2>2. token \in Token
    BY <2>1
  <2>3. token.name \in Element
    BY <2>2 DEF Token, Element
  <2> QED  BY <2>3 DEF OnToken
<1> HIDE DEF q
<1>3. CASE p.at = "propfind"
  <2>1. q = InPropfind(p, token.name) /\ p.open = 0 /\ Level(body, n) = 1 /\ Place(p) = "propfind"
    BY <1>2, <1>3, RootRead DEF OnStart
  <2>2. CASE token.name \in {DAV("allprop"), DAV("propname")}
    <3>1. PICK kind \in {"allprop", "propname"} : token.name = DAV(kind)
      BY <2>2
    <3>2. token.name.local = kind
      BY <3>1 DEF DAV
    <3>3. q = [p EXCEPT !.kind = kind, !.forms = @ + 1, !.at = "skip", !.open = 1, !.back = "propfind"]
      BY <1>1, <1>3, <2>1, <2>2, <3>2 DEF InPropfind, Skip, Known
    <3>a. p.forms + 1 \in Nat /\ kind \in Kinds
      BY <1>1 DEF Known, Kinds
    <3>4. /\ Known(q) /\ q.kind = kind /\ q.forms = p.forms + 1
          /\ q.at = "skip" /\ q.open = 1 /\ q.back = "propfind"
      BY <1>1, <3>3, <3>a DEF Known
    <3>5. kind \in Kinds /\ kind # "prop"
      BY DEF Kinds
    <3>6. Reading(body, n + 1, q)
      BY <1>3, <3>1, <3>4, <3>5, ReadsForm
    <3> QED  BY <3>6 DEF q
  <2>3. CASE token.name = DAV("prop")
    <3>1. q = [p EXCEPT !.at = "prop", !.kind = "prop", !.forms = @ + 1, !.names = <<>>]
      BY <2>1, <2>3 DEF InPropfind, DAV
    <3>2. IsInjective(<<>>)
      BY DEF IsInjective
    <3>a. p.forms + 1 \in Nat /\ "prop" \in Kinds /\ <<>> \in Seq(Element)
      BY <1>1 DEF Known, Kinds
    <3>3. /\ Known(q) /\ q.kind = "prop" /\ q.forms = p.forms + 1
          /\ q.at = "prop" /\ q.open = 0 /\ q.names = <<>>
      BY <1>1, <2>1, <3>1, <3>2, <3>a DEF Known
    <3>4. "prop" \in Kinds
      BY DEF Kinds
    <3>5. Reading(body, n + 1, q)
      BY <1>3, <2>3, <3>3, <3>4, ReadsForm
    <3> QED  BY <3>5 DEF q
  <2>4. CASE token.name \notin {DAV("allprop"), DAV("propname"), DAV("prop")}
    <3>1. q = [p EXCEPT !.at = "skip", !.open = 1, !.back = "propfind"]
      BY <1>3, <2>1, <2>4 DEF InPropfind, Skip
    <3>2. /\ Known(q) /\ q.kind = p.kind /\ q.names = p.names /\ q.forms = p.forms
          /\ q.at = "skip" /\ q.open = 1 /\ q.back = "propfind"
      BY <1>1, <3>1 DEF Known
    <3>3. Place(q) = Place(p)
      BY <2>1, <3>2 DEF Place
    <3>4. Reading(body, n + 1, q)
      BY <1>1, <1>3, <2>1, <2>4, <3>2, <3>3, ReadsOn
    <3> QED  BY <3>4 DEF q
  <2> QED  BY <2>2, <2>3, <2>4
<1>4. CASE p.at = "prop"
  <2> DEFINE new == IF Contains(p.names, token.name) THEN p.names ELSE Append(p.names, token.name)
  <2>1. /\ new \in Seq(Element) /\ Range(new) = Range(p.names) \cup {token.name}
        /\ IsInjective(new)
    BY <1>1, <1>2, Appended DEF Known
  <2>2. q = [p EXCEPT !.names = new, !.at = "skip", !.open = 1, !.back = "prop"]
    BY <1>1, <1>2, <1>4 DEF OnStart, Skip, Known
  <2> HIDE DEF new
  <2>3. /\ Known(q) /\ q.kind = p.kind /\ q.names = new /\ q.forms = p.forms
        /\ q.at = "skip" /\ q.open = 1 /\ q.back = "prop"
    BY <1>1, <2>1, <2>2 DEF Known
  <2>4. Reading(body, n + 1, q)
    BY <1>4, <2>1, <2>3, ReadsName
  <2> QED  BY <2>4 DEF q
<1>5. CASE p.at = "skip"
  <2>1. q = [p EXCEPT !.open = @ + 1] /\ p.open > 0 /\ p.open \in Nat
    BY <1>2, <1>5, RootRead DEF OnStart
  <2>2. /\ Known(q) /\ q.kind = p.kind /\ q.names = p.names /\ q.forms = p.forms
        /\ q.at = "skip" /\ q.open = p.open + 1 /\ q.back = p.back
    BY <1>1, <1>5, <2>1 DEF Known
  <2>3. Place(q) = Place(p)
    BY <1>5, <2>2 DEF Place
  <2>4. Level(body, n) = p.open + (IF Place(p) = "propfind" THEN 1 ELSE 2)
        /\ Place(p) \in {"propfind", "prop"}
    BY RootRead DEF InRoot
  <2>5. /\ Level(body, n + 1) = q.open + (IF Place(p) = "propfind" THEN 1 ELSE 2)
        /\ Level(body, n) # 1 /\ (Place(p) = "prop" => Level(body, n) # 2)
        /\ q.open > 0
    BY <1>1, <2>1, <2>2, <2>4
  <2>6. Reading(body, n + 1, q)
    BY <1>5, <2>2, <2>3, <2>5, ReadsOn
  <2> QED  BY <2>6 DEF q
<1> QED  BY <1>3, <1>4, <1>5

LEMMA ReadsStop ==
    ASSUME NEW body \in Seq(Token), NEW n \in 0..Len(body), n < Len(body),
           NEW p, Reading(body, n, p), p.at \in {"propfind", "prop", "skip"},
           body[n + 1].t = "end"
    PROVE  Reading(body, n + 1, OnToken(p, body[n + 1]))
<1> DEFINE q == OnToken(p, body[n + 1])
<1>1. Known(p) /\ Level(body, n + 1) = Level(body, n) - 1 /\ Level(body, n) \in Nat
  BY RootRead, LevelSteps
<1>2. q = OnEnd(p)
  BY DEF OnToken
<1> HIDE DEF q
<1>3. CASE p.at = "propfind"
  <2>1. q = [p EXCEPT !.at = IF OneForm(p.forms) THEN "good" ELSE "bad"]
    BY <1>2, <1>3 DEF OnEnd
  <2>2. Reading(body, n + 1, q)
    BY <1>3, <2>1, ReadsEnd
  <2> QED  BY <2>2 DEF q
<1>4. CASE p.at = "prop"
  <2>1. q = [p EXCEPT !.at = "propfind"] /\ p.open = 0 /\ Level(body, n) = 2 /\ Place(p) = "prop"
        /\ Place(q) = "propfind"
    BY <1>1, <1>2, <1>4, RootRead DEF OnEnd, Known, Place
  <2>2. /\ Known(q) /\ q.kind = p.kind /\ q.names = p.names /\ q.forms = p.forms
        /\ q.at = "propfind" /\ q.open = 0
    BY <1>1, <2>1 DEF Known
  <2>3. Level(body, n + 1) = 1 /\ RootOpen(body, n) /\ FormsRead(body, n, p)
    BY <1>1, <2>1, RootRead DEF InRoot
  <2>4. RootOpen(body, n + 1)
    BY <2>3, RootStaysOpen
  <2>5. InRoot(body, n + 1, q)
    BY <2>1, <2>2, <2>3, <2>4 DEF InRoot
  <2>6. PICK r \in PropfindRoots(body) : n \in r..Len(body) /\ \A k \in r..n : Level(body, k) >= 1
    BY <2>3 DEF RootOpen
  <2>7. FormsTo(body, n + 1) = FormsTo(body, n)
    BY <2>6, FormsGrow
  <2>8. p.forms = Cardinality(FormsTo(body, n))
    BY <2>3 DEF FormsRead
  <2>9. ASSUME q.forms = 1, NEW f \in FormsTo(body, n + 1) PROVE OneRead(body, n + 1, q, f)
    <3>1. OneRead(body, n, p, f)
      BY <2>2, <2>3, <2>7, <2>9 DEF FormsRead
    <3>2. f \in Nat /\ f <= n /\ n \in Nat
      BY <2>6, <2>7, RootFacts, FormStarts DEF FormsTo
    <3>3. ChildrenTo(body, f, n + 1) = ChildrenTo(body, f, n)
      BY <2>6, <2>7, ChildrenGrow
    <3>4. ~ \A k \in f..(n + 1) : Level(body, k) >= 2
      <4>1. n + 1 \in f..(n + 1) /\ ~(Level(body, n + 1) >= 2)
        BY <2>3, <3>2
      <4> QED  BY <4>1
    <3> QED  BY <2>1, <2>2, <3>1, <3>3, <3>4 DEF OneRead
  <2>10. FormsRead(body, n + 1, q)
    BY <2>1, <2>2, <2>7, <2>8, <2>9 DEF FormsRead
  <2>11. Reading(body, n + 1, q)
    BY <2>2, <2>5, <2>10 DEF Reading
  <2> QED  BY <2>11 DEF q
<1>5. CASE p.at = "skip"
  <2>1. /\ p.open \in Nat /\ p.open > 0 /\ Place(p) = p.back /\ Place(p) \in {"propfind", "prop"}
        /\ Level(body, n) = p.open + (IF Place(p) = "propfind" THEN 1 ELSE 2)
    BY <1>5, RootRead DEF InRoot
  <2>2. q = IF p.open > 1 THEN [p EXCEPT !.open = @ - 1] ELSE [p EXCEPT !.at = p.back, !.open = 0]
    <3>1. CASE p.open > 1
      BY <1>2, <1>5, <2>1, <3>1 DEF OnEnd
    <3>2. CASE p.open = 1
      BY <1>2, <1>5, <2>1, <3>2 DEF OnEnd
    <3> QED  BY <2>1, <3>1, <3>2
  <2>3. /\ Known(q) /\ q.kind = p.kind /\ q.names = p.names /\ q.forms = p.forms
        /\ q.open = p.open - 1 /\ q.back = p.back
        /\ q.at = IF p.open > 1 THEN "skip" ELSE p.back
    <3>1. CASE p.open > 1
      <4>1. q = [p EXCEPT !.open = p.open - 1] /\ p.open - 1 \in Nat
        BY <1>1, <2>1, <2>2, <3>1 DEF Known
      <4> QED  BY <1>1, <1>5, <3>1, <4>1 DEF Known
    <3>2. CASE p.open = 1
      <4>1. q = [p EXCEPT !.at = p.back, !.open = 0] /\ p.open - 1 = 0 /\ ~(p.open > 1)
        BY <2>1, <2>2, <3>2
      <4> QED  BY <1>1, <1>5, <3>2, <4>1 DEF Known
    <3> QED  BY <2>1, <3>1, <3>2
  <2>4. Place(q) = Place(p) /\ q.at \in {"propfind", "prop", "skip"} /\ (q.at = "skip" <=> q.open > 0)
    BY <2>1, <2>3 DEF Place
  <2>5. Level(body, n + 1) = q.open + (IF Place(p) = "propfind" THEN 1 ELSE 2)
    BY <1>1, <2>1, <2>3
  <2>6. Reading(body, n + 1, q)
    BY <1>5, <2>3, <2>4, <2>5, ReadsOn
  <2> QED  BY <2>6 DEF q
<1> QED  BY <1>3, <1>4, <1>5

\* Every token.
LEMMA ReadsToken ==
    ASSUME NEW body \in Seq(Token), Decodable(body), NEW n \in 0..Len(body), n < Len(body),
           NEW p, Reading(body, n, p)
    PROVE  Reading(body, n + 1, OnToken(p, body[n + 1]))
<1>1. CASE p.at = "start"
  BY <1>1, ReadsBeginning
<1>2. CASE p.at \in {"propfind", "prop", "skip"}
  BY <1>2, ReadsText, ReadsStart, ReadsStop
<1>3. CASE p.at \in {"good", "bad"}
  <2>1. OnToken(p, body[n + 1]) = p
    BY <1>3 DEF OnToken
  <2> QED  BY <1>3, <2>1 DEF Reading
<1>4. p.at \in {"start", "propfind", "prop", "skip", "good", "bad"}
  BY DEF Reading, Known
<1> QED  BY <1>1, <1>2, <1>3, <1>4

\* ParsePropfind goes through the tokens from the first to the last.
LEMMA ReadsBody ==
    ASSUME NEW body \in Seq(Token), Decodable(body)
    PROVE  \E p : /\ Reading(body, Len(body), p)
                  /\ ParsePropfind(body)
                        = IF Blank(body) THEN [ok |-> TRUE, kind |-> "allprop", names |-> <<>>]
                          ELSE [ok |-> p.at = "good", kind |-> p.kind, names |-> p.names]
<1> DEFINE n == Len(body)
           Read(f, k) == f = [i \in 0..k |-> IF i = 0 THEN Beginning ELSE OnToken(f[i - 1], body[i])]
           parsed == CHOOSE f : Read(f, n)
<1>1. n \in Nat
  OBVIOUS
<1>2. ParsePropfind(body)
         = IF Blank(body) THEN [ok |-> TRUE, kind |-> "allprop", names |-> <<>>]
           ELSE [ok |-> parsed[n].at = "good", kind |-> parsed[n].kind, names |-> parsed[n].names]
  BY DEF ParsePropfind, Blank
<1> HIDE DEF n, parsed
<1>3. \A k \in 0..n : \E f : Read(f, k)
  <2> DEFINE missing == {k \in 0..n : ~ \E f : Read(f, k)}
  <2> SUFFICES ASSUME missing # {} PROVE FALSE
    OBVIOUS
  <2>1. missing \in SUBSET Nat
    BY <1>1
  <2>2. PICK k \in missing : \A j \in missing : k <= j
    <3> HIDE DEF missing
    <3> QED  BY <2>1, Least
  <2>3. k # 0
    <3>1. Read([i \in {0} |-> Beginning], 0)
      OBVIOUS
    <3> QED  BY <3>1
  <2>4. k - 1 \in 0..n /\ k - 1 \notin missing
    <3>1. k \in 0..n
      BY <2>2
    <3>2. k - 1 \in 0..n /\ ~(k <= k - 1)
      BY <1>1, <2>3, <3>1
    <3> HIDE DEF missing
    <3> QED  BY <2>2, <3>2
  <2>5. PICK f : Read(f, k - 1)
    BY <2>4
  <2> DEFINE g == [i \in 0..k |-> IF i < k THEN f[i] ELSE OnToken(f[k - 1], body[k])]
  <2>6. \A i \in 0..k : g[i] = IF i = 0 THEN Beginning ELSE OnToken(g[i - 1], body[i])
    <3>1. TAKE i \in 0..k
    <3>2. CASE i = k
      BY <1>1, <2>2, <2>3, <3>2
    <3>3. CASE i < k
      <4>1. i \in 0..(k - 1)
        BY <1>1, <2>2, <3>3
      <4>2. f[i] = IF i = 0 THEN Beginning ELSE OnToken(f[i - 1], body[i])
        BY <2>5, <4>1
      <4> QED  BY <1>1, <2>2, <3>3, <4>2
    <3> QED  BY <1>1, <2>2, <3>2, <3>3
  <2>7. Read(g, k)
    <3>1. g = [i \in 0..k |-> g[i]]
      OBVIOUS
    <3> HIDE DEF g
    <3> QED  BY <2>6, <3>1
  <2> QED  BY <2>2, <2>7
<1>4. Read(parsed, n)
  <2>1. n \in 0..n
    BY <1>1
  <2>2. \E f : Read(f, n)
    BY <1>3, <2>1
  <2> HIDE DEF Read
  <2> QED  BY <2>2 DEF parsed
<1>5. \A i \in 0..n : parsed[i] = IF i = 0 THEN Beginning ELSE OnToken(parsed[i - 1], body[i])
  BY <1>4
<1> HIDE DEF Read
<1>6. \A k \in 0..n : Reading(body, k, parsed[k])
  <2> DEFINE wrong == {k \in 0..n : ~Reading(body, k, parsed[k])}
  <2> SUFFICES ASSUME wrong # {} PROVE FALSE
    OBVIOUS
  <2>1. wrong \in SUBSET Nat
    BY <1>1
  <2>2. PICK k \in wrong : \A j \in wrong : k <= j
    <3> HIDE DEF wrong
    <3> QED  BY <2>1, Least
  <2>3. k \in 0..n /\ ~Reading(body, k, parsed[k])
    BY <2>2
  <2>4. k # 0
    <3>1. parsed[0] = Beginning
      BY <1>1, <1>5
    <3>2. Known(Beginning)
      <4>1. IsInjective(<<>>) /\ <<>> \in Seq(Element)
        BY DEF IsInjective
      <4> QED  BY <4>1 DEF Known, Beginning, Kinds
    <3>3. Reading(body, 0, Beginning)
      BY <3>2 DEF Reading, Beginning
    <3> QED  BY <2>3, <3>1, <3>3
  <2>5. k - 1 \in 0..n /\ k - 1 < n /\ ~(k <= k - 1) /\ k - 1 + 1 = k
    BY <1>1, <2>3, <2>4
  <2>6. Reading(body, k - 1, parsed[k - 1])
    <3> HIDE DEF wrong
    <3>1. k - 1 \notin wrong
      BY <2>2, <2>5
    <3> QED  BY <2>5, <3>1 DEF wrong
  <2>7. parsed[k] = OnToken(parsed[k - 1], body[k])
    BY <1>5, <2>3, <2>4
  <2>8. Reading(body, k, OnToken(parsed[k - 1], body[k]))
    BY <2>5, <2>6, ReadsToken DEF n
  <2> QED  BY <2>3, <2>7, <2>8
<1>7. Reading(body, n, parsed[n])
  BY <1>1, <1>6
<1> QED  BY <1>2, <1>7 DEF n

(* Whatever comes in a body, ParsePropfind accepts it if and only if it is  *)
(* blank or holds a whole propfind with one form, and what it returns is    *)
(* what that form asks for, each name once: elements that it skips, however *)
(* they nest or repeat, and what follows the root change nothing.           *)
THEOREM ParsesWhatIsAsked ==
    ASSUME NEW body \in Seq(Token), Decodable(body)
    PROVE  LET pf == ParsePropfind(body)
           IN  /\ pf.ok <=> Blank(body) \/ WellFormed(body)
               /\ pf.kind \in Kinds /\ pf.names \in Seq(Element) /\ IsInjective(pf.names)
               /\ pf.ok => Asked(body) = IF pf.kind = "prop" THEN Range(pf.names)
                                         ELSE Range(collectionProps)
<1> DEFINE pf == ParsePropfind(body)
<1>1. PICK p : /\ Reading(body, Len(body), p)
               /\ pf = IF Blank(body) THEN [ok |-> TRUE, kind |-> "allprop", names |-> <<>>]
                       ELSE [ok |-> p.at = "good", kind |-> p.kind, names |-> p.names]
  BY ReadsBody
<1> HIDE DEF pf
<1>2. CASE Blank(body)
  <2>1. pf.ok = TRUE /\ pf.kind = "allprop" /\ pf.names = <<>>
    BY <1>1, <1>2
  <2>2. Forms(body) = {}
    BY <1>2 DEF Forms, Blank, PropfindRoots
  <2>3. Asked(body) = Range(collectionProps)
    BY <2>2 DEF Asked
  <2>4. IsInjective(<<>>) /\ <<>> \in Seq(Element) /\ "allprop" \in Kinds
    BY DEF IsInjective, Kinds
  <2> QED  BY <1>2, <2>1, <2>3, <2>4 DEF pf
<1>3. CASE ~Blank(body)
  <2>1. pf.ok = (p.at = "good") /\ pf.kind = p.kind /\ pf.names = p.names
    BY <1>1, <1>3
  <2>2. Known(p)
    BY <1>1 DEF Reading
  <2>3. pf.kind \in Kinds /\ pf.names \in Seq(Element) /\ IsInjective(pf.names)
    BY <2>1, <2>2 DEF Known
  <2>4. CASE p.at = "good"
    <3>1. WellFormed(body) /\ Found(body, p)
      BY <1>1, <2>4 DEF Reading
    <3>2. CASE p.kind = "prop"
      BY <2>1, <2>3, <2>4, <3>1, <3>2 DEF Found, pf
    <3>3. CASE p.kind # "prop"
      <4>1. DAV(p.kind) # DAV("prop")
        BY <3>3 DEF DAV
      <4>2. Asked(body) = Range(collectionProps)
        BY <3>1, <4>1 DEF Found, Asked
      <4> QED  BY <2>1, <2>3, <2>4, <3>1, <3>3, <4>2 DEF pf
    <3> QED  BY <3>2, <3>3
  <2>5. CASE p.at # "good"
    <3>1. ~WellFormed(body)
      <4>1. CASE p.at = "bad"
        BY <1>1, <4>1 DEF Reading
      <4>2. CASE p.at \in {"propfind", "prop", "skip"}
        BY <1>1, <4>2, RootNeverEnds DEF Reading, InRoot
      <4>3. CASE p.at = "start"
        BY <1>1, <4>3 DEF Reading, WellFormed, PropfindRoots
      <4> QED  BY <2>2, <2>5, <4>1, <4>2, <4>3 DEF Known
    <3> QED  BY <1>3, <2>1, <2>3, <2>5, <3>1 DEF pf
  <2> QED  BY <2>4, <2>5
<1> QED  BY <1>2, <1>3

-----------------------------------------------------------------------------
(* The answer of a synthetic directory.                                     *)

LEMMA SupportedProps ==
    /\ IsInjective(collectionProps) /\ collectionProps # <<>>
    /\ \A name : Supported(name) <=> name \in Range(collectionProps)
<1> DEFINE props == collectionProps
<1>2. /\ DAV("resourcetype") # DAV("displayname") /\ DAV("resourcetype") # DAV("getlastmodified")
      /\ DAV("resourcetype") # DAV("creationdate") /\ DAV("displayname") # DAV("getlastmodified")
      /\ DAV("displayname") # DAV("creationdate") /\ DAV("getlastmodified") # DAV("creationdate")
  BY DEF DAV
<1>3. /\ DOMAIN props = 1..4 /\ Len(props) = 4
      /\ props[1] = DAV("resourcetype") /\ props[2] = DAV("displayname")
      /\ props[3] = DAV("getlastmodified") /\ props[4] = DAV("creationdate")
  BY DEF collectionProps
<1>5. IsInjective(props)
  BY <1>2, <1>3 DEF IsInjective
<1>6. Range(props) = {DAV("resourcetype"), DAV("displayname"), DAV("getlastmodified"), DAV("creationdate")}
  BY <1>3 DEF Range
<1>7. \A name : Supported(name) <=> name \in Range(props)
  BY <1>2, <1>6 DEF Supported, propValue
<1>8. props # <<>>
  BY <1>3
<1> QED  BY <1>5, <1>7, <1>8

\* What Selected has after so many names.
SelectedTo(wanted, supported, k, s) ==
    /\ s \in Seq(Element)
    /\ \A x : x \in Range(s) <=> \E i \in 1..k : x = wanted[i] /\ Supported(x) = supported
    /\ IsInjective(s)

LEMMA SelectedFacts ==
    ASSUME NEW wanted \in Seq(Element), IsInjective(wanted), NEW supported \in BOOLEAN
    PROVE  SelectedTo(wanted, supported, Len(wanted), Selected(wanted, supported))
<1> DEFINE n == Len(wanted)
           Longer(s, x) == IF Supported(x) = supported THEN Append(s, x) ELSE s
           Selects(f, k) == f = [i \in 0..k |-> IF i = 0 THEN <<>> ELSE Longer(f[i - 1], wanted[i])]
           selected == CHOOSE f : Selects(f, n)
<1>1. n \in Nat
  OBVIOUS
<1>2. Selected(wanted, supported) = selected[n]
  BY DEF Selected
<1> HIDE DEF n, selected, Longer
<1>3. \A k \in 0..n : \E f : Selects(f, k)
  <2> DEFINE missing == {k \in 0..n : ~ \E f : Selects(f, k)}
  <2> SUFFICES ASSUME missing # {} PROVE FALSE
    OBVIOUS
  <2>1. missing \in SUBSET Nat
    BY <1>1
  <2>2. PICK k \in missing : \A j \in missing : k <= j
    <3> HIDE DEF missing
    <3> QED  BY <2>1, Least
  <2>3. k # 0
    <3>1. Selects([i \in {0} |-> <<>>], 0)
      OBVIOUS
    <3> QED  BY <3>1
  <2>4. k - 1 \in 0..n /\ k - 1 \notin missing
    <3>1. k \in 0..n
      BY <2>2
    <3>2. k - 1 \in 0..n /\ ~(k <= k - 1)
      BY <1>1, <2>3, <3>1
    <3> HIDE DEF missing
    <3> QED  BY <2>2, <3>2
  <2>5. PICK f : Selects(f, k - 1)
    BY <2>4
  <2> DEFINE g == [i \in 0..k |-> IF i < k THEN f[i] ELSE Longer(f[k - 1], wanted[k])]
  <2>6. \A i \in 0..k : g[i] = IF i = 0 THEN <<>> ELSE Longer(g[i - 1], wanted[i])
    <3>1. TAKE i \in 0..k
    <3>2. CASE i = k
      BY <1>1, <2>2, <2>3, <3>2
    <3>3. CASE i < k
      <4>1. i \in 0..(k - 1)
        BY <1>1, <2>2, <3>3
      <4>2. f[i] = IF i = 0 THEN <<>> ELSE Longer(f[i - 1], wanted[i])
        BY <2>5, <4>1
      <4> QED  BY <1>1, <2>2, <3>3, <4>2
    <3> QED  BY <1>1, <2>2, <3>2, <3>3
  <2>7. Selects(g, k)
    <3>1. g = [i \in 0..k |-> g[i]]
      OBVIOUS
    <3> HIDE DEF g
    <3> QED  BY <2>6, <3>1
  <2> QED  BY <2>2, <2>7
<1>4. Selects(selected, n)
  <2>1. n \in 0..n
    BY <1>1
  <2>2. \E f : Selects(f, n)
    BY <1>3, <2>1
  <2> HIDE DEF Selects
  <2> QED  BY <2>2 DEF selected
<1>5. \A i \in 0..n : selected[i] = IF i = 0 THEN <<>> ELSE Longer(selected[i - 1], wanted[i])
  BY <1>4
<1> HIDE DEF Selects
<1>6. \A k \in 0..n : SelectedTo(wanted, supported, k, selected[k])
  <2> DEFINE wrong == {k \in 0..n : ~SelectedTo(wanted, supported, k, selected[k])}
  <2> SUFFICES ASSUME wrong # {} PROVE FALSE
    OBVIOUS
  <2>1. wrong \in SUBSET Nat
    BY <1>1
  <2>2. PICK k \in wrong : \A j \in wrong : k <= j
    <3> HIDE DEF wrong
    <3> QED  BY <2>1, Least
  <2>3. k \in 0..n /\ ~SelectedTo(wanted, supported, k, selected[k])
    BY <2>2
  <2>4. k # 0
    <3>1. selected[0] = <<>>
      BY <1>1, <1>5
    <3>2. IsInjective(<<>>) /\ <<>> \in Seq(Element) /\ Range(<<>>) = {}
      BY DEF IsInjective, Range
    <3>3. SelectedTo(wanted, supported, 0, <<>>)
      BY <3>2 DEF SelectedTo
    <3> QED  BY <2>3, <3>1, <3>3
  <2>5. k - 1 \in 0..n /\ k \in 1..n /\ ~(k <= k - 1)
    BY <1>1, <2>3, <2>4
  <2>6. SelectedTo(wanted, supported, k - 1, selected[k - 1])
    <3> HIDE DEF wrong
    <3>1. k - 1 \notin wrong
      BY <2>2, <2>5
    <3> QED  BY <2>5, <3>1 DEF wrong
  <2> DEFINE s == selected[k - 1]
             x == wanted[k]
  <2>7. /\ s \in Seq(Element) /\ IsInjective(s) /\ x \in Element
        /\ \A y : y \in Range(s) <=> \E i \in 1..(k - 1) : y = wanted[i] /\ Supported(y) = supported
    BY <2>5, <2>6 DEF SelectedTo, n
  <2>8. selected[k] = Longer(s, x)
    BY <1>5, <2>3, <2>4
  <2>9. \A i : i \in 1..k <=> i \in 1..(k - 1) \/ i = k
    BY <2>5
  <2>10. CASE Supported(x) = supported
    <3>1. x \notin Range(s)
      <4>1. \A i \in 1..(k - 1) : wanted[i] # x
        BY <1>1, <2>5 DEF IsInjective, n
      <4> QED  BY <2>7, <4>1
    <3>2. ~Contains(s, x)
      BY <2>7, <3>1 DEF Contains, Range
    <3>3. Append(s, x) \in Seq(Element) /\ Range(Append(s, x)) = Range(s) \cup {x}
          /\ IsInjective(Append(s, x))
      <4> DEFINE S == Element
      <4>1. s \in Seq(S) /\ x \in S /\ IsInjective(s) /\ ~Contains(s, x)
        BY <2>7, <3>2
      <4> HIDE DEF s, x, S
      <4>2. LET t == IF Contains(s, x) THEN s ELSE Append(s, x)
            IN  t \in Seq(S) /\ Range(t) = Range(s) \cup {x} /\ (IsInjective(s) => IsInjective(t))
        BY <4>1, Appended
      <4>3. Append(s, x) \in Seq(S) /\ Range(Append(s, x)) = Range(s) \cup {x}
            /\ IsInjective(Append(s, x))
        BY <4>1, <4>2
      <4> QED  BY <4>3 DEF S
    <3>4. selected[k] = Append(s, x)
      BY <2>8, <2>10 DEF Longer
    <3> HIDE DEF s, x
    <3>5. \A y : y \in Range(Append(s, x)) <=> \E i \in 1..k : y = wanted[i] /\ Supported(y) = supported
      BY <2>7, <2>9, <2>10, <3>3 DEF x
    <3> QED  BY <2>3, <3>3, <3>4, <3>5 DEF SelectedTo
  <2>11. CASE Supported(x) # supported
    <3>1. selected[k] = s
      BY <2>8, <2>11 DEF Longer
    <3> HIDE DEF s
    <3>2. \A y : y \in Range(s) <=> \E i \in 1..k : y = wanted[i] /\ Supported(y) = supported
      BY <2>7, <2>9, <2>11
    <3> QED  BY <2>3, <2>7, <3>1, <3>2 DEF SelectedTo
  <2> QED  BY <2>10, <2>11
<1>7. n \in 0..n
  BY <1>1
<1> QED  BY <1>2, <1>6, <1>7 DEF n

LEMMA Pair ==
    ASSUME NEW a, NEW b
    PROVE  <<a>> \o <<b>> = <<a, b>>
<1> DEFINE S == {a, b}
           s == <<a>>
           t == <<b>>
           u == <<a, b>>
<1>1. s \in Seq(S) /\ t \in Seq(S) /\ u \in Seq(S)
  OBVIOUS
<1>2. Len(s) = 1 /\ Len(t) = 1 /\ Len(u) = 2 /\ s[1] = a /\ t[1] = b /\ u[1] = a /\ u[2] = b
  OBVIOUS
<1> HIDE DEF S, s, t, u
<1>3. /\ s \o t \in Seq(S) /\ Len(s \o t) = Len(s) + Len(t)
      /\ \A i \in 1..(Len(s) + Len(t)) :
            (s \o t)[i] = IF i <= Len(s) THEN s[i] ELSE t[i - Len(s)]
  BY <1>1, ConcatProperties
<1>4. (s \o t)[1] = a /\ (s \o t)[2] = b
  BY <1>2, <1>3
<1>5. \A i \in 1..Len(s \o t) : (s \o t)[i] = u[i]
  BY <1>2, <1>3, <1>4
<1>6. s \o t = u
  BY <1>1, <1>2, <1>3, <1>5, SeqEqual
<1> QED  BY <1>6 DEF s, t, u

\* Lists of names, each of them without repetition, and no name in two of them.
LEMMA EachListOnce ==
    ASSUME NEW stats, NEW lists, DOMAIN stats = DOMAIN lists,
           \A k \in DOMAIN lists :
              /\ DOMAIN stats[k].props = DOMAIN lists[k]
              /\ \A i \in DOMAIN lists[k] :
                    /\ stats[k].props[i].name = lists[k][i]
                    /\ stats[k].status = 200 <=> lists[k][i] \in Range(collectionProps)
              /\ IsInjective(lists[k])
              /\ \A j \in DOMAIN lists : j # k => Range(lists[j]) \cap Range(lists[k]) = {},
           NEW asked, \A x : x \in asked <=> \E k \in DOMAIN lists : x \in Range(lists[k])
    PROVE  EachOnce(stats, asked)
<1> DEFINE prop(p) == stats[p[1]].props[p[2]].name
<1>1. \A p : p \in Places(stats) <=>
                \E k \in DOMAIN lists : \E i \in DOMAIN lists[k] : p = <<k, i>>
  BY DEF Places
<1>2. \A k \in DOMAIN lists : \A i \in DOMAIN lists[k] :
         /\ prop(<<k, i>>) = lists[k][i]
         /\ stats[k].status = 200 <=> lists[k][i] \in Range(collectionProps)
  OBVIOUS
<1>3. {prop(p) : p \in Places(stats)} = asked
  <2>1. ASSUME NEW p \in Places(stats) PROVE prop(p) \in asked
    <3>a. PICK k \in DOMAIN lists : \E i \in DOMAIN lists[k] : p = <<k, i>>
      BY <1>1
    <3>1. PICK i \in DOMAIN lists[k] : p = <<k, i>>
      BY <3>a
    <3>2. prop(p) = lists[k][i]
      BY <1>2, <3>1
    <3> QED  BY <3>1, <3>2 DEF Range
  <2>2. ASSUME NEW x \in asked PROVE \E p \in Places(stats) : prop(p) = x
    <3>1. PICK k \in DOMAIN lists : x \in Range(lists[k])
      OBVIOUS
    <3>2. PICK i \in DOMAIN lists[k] : x = lists[k][i]
      BY <3>1 DEF Range
    <3>3. <<k, i>> \in Places(stats)
      BY <1>1
    <3>4. prop(<<k, i>>) = x
      BY <1>2, <3>2
    <3> QED  BY <3>3, <3>4
  <2> HIDE DEF prop
  <2> QED  BY <2>1, <2>2
<1>4. ASSUME NEW p \in Places(stats), NEW q \in Places(stats), prop(p) = prop(q) PROVE p = q
  <2>a. PICK k \in DOMAIN lists : \E i \in DOMAIN lists[k] : p = <<k, i>>
    BY <1>1
  <2>1. PICK i \in DOMAIN lists[k] : p = <<k, i>>
    BY <2>a
  <2>b. PICK l \in DOMAIN lists : \E j \in DOMAIN lists[l] : q = <<l, j>>
    BY <1>1
  <2>2. PICK j \in DOMAIN lists[l] : q = <<l, j>>
    BY <2>b
  <2>3. lists[k][i] = lists[l][j]
    BY <1>2, <1>4, <2>1, <2>2
  <2>4. k = l
    BY <2>3 DEF Range
  <2>5. i = j
    BY <2>3, <2>4 DEF IsInjective
  <2> QED  BY <2>1, <2>2, <2>4, <2>5
<1>5. ASSUME NEW p \in Places(stats)
      PROVE  stats[p[1]].status = 200 <=> prop(p) \in Range(collectionProps)
  <2>a. PICK k \in DOMAIN lists : \E i \in DOMAIN lists[k] : p = <<k, i>>
    BY <1>1
  <2>1. PICK i \in DOMAIN lists[k] : p = <<k, i>>
    BY <2>a
  <2>2. p[1] = k /\ prop(p) = lists[k][i]
    BY <1>2, <2>1
  <2> HIDE DEF prop
  <2> QED  BY <1>2, <2>2
<1> QED  BY <1>3, <1>4, <1>5 DEF EachOnce

LEMMA PropstatFacts ==
    ASSUME NEW list, list # <<>>, NEW status, NEW values
    PROVE  \E a : /\ Propstat(list, status, values) = <<a>>
                  /\ a.status = status /\ DOMAIN a.props = DOMAIN list
                  /\ \A i \in DOMAIN list : a.props[i].name = list[i]
<1> DEFINE value(name) == IF values THEN propValue(name) ELSE "none"
           a == [status |-> status,
                 props |-> [i \in DOMAIN list |-> [name |-> list[i], value |-> value(list[i])]]]
<1>1. Propstat(list, status, values) = <<a>>
  BY DEF Propstat
<1>2. a.status = status /\ DOMAIN a.props = DOMAIN list /\ \A i \in DOMAIN list : a.props[i].name = list[i]
  OBVIOUS
<1> HIDE DEF a
<1> QED  BY <1>1, <1>2

(* Whatever a PROPFIND asks for, each property is in the answer once, with  *)
(* 200 if it is supported and with 404 otherwise.                           *)
LEMMA PropstatsExact ==
    ASSUME NEW body \in Seq(Token), Decodable(body), NEW pf, pf = ParsePropfind(body), pf.ok
    PROVE  EachOnce(Propstats(pf), Asked(body))
<1>1. /\ pf.kind \in Kinds /\ pf.names \in Seq(Element) /\ IsInjective(pf.names)
      /\ Asked(body) = IF pf.kind = "prop" THEN Range(pf.names) ELSE Range(collectionProps)
  BY ParsesWhatIsAsked
<1>2. CASE pf.kind \in {"allprop", "propname"}
  <2> DEFINE list == collectionProps
             values == pf.kind = "allprop"
  <2>1. Propstats(pf) = Propstat(list, 200, values)
    <3>1. CASE pf.kind = "allprop"
      BY <3>1 DEF Propstats
    <3>2. CASE pf.kind = "propname"
      BY <3>2 DEF Propstats
    <3> QED  BY <1>2, <3>1, <3>2
  <2>2. PICK a : /\ Propstat(list, 200, values) = <<a>>
                 /\ a.status = 200 /\ DOMAIN a.props = DOMAIN list
                 /\ \A i \in DOMAIN list : a.props[i].name = list[i]
    BY SupportedProps, PropstatFacts
  <2> HIDE DEF list, values
  <2>3. IsInjective(list) /\ \A i \in DOMAIN list : list[i] \in Range(list)
    BY SupportedProps DEF list, Range
  <2>4. Asked(body) = Range(list) /\ Range(list) = Range(collectionProps)
    BY <1>1, <1>2 DEF list
  <2>5. EachOnce(<<a>>, Asked(body))
    <3> DEFINE lists == <<list>>
    <3>1. DOMAIN <<a>> = DOMAIN lists /\ \A k \in DOMAIN lists : <<a>>[k] = a /\ lists[k] = list
          /\ DOMAIN lists = {1}
      OBVIOUS
    <3>2. \A x : x \in Asked(body) <=> \E k \in DOMAIN lists : x \in Range(lists[k])
      BY <2>4, <3>1
    <3> HIDE DEF lists
    <3> QED  BY <2>2, <2>3, <2>4, <3>1, <3>2, EachListOnce
  <2> QED  BY <2>1, <2>2, <2>5
<1>3. CASE pf.kind = "prop"
  <2> DEFINE found == Selected(pf.names, TRUE)
             missing == Selected(pf.names, FALSE)
             yes == TRUE
             no == FALSE
             first == Propstat(found, 200, yes)
             second == Propstat(missing, 404, no)
  <2>1. Propstats(pf) = first \o second
    BY <1>3 DEF Propstats
  <2>2. /\ SelectedTo(pf.names, TRUE, Len(pf.names), found)
        /\ SelectedTo(pf.names, FALSE, Len(pf.names), missing)
    BY <1>1, SelectedFacts
  <2> DEFINE wanted == pf.names
  <2> HIDE DEF found, missing, yes, no
  <2>3. /\ IsInjective(found) /\ IsInjective(missing)
        /\ \A x : x \in Range(found) <=> x \in Range(wanted) /\ Supported(x) = TRUE
        /\ \A x : x \in Range(missing) <=> x \in Range(wanted) /\ Supported(x) = FALSE
    <3>1. \A x : x \in Range(wanted) <=> \E i \in 1..Len(wanted) : x = wanted[i]
      BY <1>1 DEF Range
    <3>2. \A x : x \in Range(found) <=> \E i \in 1..Len(wanted) : x = wanted[i] /\ Supported(x) = TRUE
      BY <2>2 DEF SelectedTo
    <3>3. \A x : x \in Range(missing) <=> \E i \in 1..Len(wanted) : x = wanted[i] /\ Supported(x) = FALSE
      BY <2>2 DEF SelectedTo
    <3>4. IsInjective(found) /\ IsInjective(missing)
      BY <2>2 DEF SelectedTo
    <3> HIDE DEF wanted
    <3> QED  BY <3>1, <3>2, <3>3, <3>4
  <2>4. /\ \A x \in Range(found) : x \in Range(collectionProps)
        /\ \A x \in Range(missing) : x \notin Range(collectionProps)
        /\ Range(found) \cap Range(missing) = {}
        /\ \A x : x \in Asked(body) <=> x \in Range(found) \/ x \in Range(missing)
    <3>1. \A x : Supported(x) \in BOOLEAN
      BY DEF Supported
    <3>2. Asked(body) = Range(wanted)
      BY <1>1, <1>3
    <3> HIDE DEF wanted
    <3> QED  BY <2>3, <3>1, <3>2, SupportedProps
  <2>5. first = <<>> <=> found = <<>>
    BY PropstatFacts DEF Propstat
  <2>6. second = <<>> <=> missing = <<>>
    BY PropstatFacts DEF Propstat
  <2>7. ASSUME found # <<>>
        PROVE  \E a : /\ first = <<a>> /\ a.status = 200 /\ DOMAIN a.props = DOMAIN found
                      /\ \A i \in DOMAIN found : a.props[i].name = found[i]
    <3>1. PICK a : /\ first = <<a>>
                   /\ a.status = 200 /\ DOMAIN a.props = DOMAIN found
                   /\ \A i \in DOMAIN found : a.props[i].name = found[i]
      BY <2>7, PropstatFacts
    <3> QED  BY <3>1
  <2>8. ASSUME missing # <<>>
        PROVE  \E b : /\ second = <<b>> /\ b.status = 404 /\ DOMAIN b.props = DOMAIN missing
                      /\ \A i \in DOMAIN missing : b.props[i].name = missing[i]
    <3>1. PICK b : /\ second = <<b>>
                   /\ b.status = 404 /\ DOMAIN b.props = DOMAIN missing
                   /\ \A i \in DOMAIN missing : b.props[i].name = missing[i]
      BY <2>8, PropstatFacts
    <3> QED  BY <3>1
  <2>9. (\A i \in DOMAIN found : found[i] \in Range(found))
        /\ (\A i \in DOMAIN missing : missing[i] \in Range(missing))
        /\ (found = <<>> => Range(found) = {}) /\ (missing = <<>> => Range(missing) = {})
    BY DEF Range
  <2> HIDE DEF first, second
  <2>10. CASE found # <<>> /\ missing # <<>>
    <3>1. PICK a : /\ first = <<a>> /\ a.status = 200 /\ DOMAIN a.props = DOMAIN found
                   /\ \A i \in DOMAIN found : a.props[i].name = found[i]
      BY <2>7, <2>10
    <3>2. PICK b : /\ second = <<b>> /\ b.status = 404 /\ DOMAIN b.props = DOMAIN missing
                   /\ \A i \in DOMAIN missing : b.props[i].name = missing[i]
      BY <2>8, <2>10
    <3> DEFINE lists == <<found, missing>>
               stats == <<a, b>>
    <3>a. <<a>> \o <<b>> = stats
      BY Pair
    <3>3. Propstats(pf) = stats
      BY <2>1, <3>1, <3>2, <3>a
    <3>4. /\ DOMAIN stats = DOMAIN lists /\ DOMAIN lists = {1, 2}
          /\ stats[1] = a /\ stats[2] = b /\ lists[1] = found /\ lists[2] = missing
      OBVIOUS
    <3> HIDE DEF lists, stats
    <3>5. \A x : x \in Asked(body) <=> \E k \in DOMAIN lists : x \in Range(lists[k])
      BY <2>4, <3>4
    <3>6. \A k \in DOMAIN lists :
             /\ DOMAIN stats[k].props = DOMAIN lists[k]
             /\ \A i \in DOMAIN lists[k] :
                   /\ stats[k].props[i].name = lists[k][i]
                   /\ stats[k].status = 200 <=> lists[k][i] \in Range(collectionProps)
             /\ IsInjective(lists[k])
             /\ \A j \in DOMAIN lists : j # k => Range(lists[j]) \cap Range(lists[k]) = {}
      <4>1. TAKE k \in DOMAIN lists
      <4>2. CASE k = 1
        BY <2>3, <2>4, <2>9, <3>1, <3>4, <4>2
      <4>3. CASE k = 2
        BY <2>3, <2>4, <2>9, <3>2, <3>4, <4>3
      <4> QED  BY <3>4, <4>2, <4>3
    <3>7. EachOnce(stats, Asked(body))
      BY <3>4, <3>5, <3>6, EachListOnce
    <3> QED  BY <3>3, <3>7
  <2>11. CASE found # <<>> /\ missing = <<>>
    <3>1. PICK a : /\ first = <<a>> /\ a.status = 200 /\ DOMAIN a.props = DOMAIN found
                   /\ \A i \in DOMAIN found : a.props[i].name = found[i]
      BY <2>7, <2>11
    <3> DEFINE lists == <<found>>
               stats == <<a>>
    <3>2. Propstats(pf) = stats
      BY <2>1, <2>6, <2>11, <3>1
    <3>3. /\ DOMAIN stats = DOMAIN lists /\ DOMAIN lists = {1}
          /\ stats[1] = a /\ lists[1] = found
      OBVIOUS
    <3> HIDE DEF lists, stats
    <3>4. \A x : x \in Asked(body) <=> \E k \in DOMAIN lists : x \in Range(lists[k])
      BY <2>4, <2>9, <2>11, <3>3
    <3>5. EachOnce(stats, Asked(body))
      BY <2>3, <2>4, <2>9, <3>1, <3>3, <3>4, EachListOnce
    <3> QED  BY <3>2, <3>5
  <2>12. CASE found = <<>> /\ missing # <<>>
    <3>1. PICK b : /\ second = <<b>> /\ b.status = 404 /\ DOMAIN b.props = DOMAIN missing
                   /\ \A i \in DOMAIN missing : b.props[i].name = missing[i]
      BY <2>8, <2>12
    <3> DEFINE lists == <<missing>>
               stats == <<b>>
    <3>2. Propstats(pf) = stats
      BY <2>1, <2>5, <2>12, <3>1
    <3>3. /\ DOMAIN stats = DOMAIN lists /\ DOMAIN lists = {1}
          /\ stats[1] = b /\ lists[1] = missing
      OBVIOUS
    <3> HIDE DEF lists, stats
    <3>4. \A x : x \in Asked(body) <=> \E k \in DOMAIN lists : x \in Range(lists[k])
      BY <2>4, <2>9, <2>12, <3>3
    <3>5. EachOnce(stats, Asked(body))
      BY <2>3, <2>4, <2>9, <3>1, <3>3, <3>4, EachListOnce
    <3> QED  BY <3>2, <3>5
  <2>13. CASE found = <<>> /\ missing = <<>>
    <3> DEFINE lists == <<>>
               stats == <<>>
    <3>1. Propstats(pf) = stats
      BY <2>1, <2>5, <2>6, <2>13
    <3>2. DOMAIN stats = {} /\ DOMAIN lists = {}
      OBVIOUS
    <3> HIDE DEF lists, stats
    <3>3. \A x : x \in Asked(body) <=> \E k \in DOMAIN lists : x \in Range(lists[k])
      BY <2>4, <2>9, <2>13, <3>2
    <3>4. EachOnce(stats, Asked(body))
      BY <3>2, <3>3, EachListOnce
    <3> QED  BY <3>1, <3>4
  <2> QED  BY <2>10, <2>11, <2>12, <2>13
<1> QED  BY <1>1, <1>2, <1>3 DEF Kinds

-----------------------------------------------------------------------------
(* The invariant.                                                           *)

\* The configuration is an accepted one, and the trees are those of its mounts.
TreesInv ==
    /\ Configured(config)
    /\ user \in DOMAIN config.mounts
    /\ DOMAIN trees = DOMAIN config.mounts
    /\ \A u \in DOMAIN trees : TreeOf(trees[u], config.mounts[u])

\* What is known about the last answer besides ResolvesByPrefix: the upstream is
\* asked for names, those that the client asked for were checked, and what is listed leads to nodes of the tree.
AnswerInv ==
    /\ answer.kind \in {"synthetic", "forwarded", "listing"} => answer.segs \in Seq(Name)
    /\ answer.kind = "forwarded" =>
          /\ SafeNames(answer.segs)
          /\ answer.mount \in mounts
          /\ answer.url.segs \in Seq(Name)
          /\ \E dir \in BOOLEAN : answer.url.path = Encode(answer.url.segs, dir)
    /\ answer.kind = "listing" =>
          \A i \in DOMAIN answer.entries :
             \E node \in Nodes(mounts) : answer.entries[i].href = Encode(node, TRUE)

\* Where the mount is on its upstream.
Target(m) == config.base[m.upstream] \o m.target

\* What is known about the way to the last answer besides ShownIfInside and
\* HrefLeadsBack: a resource below the target was shown below the mount's path.
FromInv ==
    /\ from.kind = "synthetic" => answer.kind \in {"synthetic", "forwarded", "not allowed"}
    /\ from.kind = "propfind" => answer.kind \in {"listing", "forbidden", "bad request"}
    /\ answer.kind = "listed" => from.kind = "upstream"
    /\ from.kind = "upstream" =>
          /\ from.resource \in Seq(Name)
          /\ from.mount \in mounts
          /\ answer.kind = "listed" /\ shown # Nothing =>
                \E dir \in BOOLEAN :
                   shown.path = Encode(from.mount.path
                                       \o CutPrefix(from.resource, Target(from.mount)), dir)

IInv ==
    /\ TreesInv /\ AnswerInv /\ FromInv
    /\ ResolvesByPrefix /\ AskedIsAnswered /\ ShownIfInside /\ HrefLeadsBack

-----------------------------------------------------------------------------
(* The trees.                                                               *)

LEMMA ConfiguredMounts ==
    ASSUME NEW c, Configured(c), NEW u \in DOMAIN c.mounts
    PROVE  IsFiniteSet(c.mounts[u]) /\ Mounts(c.mounts[u]) /\ PrefixFree(c.mounts[u])
<1>1. \A m \in c.mounts[u] : m.path \in Seq(Name) /\ m # NoMount
  BY DEF Configured
<1> QED  BY <1>1, NameFacts DEF Configured, Mounts

LEMMA TreeIsExact ==
    ASSUME NEW M, NEW tree, TreeOf(tree, M), Mounts(M), PrefixFree(M)
    PROVE  /\ tree.nodes = {<<>>} \cup UNION {{SubSeq(m.path, 1, i) : i \in 0..Len(m.path)} : m \in M}
           /\ {tree.mount[n] : n \in tree.nodes} \ {NoMount} = M
           /\ \A n \in tree.nodes : tree.mount[n] # NoMount => names(tree, n) = {}
<1>1. tree.nodes = {<<>>} \cup UNION {{SubSeq(m.path, 1, i) : i \in 0..Len(m.path)} : m \in M}
  BY DEF TreeOf, Nodes, Beginnings
<1>2. \A m \in M : m.path \in Seq(Segment) /\ m # NoMount /\ m.path \in tree.nodes
  <2>1. \A m \in M : m.path \in Seq(Segment) /\ m # NoMount
    BY DEF Mounts
  <2>2. ASSUME NEW m \in M PROVE m.path \in tree.nodes
    <3>1. 0 \in 0..Len(m.path)
      BY <2>1
    <3> QED  BY <3>1, PathIsNode DEF TreeOf
  <2> QED  BY <2>1, <2>2
<1>3. {tree.mount[n] : n \in tree.nodes} \ {NoMount} = M
  <2>1. ASSUME NEW m \in M PROVE m \in {tree.mount[n] : n \in tree.nodes} \ {NoMount}
    BY <1>2 DEF TreeOf
  <2>2. ASSUME NEW n \in tree.nodes, tree.mount[n] # NoMount PROVE tree.mount[n] \in M
    BY <2>2 DEF TreeOf
  <2> QED  BY <2>1, <2>2
<1>4. ASSUME NEW n \in tree.nodes, tree.mount[n] # NoMount,
             NEW c \in tree.nodes, Len(c) = Len(n) + 1, HasPrefix(c, n)
      PROVE  FALSE
  <2>1. PICK m \in M : n = m.path
    BY <1>4 DEF TreeOf
  <2>2. n \in Seq(Segment) /\ Len(n) \in Nat /\ Len(n) \in 0..Len(n)
    BY <1>2, <2>1
  <2>3. c # <<>>
    BY <1>4, <2>2
  <2>4. PICK k \in M : c \in Beginnings(k.path)
    BY <2>3 DEF TreeOf, Nodes
  <2>5. PICK i \in 0..Len(k.path) : c = SubSeq(k.path, 1, i)
    BY <2>4 DEF Beginnings
  <2>6. k.path \in Seq(Segment) /\ c \in Seq(Segment) /\ Len(c) = i /\ HasPrefix(k.path, c)
    BY <1>2, <2>5, BeginningFacts, BeginningIsPrefix
  <2>7. n = SubSeq(c, 1, Len(n)) /\ Len(n) \in 0..Len(c)
    BY <1>4, <2>2, <2>6, PrefixIsBeginning
  <2>8. Len(n) \in 0..Len(k.path) /\ SubSeq(k.path, 1, Len(n)) = n
    BY <2>6, <2>7, SameBeginnings
  <2>9. HasPrefix(k.path, m.path)
    BY <2>1, <2>6, <2>8, BeginningIsPrefix
  <2>10. k = m
    BY <2>9 DEF PrefixFree
  <2>11. Len(c) <= Len(k.path) /\ k.path = n
    BY <2>1, <2>5, <2>6, <2>10
  <2> QED  BY <1>4, <2>2, <2>11
<1>5. \A n \in tree.nodes : tree.mount[n] # NoMount => names(tree, n) = {}
  BY <1>4 DEF names
<1> QED  BY <1>1, <1>3, <1>5

LEMMA InitTrees == Init => TreesInv
<1> SUFFICES ASSUME Init PROVE TreesInv
  OBVIOUS
<1>1. Configured(config)
  <2>1. PICK file \in Files : Accepted(file) /\ config = parse(file)
    BY DEF Init
  <2> QED  BY <2>1, FilesAssumption, AcceptedIsConfigured
<1>2. user \in DOMAIN config.mounts /\ trees = [u \in DOMAIN config.mounts |-> newRoot(config.mounts[u])]
  BY DEF Init
<1>3. ASSUME NEW u \in DOMAIN config.mounts PROVE TreeOf(newRoot(config.mounts[u]), config.mounts[u])
  BY <1>1, ConfiguredMounts, NewRootIsTree
<1> QED  BY <1>1, <1>2, <1>3 DEF TreesInv

\* No action changes the configuration, the trees or the user.
LEMMA TreesStay == [Next]_vars => UNCHANGED <<config, trees, user>>
BY DEF Next, vars, Request, GetDirectory, ListDirectory, FollowEntry, NameResource, FollowHref,
       StartOver

LEMMA NextTrees == TreesInv /\ UNCHANGED <<config, trees, user>> => TreesInv'
BY DEF TreesInv

LEMMA InvTrees == Spec => []TreesInv
<1>1. Init => TreesInv
  BY InitTrees
<1>2. TreesInv /\ [Next]_vars => TreesInv'
  BY TreesStay, NextTrees
<1> QED  BY <1>1, <1>2, PTL DEF Spec

(* The tree that newState builds from any accepted configuration holds the  *)
(* nodes from the root to each mount and no others, whatever the order in   *)
(* which the mounts are inserted, and no mount hides another.               *)
THEOREM TreesAlwaysExact == Spec => []TreesExact
<1>1. TreesInv => TreesExact
  <2> SUFFICES ASSUME TreesInv PROVE TreesExact
    OBVIOUS
  <2>1. TreeOf(trees[user], mounts) /\ Mounts(mounts) /\ PrefixFree(mounts)
    BY ConfiguredMounts DEF TreesInv, mounts
  <2> QED  BY <2>1, TreeIsExact DEF TreesExact
<1> QED  BY <1>1, InvTrees, PTL

-----------------------------------------------------------------------------
(* The answers.                                                             *)

\* What is left of a path below a prefix.
LEMMA CutFacts ==
    ASSUME NEW s \in Seq(Name), NEW p \in Seq(Name), HasPrefix(s, p)
    PROVE  CutPrefix(s, p) \in Seq(Name) /\ s = p \o CutPrefix(s, p)
<1> DEFINE rest == CutPrefix(s, p)
<1>1. Len(s) \in Nat /\ Len(p) \in Nat /\ Len(p) <= Len(s) /\ \A i \in 1..Len(p) : s[i] = p[i]
  BY DEF HasPrefix
<1>2. /\ rest \in Seq(Name) /\ Len(rest) = Len(s) - Len(p)
      /\ \A i \in 1..(Len(s) - Len(p)) : rest[i] = s[Len(p) + i]
  <2>1. CASE Len(p) = Len(s)
    <3>1. rest = <<>>
      BY <1>1, <2>1, SubSeqEmpty DEF CutPrefix
    <3>2. rest \in Seq(Name) /\ Len(rest) = 0
      BY <3>1
    <3> QED  BY <1>1, <2>1, <3>2
  <2>2. CASE Len(p) < Len(s)
    <3>1. /\ Len(p) + 1 \in Int /\ Len(s) \in Int
          /\ \A i \in (Len(p) + 1)..Len(s) : s[i] \in Name
      BY <1>1
    <3>2. /\ rest \in Seq(Name)
          /\ Len(rest) = IF Len(p) + 1 <= Len(s) THEN Len(s) - (Len(p) + 1) + 1 ELSE 0
          /\ \A i \in 1..(Len(s) - (Len(p) + 1) + 1) : rest[i] = s[(Len(p) + 1) + i - 1]
      BY <3>1, SubSeqProperties DEF CutPrefix
    <3> HIDE DEF rest
    <3> QED  BY <1>1, <2>2, <3>2
  <2> QED  BY <1>1, <2>1, <2>2
<1> HIDE DEF rest
<1>3. /\ p \o rest \in Seq(Name) /\ Len(p \o rest) = Len(p) + Len(rest)
      /\ \A i \in 1..(Len(p) + Len(rest)) :
            (p \o rest)[i] = IF i <= Len(p) THEN p[i] ELSE rest[i - Len(p)]
  BY <1>2, ConcatProperties
<1>4. Len(p \o rest) = Len(s)
  BY <1>1, <1>2, <1>3
<1>5. ASSUME NEW i \in 1..Len(s) PROVE s[i] = (p \o rest)[i]
  <2>1. CASE i <= Len(p)
    BY <1>1, <1>2, <1>3, <2>1
  <2>2. CASE ~(i <= Len(p))
    <3>1. i - Len(p) \in 1..(Len(s) - Len(p)) /\ Len(p) + (i - Len(p)) = i
      BY <1>1, <2>2
    <3> QED  BY <1>1, <1>2, <1>3, <2>2, <3>1
  <2> QED  BY <2>1, <2>2
<1>6. s = p \o rest
  BY <1>3, <1>4, <1>5, SeqEqual
<1> QED  BY <1>2, <1>6 DEF rest

LEMMA JoinFacts ==
    ASSUME NEW p \in Seq(Name), NEW rest \in Seq(Name)
    PROVE  /\ p \o rest \in Seq(Name)
           /\ HasPrefix(p \o rest, p)
           /\ CutPrefix(p \o rest, p) = rest
<1>1. Len(p) \in Nat /\ Len(rest) \in Nat
  OBVIOUS
<1>2. /\ p \o rest \in Seq(Name) /\ Len(p \o rest) = Len(p) + Len(rest)
      /\ \A i \in 1..(Len(p) + Len(rest)) :
            (p \o rest)[i] = IF i <= Len(p) THEN p[i] ELSE rest[i - Len(p)]
  BY ConcatProperties
<1>3. HasPrefix(p \o rest, p)
  BY <1>1, <1>2 DEF HasPrefix
<1>4. p \o rest = p \o CutPrefix(p \o rest, p) /\ CutPrefix(p \o rest, p) \in Seq(Name)
  BY <1>2, <1>3, CutFacts
<1> DEFINE cut == CutPrefix(p \o rest, p)
<1>5. /\ Len(cut) \in Nat /\ Len(p \o cut) = Len(p) + Len(cut)
      /\ \A i \in 1..(Len(p) + Len(cut)) :
            (p \o cut)[i] = IF i <= Len(p) THEN p[i] ELSE cut[i - Len(p)]
  BY <1>4, ConcatProperties
<1> HIDE DEF cut
<1>6. Len(cut) = Len(rest)
  BY <1>1, <1>2, <1>4, <1>5 DEF cut
<1>7. ASSUME NEW i \in 1..Len(rest) PROVE cut[i] = rest[i]
  <2>1. Len(p) + i \in 1..(Len(p) + Len(rest)) /\ ~(Len(p) + i <= Len(p)) /\ Len(p) + i - Len(p) = i
    BY <1>1
  <2>2. (p \o rest)[Len(p) + i] = rest[i]
    BY <1>2, <2>1
  <2>3. (p \o cut)[Len(p) + i] = cut[i]
    BY <1>5, <1>6, <2>1
  <2> QED  BY <1>4, <2>2, <2>3 DEF cut
<1>8. cut = rest
  BY <1>4, <1>6, <1>7, SeqEqual DEF cut
<1> QED  BY <1>2, <1>3, <1>8 DEF cut

\* The root is always there.
LEMMA RootIsFound ==
    ASSUME NEW M, NEW tree, TreeOf(tree, M)
    PROVE  resolve(tree, <<>>).kind # "missing"
<1> DEFINE stops == Stops(tree, <<>>)
           first == CHOOSE i \in stops : \A j \in stops : i <= j
           end == SubSeq(<<>>, 1, first)
           found == resolve(tree, <<>>)
<1>1. found = IF stops = {} THEN [kind |-> "synthetic", node |-> <<>>]
              ELSE IF end \notin tree.nodes THEN [kind |-> "missing"]
              ELSE [kind |-> "mount", mount |-> tree.mount[end],
                    rest |-> SubSeq(<<>>, first + 1, Len(<<>>))]
  BY DEF resolve, Stops
<1>2. stops \subseteq {0}
  BY DEF Stops
<1> HIDE DEF stops, found
<1>3. CASE stops = {}
  <2>1. found.kind = "synthetic"
    BY <1>1, <1>3
  <2> QED  BY <2>1 DEF found
<1>4. CASE stops = {0}
  <2>1. first = 0
    BY <1>4
  <2>2. end = <<>>
    BY <2>1, SubSeqEmpty
  <2>3. end \in tree.nodes
    BY <2>2 DEF TreeOf, Nodes
  <2> HIDE DEF end, first
  <2>4. stops # {}
    BY <1>4
  <2>5. found = [kind |-> "mount", mount |-> tree.mount[end],
                 rest |-> SubSeq(<<>>, first + 1, Len(<<>>))]
    BY <1>1, <2>3, <2>4
  <2>6. found.kind = "mount"
    BY <2>5
  <2> QED  BY <2>6 DEF found
<1> QED  BY <1>2, <1>3, <1>4

\* What serve makes of a path.
LEMMA ServeFacts ==
    ASSUME TreesInv, UNCHANGED <<config, trees, user>>, NEW path \in Seq(Segment), Serve(path)
    PROVE  LET parsed == Parse(path)
           IN  /\ answer'.kind \in {"bad request", "not found", "synthetic", "forwarded"}
               /\ answer'.kind = "bad request" <=> ~parsed.ok
               /\ parsed.ok => answer'.segs = parsed.segs /\ answer'.segs \in Seq(Name)
               /\ answer'.kind = "not found" => answer'.segs # <<>>
               /\ AnswerInv'
               /\ ResolvesByPrefix'
<1> DEFINE parsed == Parse(path)
           found == resolve(trees[user], parsed.segs)
<1>1. mounts' = mounts /\ config' = config
  BY DEF mounts
<1>2. CASE ~parsed.ok
  <2>1. answer' = [kind |-> "bad request"]
    BY <1>2 DEF Serve
  <2>2. answer'.kind = "bad request"
    BY <2>1
  <2>3. AnswerInv' /\ ResolvesByPrefix'
    BY <2>2 DEF AnswerInv, ResolvesByPrefix
  <2> QED  BY <1>2, <2>2, <2>3
<1>3. CASE parsed.ok
  <2> DEFINE above == {m \in mounts : HasPrefix(parsed.segs, m.path)}
             below == {m \in mounts : HasPrefix(m.path, parsed.segs)}
  <2>1. parsed.segs \in Seq(Name) /\ parsed.dir \in BOOLEAN /\ SafeNames(parsed.segs)
    BY <1>3, ParseType, ParseSafe
  <2>2. /\ found.kind = "mount" =>
              above = {found.mount} /\ found.rest = CutPrefix(parsed.segs, found.mount.path)
        /\ found.kind = "synthetic" => above = {} /\ (below # {} \/ parsed.segs = <<>>)
        /\ found.kind = "missing" => above = {} /\ below = {}
        /\ found.kind \in {"mount", "synthetic", "missing"}
    <3>1. TreeOf(trees[user], mounts) /\ Mounts(mounts) /\ PrefixFree(mounts)
      BY ConfiguredMounts DEF TreesInv, mounts
    <3>2. parsed.segs \in Seq(Segment)
      BY <2>1, NameFacts
    <3> HIDE DEF parsed
    <3> QED  BY <3>1, <3>2, ResolveByPrefix
  <2>a. found.kind = "missing" => parsed.segs # <<>>
    BY RootIsFound DEF TreesInv
  <2>3. answer' = CASE found.kind = "missing" -> [kind |-> "not found", segs |-> parsed.segs]
                    [] found.kind = "synthetic" -> [kind |-> "synthetic", segs |-> parsed.segs]
                    [] found.kind = "mount" ->
                         [kind |-> "forwarded", segs |-> parsed.segs, mount |-> found.mount,
                          url |-> upstreamURL(found.mount, found.rest, parsed.dir)]
    BY <1>3 DEF Serve
  <2> HIDE DEF parsed, found
  <2>4. CASE found.kind = "missing"
    <3>1. answer'.kind = "not found" /\ answer'.segs = parsed.segs
      BY <2>3, <2>4
    <3>2. AnswerInv'
      BY <3>1 DEF AnswerInv
    <3>3. ResolvesByPrefix'
      BY <1>1, <2>2, <2>4, <3>1 DEF ResolvesByPrefix
    <3> QED  BY <1>3, <2>1, <2>4, <2>a, <3>1, <3>2, <3>3 DEF parsed
  <2>5. CASE found.kind = "synthetic"
    <3>1. answer'.kind = "synthetic" /\ answer'.segs = parsed.segs
      BY <2>3, <2>5
    <3>2. AnswerInv'
      BY <2>1, <3>1 DEF AnswerInv
    <3>3. ResolvesByPrefix'
      BY <1>1, <2>2, <2>5, <3>1 DEF ResolvesByPrefix
    <3> QED  BY <1>3, <2>1, <3>1, <3>2, <3>3 DEF parsed
  <2>6. CASE found.kind = "mount"
    <3> DEFINE m == found.mount
    <3>1. /\ answer'.kind = "forwarded" /\ answer'.segs = parsed.segs /\ answer'.mount = m
          /\ answer'.url = upstreamURL(m, found.rest, parsed.dir)
      BY <2>3, <2>6
    <3>2. m \in mounts /\ HasPrefix(parsed.segs, m.path) /\ above = {m}
          /\ found.rest = CutPrefix(parsed.segs, m.path)
      BY <2>2, <2>6
    <3> HIDE DEF m
    <3>3. m.path \in Seq(Name) /\ m.target \in Seq(Name) /\ config.base[m.upstream] \in Seq(Name)
      BY <3>2 DEF TreesInv, Configured, mounts
    <3>4. CutPrefix(parsed.segs, m.path) \in Seq(Name)
      BY <2>1, <3>2, <3>3, CutFacts
    <3> DEFINE segs == config.base[m.upstream] \o m.target \o CutPrefix(parsed.segs, m.path)
    <3>5. segs \in Seq(Name)
      BY <3>3, <3>4, ConcatProperties
    <3>6. /\ answer'.url.upstream = m.upstream /\ answer'.url.segs = segs
          /\ answer'.url.path = Encode(segs, parsed.dir)
      <4>1. upstreamURL(m, CutPrefix(parsed.segs, m.path), parsed.dir)
               = [upstream |-> m.upstream, segs |-> segs, path |-> Encode(segs, parsed.dir)]
        BY DEF upstreamURL
      <4>2. answer'.url = upstreamURL(m, CutPrefix(parsed.segs, m.path), parsed.dir)
        BY <3>1, <3>2
      <4> HIDE DEF segs
      <4> QED  BY <4>1, <4>2
    <3> HIDE DEF segs
    <3>7. AnswerInv'
      BY <1>1, <2>1, <3>1, <3>2, <3>5, <3>6 DEF AnswerInv
    <3>8. ResolvesByPrefix'
      BY <1>1, <3>1, <3>2, <3>6 DEF ResolvesByPrefix, segs
    <3> QED  BY <1>3, <2>1, <3>1, <3>7, <3>8 DEF parsed
  <2> QED  BY <2>2, <2>4, <2>5, <2>6
<1> QED  BY <1>2, <1>3

-----------------------------------------------------------------------------
(* What upstreams write.                                                    *)

\* What ParseHref takes a segment for.
Taken(s) == IF BadEscape(s) THEN s ELSE PathUnescape(s)

\* How a segment can be written.
Writable(s, how) == how \in {"strict", "full"} \/ (how = "none" /\ PlainSegment(s))
AllWritable(r, how) == \A i \in DOMAIN r : Writable(r[i], how)

\* However an upstream writes a segment, it is taken for what it is.
LEMMA WriteFacts ==
    ASSUME NEW s \in Segment, NEW how, Writable(s, how)
    PROVE  /\ Write(s, how) \in Segment
           /\ Taken(Write(s, how)) = s
           /\ Write(s, how) = <<>> <=> s = <<>>
<1>1. Len(s) \in Nat /\ DOMAIN s = 1..Len(s) /\ \A i \in 1..Len(s) : s[i] \in Character
  BY DEF Segment
<1>2. CASE how = "strict"
  <2>1. <<s>> \in Seq(Segment) /\ Len(<<s>>) = 1 /\ <<s>>[1] = s
    OBVIOUS
  <2>2. Encode(<<s>>, FALSE)[1] = Escaped(s)
    <3> DEFINE one == <<s>>
    <3>1. one \in Seq(Segment) /\ 1 \in 1..Len(one) /\ one[1] = s
      BY <2>1
    <3> HIDE DEF one
    <3>2. \A i \in 1..Len(one) : Encode(one, FALSE)[i] = Escaped(one[i])
      BY <3>1, EncodeFacts
    <3>3. Encode(one, FALSE)[1] = Escaped(s)
      BY <3>1, <3>2
    <3> QED  BY <3>3 DEF one
  <2>3. Write(s, how) = Escaped(s)
    BY <1>2, <2>2 DEF Write
  <2> QED  BY <2>3, EscapedDecodes DEF Taken
<1>3. CASE how = "full"
  <2> DEFINE e == [k \in DOMAIN s |-> [s[k] EXCEPT !.n = @ + 1]]
  <2>1. Write(s, how) = e
    BY <1>3 DEF Write
  <2>2. e \in [1..Len(s) -> Character] /\ \A i \in 1..Len(s) : e[i].c = s[i].c /\ e[i].n = s[i].n + 1
    BY <1>1 DEF Character
  <2> HIDE DEF e
  <2>3. e \in Segment /\ Len(e) = Len(s)
    BY <1>1, <2>2, SeqDef DEF Segment
  <2>4. ~BadEscape(e)
    <3> SUFFICES ASSUME NEW i \in 1..Len(s), e[i] = [c |-> "%", n |-> 0] PROVE FALSE
      BY <2>2 DEF BadEscape
    <3>1. e[i].n = 0
      OBVIOUS
    <3>2. s[i].n \in Nat
      BY <1>1 DEF Character
    <3> QED  BY <2>2, <3>1, <3>2
  <2>5. PathUnescape(e) = s
    <3> DEFINE d == PathUnescape(e)
    <3>1. d \in Segment /\ Len(d) = Len(s)
      BY <2>3, UnescapeType
    <3>2. \A i \in 1..Len(s) : d[i] = [e[i] EXCEPT !.n = IF @ = 0 THEN 0 ELSE @ - 1]
      BY <2>2 DEF PathUnescape
    <3>3. ASSUME NEW i \in 1..Len(s) PROVE d[i] = s[i]
      <4>1. e[i] \in Character /\ s[i] \in Character
        BY <1>1, <2>2
      <4>2. d[i].c = s[i].c
        BY <2>2, <3>2, <4>1 DEF Character
      <4>3. d[i].n = s[i].n
        <5>1. d[i].n = IF e[i].n = 0 THEN 0 ELSE e[i].n - 1
          BY <3>2, <4>1 DEF Character
        <5>2. s[i].n \in Nat
          BY <4>1 DEF Character
        <5>3. e[i].n = s[i].n + 1
          BY <2>2
        <5> HIDE DEF d
        <5> QED  BY <5>1, <5>2, <5>3
      <4>4. d[i] \in Character
        BY <1>1, <3>1 DEF Segment
      <4> QED  BY <4>1, <4>2, <4>3, <4>4 DEF Character
    <3> HIDE DEF d
    <3>4. d \in Seq(Character) /\ s \in Seq(Character) /\ Len(d) = Len(s)
      BY <3>1 DEF Segment
    <3>5. d = s
      BY <3>3, <3>4, SeqEqual
    <3> QED  BY <3>5 DEF d
  <2>6. e = <<>> <=> s = <<>>
    BY <1>1, <2>3 DEF Segment
  <2> QED  BY <2>1, <2>3, <2>4, <2>5, <2>6 DEF Taken
<1>4. CASE how = "none" /\ PlainSegment(s)
  <2>1. Write(s, how) = s
    BY <1>4 DEF Write
  <2>2. PathUnescape(s) = s
    <3> DEFINE d == PathUnescape(s)
    <3>1. d \in Segment /\ Len(d) = Len(s)
      BY UnescapeType
    <3>2. \A i \in 1..Len(s) : s[i] \in Character /\ s[i].n = 0
      BY <1>1, <1>4 DEF PlainSegment
    <3>3. \A i \in 1..Len(s) : d[i] = [s[i] EXCEPT !.n = IF @ = 0 THEN 0 ELSE @ - 1]
      BY <1>1 DEF PathUnescape
    <3>4. \A i \in 1..Len(s) : d[i] = s[i]
      BY <3>2, <3>3 DEF Character
    <3> HIDE DEF d
    <3>5. d \in Seq(Character) /\ s \in Seq(Character)
      BY <3>1 DEF Segment
    <3>6. d = s
      BY <3>1, <3>4, <3>5, SeqEqual
    <3> QED  BY <3>6 DEF d
  <2> QED  BY <2>1, <2>2 DEF Taken
<1> QED  BY <1>2, <1>3, <1>4 DEF Writable

\* What is taken for itself.
LEMMA PlainTaken ==
    /\ <<>> \in Segment /\ dot \in Segment /\ dotdot \in Segment
    /\ Taken(<<>>) = <<>> /\ Taken(dot) = dot /\ Taken(dotdot) = dotdot
<1>1. [c |-> ".", n |-> 0] \in Character
  BY DEF Character, Feared
<1>2. <<>> \in Segment /\ PlainSegment(<<>>)
  BY DEF Segment, PlainSegment
<1>3. dot \in Segment /\ Len(dot) = 1 /\ dot[1] = [c |-> ".", n |-> 0]
  BY <1>1 DEF dot, Segment
<1>4. dotdot \in Segment /\ Len(dotdot) = 2 /\ dotdot[1] = dot[1] /\ dotdot[2] = dot[1]
  BY <1>3, ConcatProperties DEF dotdot, Segment
<1>5. PlainSegment(dot) /\ PlainSegment(dotdot)
  <2>1. DOMAIN dot = 1..1 /\ DOMAIN dotdot = 1..2
    BY <1>3, <1>4 DEF Segment
  <2>2. dot[1].n = 0
    BY <1>3
  <2> QED  BY <1>4, <2>1, <2>2 DEF PlainSegment
<1>6. \A s \in Segment : PlainSegment(s) => Taken(s) = s
  <2> SUFFICES ASSUME NEW s \in Segment, PlainSegment(s) PROVE Taken(s) = s
    OBVIOUS
  <2>1. Writable(s, "none") /\ Write(s, "none") = s
    BY DEF Writable, Write
  <2> QED  BY <2>1, WriteFacts
<1> QED  BY <1>2, <1>3, <1>4, <1>5, <1>6

\* What the segments of a path are taken for.
TakenPath(path) == [i \in DOMAIN path |-> Taken(path[i])]

LEMMA TakenType ==
    ASSUME NEW path \in Seq(Segment)
    PROVE  /\ TakenPath(path) \in Seq(Segment)
           /\ Len(TakenPath(path)) = Len(path)
           /\ \A i \in 1..Len(path) : TakenPath(path)[i] = Taken(path[i])
<1>1. Len(path) \in Nat /\ DOMAIN path = 1..Len(path) /\ \A i \in 1..Len(path) : path[i] \in Segment
  OBVIOUS
<1>2. \A i \in 1..Len(path) : Taken(path[i]) \in Segment
  BY <1>1, UnescapeType DEF Taken
<1>3. TakenPath(path) \in [1..Len(path) -> Segment]
      /\ \A i \in 1..Len(path) : TakenPath(path)[i] = Taken(path[i])
  BY <1>1, <1>2 DEF TakenPath
<1> QED  BY <1>1, <1>3, SeqDef

\* The directory of the request that was answered.
LEMMA DirectoryFacts ==
    ASSUME NEW u \in Seq(Name), NEW dir \in BOOLEAN
    PROVE  LET base == Encode(u, dir)
               d == IF IsDir(base) THEN u ELSE DropLast(u)
           IN  /\ d \in Seq(Name)
               /\ Directory(base) \in Seq(Segment)
               /\ Len(Directory(base)) = Len(d)
               /\ \A i \in 1..Len(d) : Taken(Directory(base)[i]) = d[i]
<1> DEFINE base == Encode(u, dir)
           d == IF IsDir(base) THEN u ELSE DropLast(u)
<1>1. /\ u \in Seq(Segment) /\ Len(u) \in Nat
      /\ \A i \in 1..Len(u) : u[i] \in Segment \ {<<>>, dot, dotdot}
  BY NameFacts
<1>2. /\ base \in Seq(Segment)
      /\ Len(base) = Len(u) + (IF dir \/ u = <<>> THEN 1 ELSE 0)
      /\ \A i \in 1..Len(u) : base[i] = Escaped(u[i])
      /\ \A i \in 1..Len(base) : i > Len(u) => base[i] = <<>>
  BY <1>1, EncodeFacts
<1>3. \A i \in 1..Len(u) : Taken(base[i]) = u[i] /\ base[i] # <<>>
  BY <1>1, <1>2, EscapedDecodes DEF Taken
<1> HIDE DEF base
<1>4. CASE dir \/ u = <<>>
  <2>1. Len(base) = Len(u) + 1
    BY <1>2, <1>4
  <2>2. base[Len(base)] = <<>> /\ base # <<>>
    BY <1>1, <1>2, <2>1
  <2>3. d = u
    BY <2>2 DEF IsDir, Last
  <2>4. Len(base) - 1 = Len(u) /\ Len(u) \in 0..Len(base)
    BY <1>1, <2>1
  <2>5. /\ Directory(base) \in Seq(Segment) /\ Len(Directory(base)) = Len(u)
        /\ \A i \in 1..Len(u) : Directory(base)[i] = base[i]
    BY <1>2, <2>4, BeginningFacts DEF Directory, DropLast
  <2> QED  BY <1>3, <2>3, <2>5 DEF base
<1>5. CASE ~(dir \/ u = <<>>)
  <2>1. Len(base) = Len(u) /\ Len(u) >= 1
    BY <1>1, <1>2, <1>5
  <2>2. base[Len(base)] # <<>>
    BY <1>1, <1>3, <2>1
  <2>3. d = DropLast(u)
    BY <2>2 DEF IsDir, Last
  <2>4. Len(u) - 1 \in 0..Len(u) /\ Len(u) - 1 \in 0..Len(base) /\ Len(base) - 1 = Len(u) - 1
    BY <1>1, <2>1
  <2>5. /\ Directory(base) \in Seq(Segment) /\ Len(Directory(base)) = Len(u) - 1
        /\ \A i \in 1..(Len(u) - 1) : Directory(base)[i] = base[i]
    BY <1>2, <2>4, BeginningFacts DEF Directory, DropLast
  <2>6. d \in Seq(Name) /\ Len(d) = Len(u) - 1 /\ \A i \in 1..(Len(u) - 1) : d[i] = u[i]
    BY <2>3, <2>4, NamesBeginning DEF DropLast
  <2>7. \A i \in 1..(Len(u) - 1) : i \in 1..Len(u)
    BY <1>1
  <2> HIDE DEF d
  <2> QED  BY <1>3, <2>5, <2>6, <2>7 DEF base, d
<1> QED  BY <1>4, <1>5

\* A relative reference from d to r: up to the first n names, which they have in
\* common, and down, and then nowhere.
Way(p, d, r, n) ==
    LET up == Len(d) - n
        steps == up + (Len(r) - n)
    IN  /\ n \in 0..Len(r) /\ n <= Len(d)
        /\ p \in Seq(Segment) /\ p # <<>> /\ p # <<<<>>>>
        /\ steps <= Len(p)
        /\ \A i \in 1..n : d[i] = r[i]
        /\ \A i \in 1..up : p[i] = dotdot
        /\ \A i \in (up + 1)..steps : Taken(p[i]) = r[n + (i - up)]
        /\ \A i \in (steps + 1)..Len(p) : p[i] \in {<<>>, dot}

\* What a resource and a directory have in common.
LEMMA SharedFacts ==
    ASSUME NEW d \in Seq(Name), NEW r \in Seq(Name)
    PROVE  LET common == {n \in 0..Len(r) : HasPrefix(d, SubSeq(r, 1, n))}
               shared == CHOOSE n \in common : \A k \in common : k <= n
           IN  /\ shared \in 0..Len(r) /\ shared <= Len(d)
               /\ \A i \in 1..shared : d[i] = r[i]
<1> DEFINE common == {n \in 0..Len(r) : HasPrefix(d, SubSeq(r, 1, n))}
           distances == {k \in 0..Len(r) : Len(r) - k \in common}
<1>1. Len(r) \in Nat /\ Len(d) \in Nat
  OBVIOUS
<1>2. \A n \in common : n \in 0..Len(r) /\ n <= Len(d) /\ \A i \in 1..n : d[i] = r[i]
  <2> TAKE n \in common
  <2>1. n \in 0..Len(r) /\ HasPrefix(d, SubSeq(r, 1, n))
    OBVIOUS
  <2>2. Len(SubSeq(r, 1, n)) = n /\ \A i \in 1..n : SubSeq(r, 1, n)[i] = r[i]
    BY <2>1, NamesBeginning
  <2> QED  BY <1>1, <2>1, <2>2 DEF HasPrefix
<1>3. 0 \in common
  <2>1. 0 \in 0..Len(r)
    BY <1>1
  <2>2. Len(SubSeq(r, 1, 0)) = 0
    BY <2>1, NamesBeginning
  <2> QED  BY <1>1, <2>1, <2>2 DEF HasPrefix
<1>4. distances \in SUBSET Nat /\ Len(r) \in distances
  <2>1. Len(r) \in 0..Len(r) /\ Len(r) - Len(r) = 0
    BY <1>1
  <2> QED  BY <1>1, <1>3, <2>1
<1>5. PICK k \in distances : \A j \in distances : k <= j
  <2> HIDE DEF distances
  <2> QED  BY <1>4, Least
<1>6. Len(r) - k \in common /\ k \in Nat
  BY <1>1, <1>5
<1>7. \A n \in common : n <= Len(r) - k
  <2> TAKE n \in common
  <2>1. n \in 0..Len(r)
    BY <1>2
  <2>2. Len(r) - n \in 0..Len(r) /\ Len(r) - (Len(r) - n) = n
    BY <1>1, <2>1
  <2>3. Len(r) - n \in distances
    BY <2>2
  <2>4. k <= Len(r) - n
    BY <1>5, <2>3
  <2> HIDE DEF common, distances
  <2> QED  BY <1>1, <1>6, <2>1, <2>4
<1> DEFINE shared == CHOOSE n \in common : \A j \in common : j <= n
<1>8. shared \in common
  <2>1. \E n \in common : \A j \in common : j <= n
    BY <1>6, <1>7
  <2> HIDE DEF common
  <2> QED  BY <2>1
<1> HIDE DEF common
<1>9. /\ shared \in 0..Len(r) /\ shared <= Len(d)
      /\ \A i \in 1..shared : d[i] = r[i]
  BY <1>2, <1>8
<1> QED  BY <1>9 DEF common

\* The references that an upstream writes are such ways.
LEMMA RelativeIsWay ==
    ASSUME NEW d \in Seq(Name), NEW r \in Seq(Name), NEW how,
           AllWritable(r, how)
    PROVE  \E n : Way(RelativePath(d, r, how), d, r, n)
<1> DEFINE common == {n \in 0..Len(r) : HasPrefix(d, SubSeq(r, 1, n))}
           shared == CHOOSE n \in common : \A k \in common : k <= n
           down == SubSeq(r, shared + 1, Len(r))
           ups == [i \in 1..(Len(d) - shared) |-> dotdot]
           downs == [i \in DOMAIN down |-> Write(down[i], how)]
           steps == ups \o downs
           p == RelativePath(d, r, how)
<1>1. shared \in 0..Len(r) /\ shared <= Len(d) /\ \A i \in 1..shared : d[i] = r[i]
  BY SharedFacts
<1>2. p = IF steps = <<>> THEN <<dot>> ELSE steps
  BY DEF RelativePath
<1> HIDE DEF shared, p
<1>3. Len(r) \in Nat /\ Len(d) \in Nat /\ shared \in Nat
  BY <1>1
<1> DEFINE up == Len(d) - shared
           far == Len(r) - shared
<1>4. up \in Nat /\ far \in Nat
  BY <1>1, <1>3
<1>5. ups \in Seq(Segment) /\ Len(ups) = up /\ \A i \in 1..up : ups[i] = dotdot
  <2>1. ups \in [1..up -> Segment] /\ \A i \in 1..up : ups[i] = dotdot
    BY PlainTaken
  <2> HIDE DEF ups, up
  <2> QED  BY <1>4, <2>1, SeqDef
<1>6. /\ down \in Seq(Name) /\ Len(down) = far
      /\ \A i \in 1..far : down[i] = r[shared + i]
  <2>1. CASE far = 0
    <3>1. shared = Len(r)
      BY <1>3, <2>1
    <3>2. down = <<>>
      BY <1>3, <3>1, SubSeqEmpty
    <3> HIDE DEF down, far
    <3>3. down \in Seq(Name) /\ Len(down) = 0
      BY <3>2
    <3> QED  BY <2>1, <3>3
  <2>2. CASE far # 0
    <3>1. /\ shared + 1 \in Int /\ Len(r) \in Int /\ shared + 1 <= Len(r)
          /\ \A i \in (shared + 1)..Len(r) : r[i] \in Name
      BY <1>3, <1>4, <2>2
    <3>2. /\ down \in Seq(Name)
          /\ Len(down) = IF shared + 1 <= Len(r) THEN Len(r) - (shared + 1) + 1 ELSE 0
          /\ \A i \in 1..(Len(r) - (shared + 1) + 1) : down[i] = r[(shared + 1) + i - 1]
      BY <3>1, SubSeqProperties
    <3> HIDE DEF down
    <3> QED  BY <1>3, <3>1, <3>2
  <2> QED  BY <2>1, <2>2
<1>7. /\ downs \in Seq(Segment) /\ Len(downs) = far
      /\ \A i \in 1..far : Taken(downs[i]) = r[shared + i] /\ downs[i] # <<>>
  <2>1. DOMAIN down = 1..far
    BY <1>6
  <2>2. \A i \in 1..far : shared + i \in DOMAIN r /\ r[shared + i] \in Segment \ {<<>>, dot, dotdot}
    <3>1. \A i \in 1..far : shared + i \in 1..Len(r)
      BY <1>3, <1>4
    <3>2. DOMAIN r = 1..Len(r)
      OBVIOUS
    <3> QED  BY <3>1, <3>2, NameFacts
  <2>3. \A i \in 1..far : Writable(r[shared + i], how)
    BY <2>2 DEF AllWritable
  <2>4. \A i \in 1..far : /\ Write(r[shared + i], how) \in Segment
                          /\ Taken(Write(r[shared + i], how)) = r[shared + i]
                          /\ Write(r[shared + i], how) # <<>>
    BY <2>2, <2>3, WriteFacts
  <2>5. DOMAIN downs = 1..far /\ \A i \in 1..far : downs[i] = Write(r[shared + i], how)
    BY <1>6, <2>1
  <2>6. downs \in [1..far -> Segment]
    BY <2>1, <2>4, <2>5
  <2> HIDE DEF downs, far
  <2>7. downs \in Seq(Segment) /\ Len(downs) = far
    BY <1>4, <2>6, SeqDef
  <2> QED  BY <2>4, <2>5, <2>7
<1> HIDE DEF ups, downs, down, up, far
<1>8. /\ steps \in Seq(Segment) /\ Len(steps) = up + far
      /\ \A i \in 1..(up + far) :
            steps[i] = IF i <= up THEN ups[i] ELSE downs[i - up]
  BY <1>5, <1>7, ConcatProperties
<1> HIDE DEF steps
<1>9. \A i \in 1..up : steps[i] = dotdot
  <2> TAKE i \in 1..up
  <2>1. i \in 1..(up + far) /\ i <= up
    BY <1>4
  <2> QED  BY <1>5, <1>8, <2>1
<1>10. \A i \in (up + 1)..(up + far) :
          Taken(steps[i]) = r[shared + (i - up)] /\ steps[i] # <<>>
  <2> TAKE i \in (up + 1)..(up + far)
  <2>1. i \in 1..(up + far) /\ ~(i <= up) /\ i - up \in 1..far
    BY <1>4
  <2> QED  BY <1>7, <1>8, <2>1
<1>11. CASE steps = <<>>
  <2>1. Len(steps) = 0
    BY <1>11
  <2>2. up = 0 /\ far = 0
    <3>1. up + far = 0
      BY <1>8, <2>1
    <3> QED  BY <1>4, <3>1
  <2>3. p = <<dot>>
    BY <1>2, <1>11
  <2>4. p \in Seq(Segment) /\ Len(p) = 1 /\ p[1] = dot /\ p # <<>>
    BY <2>3, PlainTaken
  <2>5. p # <<<<>>>>
    BY <2>4, DotSegments
  <2>6. Way(p, d, r, shared)
    <3>1. \A i \in 1..up : p[i] = dotdot
      BY <2>2
    <3>2. \A i \in (up + 1)..(up + far) : Taken(p[i]) = r[shared + (i - up)]
      BY <2>2
    <3>3. \A i \in (up + far + 1)..Len(p) : p[i] \in {<<>>, dot}
      BY <2>2, <2>4
    <3>4. up + far <= Len(p)
      BY <2>2, <2>4
    <3> QED  BY <1>1, <2>4, <2>5, <3>1, <3>2, <3>3, <3>4 DEF Way, up, far
  <2> QED  BY <2>6 DEF p
<1>12. CASE steps # <<>>
  <2>1. p = steps
    BY <1>2, <1>12
  <2>2. p # <<<<>>>>
    <3> SUFFICES ASSUME p = <<<<>>>> PROVE FALSE
      OBVIOUS
    <3>1. Len(p) = 1 /\ p[1] = <<>>
      OBVIOUS
    <3>2. up + far = 1
      BY <1>8, <2>1, <3>1
    <3>3. 1 \in 1..up \/ 1 \in (up + 1)..(up + far)
      BY <1>4, <3>2
    <3> QED  BY <1>9, <1>10, <2>1, <3>1, <3>3, DotSegments
  <2>3. up + far <= Len(p) /\ \A i \in (up + far + 1)..Len(p) : p[i] \in {<<>>, dot}
    BY <1>4, <1>8, <2>1
  <2>4. Way(p, d, r, shared)
    BY <1>1, <1>8, <1>9, <1>10, <1>12, <2>1, <2>2, <2>3 DEF Way, up, far
  <2> QED  BY <2>4 DEF p
<1> QED  BY <1>11, <1>12

\* A way may end in a slash.
LEMMA WayLonger ==
    ASSUME NEW p, NEW d \in Seq(Name), NEW r \in Seq(Name), NEW n, Way(p, d, r, n)
    PROVE  Way(p \o <<<<>>>>, d, r, n)
<1> DEFINE q == p \o <<<<>>>>
           up == Len(d) - n
           steps == up + (Len(r) - n)
<1>1. /\ n \in 0..Len(r) /\ n <= Len(d) /\ p \in Seq(Segment) /\ p # <<>>
      /\ steps <= Len(p)
      /\ \A i \in 1..n : d[i] = r[i]
  BY DEF Way
<1>2. /\ \A i \in 1..up : p[i] = dotdot
      /\ \A i \in (up + 1)..steps : Taken(p[i]) = r[n + (i - up)]
      /\ \A i \in (steps + 1)..Len(p) : p[i] \in {<<>>, dot}
  BY DEF Way
<1>3. /\ up \in Nat /\ steps \in Nat /\ up <= steps
      /\ Len(p) \in Nat /\ Len(p) >= 1 /\ steps <= Len(p)
  BY <1>1
<1>4. /\ q \in Seq(Segment) /\ Len(q) = Len(p) + 1
      /\ \A i \in 1..Len(p) : q[i] = p[i]
      /\ q[Len(p) + 1] = <<>>
  <2>1. <<<<>>>> \in Seq(Segment) /\ Len(<<<<>>>>) = 1 /\ <<<<>>>>[1] = <<>>
    BY PlainTaken
  <2> DEFINE slash == <<<<>>>>
  <2>2. slash \in Seq(Segment) /\ Len(slash) = 1 /\ slash[1] = <<>>
    BY <2>1
  <2> HIDE DEF slash
  <2>3. /\ p \o slash \in Seq(Segment) /\ Len(p \o slash) = Len(p) + Len(slash)
        /\ \A i \in 1..(Len(p) + Len(slash)) :
              (p \o slash)[i] = IF i <= Len(p) THEN p[i] ELSE slash[i - Len(p)]
    BY <1>1, <2>2, ConcatProperties
  <2>4. \A i \in 1..Len(p) : (p \o slash)[i] = p[i]
    BY <1>3, <2>2, <2>3
  <2>5. (p \o slash)[Len(p) + 1] = <<>>
    BY <1>3, <2>2, <2>3
  <2> QED  BY <2>2, <2>3, <2>4, <2>5 DEF slash
<1> HIDE DEF q, up, steps
<1>n. Len(q) = Len(p) + 1
  BY <1>4
<1>5. q # <<>> /\ q # <<<<>>>>
  BY <1>3, <1>n
<1>6. \A i \in 1..up : q[i] = dotdot
  <2> TAKE i \in 1..up
  <2>1. i \in 1..Len(p)
    BY <1>3
  <2> QED  BY <1>2, <1>4, <2>1
<1>7. \A i \in (up + 1)..steps : Taken(q[i]) = r[n + (i - up)]
  <2> TAKE i \in (up + 1)..steps
  <2>1. i \in 1..Len(p)
    BY <1>3
  <2>2. q[i] = p[i]
    BY <1>4, <2>1
  <2> QED  BY <1>2, <2>2
<1>8. \A i \in (steps + 1)..Len(q) : q[i] \in {<<>>, dot}
  <2> TAKE i \in (steps + 1)..Len(q)
  <2>1. i \in (steps + 1)..Len(p) \/ i = Len(p) + 1
    BY <1>3, <1>n
  <2>2. i \in (steps + 1)..Len(p) => i \in 1..Len(p)
    BY <1>3
  <2> QED  BY <1>2, <1>4, <2>1, <2>2
<1>9. steps <= Len(q)
  BY <1>3, <1>n
<1> QED  BY <1>1, <1>4, <1>5, <1>6, <1>7, <1>8, <1>9 DEF Way, q, up, steps

\* A path that is taken for another one.
Spells(path, d) == Len(path) = Len(d) /\ \A i \in 1..Len(d) : Taken(path[i]) = d[i]

\* Below the directory, such a way leads to the resource.
LEMMA WayLeads ==
    ASSUME NEW p, NEW d \in Seq(Name), NEW r \in Seq(Name), NEW n, Way(p, d, r, n),
           NEW below \in Seq(Segment), Spells(below, d)
    PROVE  Resolved(TakenPath(below \o p)) = r
<1> DEFINE path == below \o p
           taken == TakenPath(path)
           a == Len(d)
           up == Len(d) - n
           steps == up + (Len(r) - n)
           b == a + up
           c == b + (Len(r) - n)
<1>1. /\ n \in 0..Len(r) /\ n <= Len(d) /\ p \in Seq(Segment)
      /\ steps <= Len(p)
      /\ \A i \in 1..n : d[i] = r[i]
  BY DEF Way
<1>2. /\ \A i \in 1..up : p[i] = dotdot
      /\ \A i \in (up + 1)..steps : Taken(p[i]) = r[n + (i - up)]
      /\ \A i \in (steps + 1)..Len(p) : p[i] \in {<<>>, dot}
  BY DEF Way
<1>3. /\ a \in Nat /\ up \in Nat /\ steps \in Nat /\ b \in Nat /\ c \in Nat /\ Len(p) \in Nat
      /\ b = a + up /\ c = a + steps /\ up <= steps /\ steps <= Len(p)
  BY <1>1
<1>4. b = Len(d) + (Len(d) - n) /\ c = b + (Len(r) - n)
  OBVIOUS
<1>5. Len(below) = a
  BY DEF Spells
<1>6. \A i \in 1..a : Taken(below[i]) = d[i]
  BY DEF Spells
<1>7. /\ path \in Seq(Segment) /\ Len(path) = a + Len(p)
      /\ \A i \in 1..(a + Len(p)) : path[i] = IF i <= a THEN below[i] ELSE p[i - a]
  <2> HIDE DEF a
  <2> QED  BY <1>1, <1>5, ConcatProperties
<1> HIDE DEF path, a, up, steps, b, c
<1>8. /\ taken \in Seq(Segment) /\ Len(taken) = a + Len(p)
      /\ \A i \in 1..(a + Len(p)) : taken[i] = Taken(path[i])
  BY <1>7, TakenType
<1> HIDE DEF taken
<1>n. Len(taken) = a + Len(p)
  BY <1>8
<1>9. \A i \in 1..a : taken[i] = d[i]
  <2> TAKE i \in 1..a
  <2>1. i \in 1..(a + Len(p)) /\ i <= a
    BY <1>3
  <2> QED  BY <1>6, <1>7, <1>8, <2>1
<1>10. \A i \in (a + 1)..(a + Len(p)) : i - a \in 1..Len(p) /\ taken[i] = Taken(p[i - a])
  <2> TAKE i \in (a + 1)..(a + Len(p))
  <2>1. i \in 1..(a + Len(p)) /\ ~(i <= a) /\ i - a \in 1..Len(p)
    BY <1>3
  <2> QED  BY <1>7, <1>8, <2>1
<1>11. \A i \in (a + 1)..b : taken[i] = dotdot
  <2> TAKE i \in (a + 1)..b
  <2>1. i \in (a + 1)..(a + Len(p)) /\ i - a \in 1..up
    BY <1>3
  <2> QED  BY <1>2, <1>10, <2>1, PlainTaken
<1>12. \A i \in (b + 1)..c : taken[i] = r[n + (i - b)]
  <2> TAKE i \in (b + 1)..c
  <2>1. i \in (a + 1)..(a + Len(p)) /\ i - a \in (up + 1)..steps
    BY <1>3
  <2>2. (i - a) - up = i - b
    BY <1>3
  <2> QED  BY <1>2, <1>10, <2>1, <2>2
<1>13. \A i \in (c + 1)..Len(taken) : taken[i] \in {<<>>, dot}
  <2> TAKE i \in (c + 1)..Len(taken)
  <2>1. i \in (a + 1)..(a + Len(p)) /\ i - a \in (steps + 1)..Len(p)
    BY <1>3, <1>n
  <2>2. p[i - a] \in {<<>>, dot}
    BY <1>2, <2>1
  <2> QED  BY <1>10, <2>1, <2>2, PlainTaken
<1>14. c <= Len(taken)
  BY <1>3, <1>n
<1>15. Course(taken, d, r, n, b, c)
  BY <1>1, <1>4, <1>9, <1>11, <1>12, <1>13, <1>14 DEF Course, a
<1>16. Resolved(taken) = r
  BY <1>8, <1>15, ResolvesTo
<1> QED  BY <1>16 DEF taken, path

\* The path of names that are written so, with or without a slash.
Absolute(path, r, how) ==
    LET p == [i \in DOMAIN r |-> Write(r[i], how)]
    IN  path \in {p, p \o <<<<>>>>} /\ path # <<>>

\* A path of written names leads to the resource, with or without a slash.
LEMMA AbsoluteLeads ==
    ASSUME NEW r \in Seq(Name), NEW how, AllWritable(r, how),
           NEW path, Absolute(path, r, how)
    PROVE  /\ path \in Seq(Segment)
           /\ Len(path) > 1 => path[1] # <<>>
           /\ Resolved(TakenPath(path)) = r
<1> DEFINE p == [i \in DOMAIN r |-> Write(r[i], how)]
           slash == <<<<>>>>
<1>1. /\ Len(r) \in Nat /\ DOMAIN r = 1..Len(r)
      /\ \A i \in 1..Len(r) : r[i] \in Segment \ {<<>>, dot, dotdot}
  BY NameFacts
<1>2. \A i \in 1..Len(r) : /\ Write(r[i], how) \in Segment
                           /\ Taken(Write(r[i], how)) = r[i]
                           /\ Write(r[i], how) # <<>>
  BY <1>1, WriteFacts DEF AllWritable
<1>3. p \in [1..Len(r) -> Segment] /\ \A i \in 1..Len(r) : p[i] = Write(r[i], how)
  BY <1>1, <1>2
<1>4. path = p \/ path = p \o slash
  BY DEF Absolute
<1>s. slash \in Seq(Segment) /\ Len(slash) = 1 /\ slash[1] = <<>>
  BY PlainTaken
<1> HIDE DEF p, slash
<1>5. p \in Seq(Segment) /\ Len(p) = Len(r)
  BY <1>1, <1>3, SeqDef
<1>6. /\ path \in Seq(Segment) /\ Len(path) >= Len(r) /\ Len(path) <= Len(r) + 1
      /\ \A i \in 1..Len(r) : path[i] = Write(r[i], how)
      /\ \A i \in 1..Len(path) : i > Len(r) => path[i] = <<>>
  <2>1. CASE path = p
    BY <1>1, <1>3, <1>5, <2>1
  <2>2. CASE path = p \o slash
    <3>1. /\ p \o slash \in Seq(Segment) /\ Len(p \o slash) = Len(p) + Len(slash)
          /\ \A i \in 1..(Len(p) + Len(slash)) :
                (p \o slash)[i] = IF i <= Len(p) THEN p[i] ELSE slash[i - Len(p)]
      BY <1>5, <1>s, ConcatProperties
    <3>2. Len(path) = Len(r) + 1
      BY <1>5, <1>s, <2>2, <3>1
    <3>3. \A i \in 1..Len(r) : path[i] = p[i]
      BY <1>1, <1>5, <1>s, <2>2, <3>1
    <3>4. path[Len(r) + 1] = <<>>
      BY <1>1, <1>5, <1>s, <2>2, <3>1
    <3>5. \A i \in 1..Len(path) : i > Len(r) => i = Len(r) + 1
      BY <1>1, <3>2
    <3> QED  BY <1>1, <1>3, <2>2, <3>1, <3>2, <3>3, <3>4, <3>5
  <2> QED  BY <1>4, <2>1, <2>2
<1>7. Len(path) > 1 => path[1] # <<>>
  <2> SUFFICES ASSUME Len(path) > 1 PROVE path[1] # <<>>
    OBVIOUS
  <2>1. 1 \in 1..Len(r)
    BY <1>1, <1>6
  <2> QED  BY <1>2, <1>6, <2>1
<1>8. /\ TakenPath(path) \in Seq(Segment) /\ Len(TakenPath(path)) = Len(path)
      /\ \A i \in 1..Len(path) : TakenPath(path)[i] = Taken(path[i])
  BY <1>6, TakenType
<1>9. \A i \in 1..Len(r) : TakenPath(path)[i] = r[i]
  <2> TAKE i \in 1..Len(r)
  <2>1. i \in 1..Len(path)
    BY <1>1, <1>6
  <2> QED  BY <1>2, <1>6, <1>8, <2>1
<1>10. \A i \in 1..Len(TakenPath(path)) : i > Len(r) => TakenPath(path)[i] \in {<<>>, dot}
  BY <1>6, <1>8, PlainTaken
<1>11. Resolved(TakenPath(path)) = r
  BY <1>6, <1>8, <1>9, <1>10, NamesResolve
<1> QED  BY <1>6, <1>7, <1>11

LEMMA OneMore ==
    ASSUME NEW S, NEW s \in Seq(S), NEW t \in Seq(S), Len(t) = 1
    PROVE  s \o t # <<>>
<1>1. Len(s) \in Nat /\ Len(s \o t) = Len(s) + 1
  BY ConcatProperties
<1> QED  BY <1>1

\* The hrefs for a resource, by their form.
LEMMA HrefForms ==
    ASSUME NEW r \in Seq(Name), NEW d, NEW href \in Hrefs(r, d)
    PROVE  \/ href.form = "opaque"
           \/ \E how : /\ AllWritable(r, how)
                       /\ href.form \in {"url", "absolute"} /\ Absolute(href.path, r, how)
           \/ \E how : /\ AllWritable(r, how)
                       /\ href.form = "relative"
                       /\ href.path \in {RelativePath(d, r, how), RelativePath(d, r, how) \o <<<<>>>>}
<1> DEFINE styles == {"strict", "full"}
                     \cup (IF \A i \in DOMAIN r : PlainSegment(r[i]) THEN {"none"} ELSE {})
           written(how) == [i \in DOMAIN r |-> Write(r[i], how)]
           absolute == {written(how) : how \in styles}
           relative == {RelativePath(d, r, how) : how \in styles}
<1>1. \A how \in styles : AllWritable(r, how)
  BY DEF AllWritable, Writable
<1>2. \/ href \in [form : {"url", "absolute"},
                   path : {p \o <<<<>>>> : p \in absolute} \cup (absolute \ {<<>>})]
      \/ href \in [form : {"relative"}, path : relative \cup {p \o <<<<>>>> : p \in relative}]
      \/ href \in [form : {"opaque"}, path : {<<>>}]
  BY DEF Hrefs
<1>s. \A how : written(how) \o <<<<>>>> # <<>>
  <2> TAKE how
  <2> DEFINE some == {written(how)[i] : i \in 1..Len(r)} \cup {<<>>}
  <2>1. Len(r) \in Nat /\ written(how) \in [1..Len(r) -> some]
    OBVIOUS
  <2>2. <<<<>>>> \in Seq(some) /\ Len(<<<<>>>>) = 1
    OBVIOUS
  <2> HIDE DEF written, some
  <2>3. written(how) \in Seq(some)
    BY <2>1, SeqDef
  <2> QED  BY <2>2, <2>3, OneMore
<1> HIDE DEF styles
<1>3. CASE href \in [form : {"url", "absolute"},
                     path : {p \o <<<<>>>> : p \in absolute} \cup (absolute \ {<<>>})]
  <2>1. href.form \in {"url", "absolute"}
        /\ href.path \in {p \o <<<<>>>> : p \in absolute} \cup (absolute \ {<<>>})
    BY <1>3
  <2>2. PICK how \in styles : /\ href.path \in {written(how), written(how) \o <<<<>>>>}
                              /\ href.path = <<>> => href.path = written(how) \o <<<<>>>>
    BY <2>1
  <2> QED  BY <1>1, <1>s, <2>1, <2>2 DEF Absolute
<1>4. CASE href \in [form : {"relative"}, path : relative \cup {p \o <<<<>>>> : p \in relative}]
  <2>1. href.form = "relative" /\ href.path \in relative \cup {p \o <<<<>>>> : p \in relative}
    BY <1>4
  <2>2. PICK how \in styles :
           href.path \in {RelativePath(d, r, how), RelativePath(d, r, how) \o <<<<>>>>}
    BY <2>1
  <2> QED  BY <1>1, <2>1, <2>2
<1>5. CASE href \in [form : {"opaque"}, path : {<<>>}]
  BY <1>5
<1> QED  BY <1>2, <1>3, <1>4, <1>5

\* The directory of a request for such a path.
RequestDirectory(u, dir) == IF IsDir(Encode(u, dir)) THEN u ELSE DropLast(u)

(* However an upstream names a resource, with a URL, an absolute path or a  *)
(* relative reference, with whatever it escapes, as a directory or not,     *)
(* ParseHref finds the resource.                                            *)
THEOREM HrefResolves ==
    ASSUME NEW r \in Seq(Name), NEW u \in Seq(Name), NEW dir \in BOOLEAN,
           NEW href \in Hrefs(r, RequestDirectory(u, dir))
    PROVE  LET parsed == ParseHref(href, Encode(u, dir))
           IN  /\ href.form = "opaque" => ~parsed.ok
               /\ href.form # "opaque" =>
                     parsed.ok /\ parsed.segs = r /\ parsed.dir \in BOOLEAN
<1> DEFINE base == Encode(u, dir)
           d == RequestDirectory(u, dir)
           path == HrefPath(href, base)
           parsed == ParseHref(href, base)
<1>1. parsed = IF path = <<>> THEN NotOK ELSE ParsedPath(TakenPath(path))
  BY DEF ParseHref, TakenPath, Taken
<1>2. /\ d \in Seq(Name) /\ Directory(base) \in Seq(Segment) /\ Spells(Directory(base), d)
  BY DirectoryFacts DEF Spells, RequestDirectory
<1>3. \/ href.form = "opaque"
      \/ \E how : /\ AllWritable(r, how)
                  /\ href.form \in {"url", "absolute"} /\ Absolute(href.path, r, how)
      \/ \E how : /\ AllWritable(r, how)
                  /\ href.form = "relative"
                  /\ href.path \in {RelativePath(d, r, how), RelativePath(d, r, how) \o <<<<>>>>}
  BY HrefForms
<1> HIDE DEF base, d
<1>4. ASSUME path # <<>>, Resolved(TakenPath(path)) = r
      PROVE  parsed.ok = TRUE /\ parsed.segs = r /\ parsed.dir \in BOOLEAN
  <2>1. parsed = ParsedPath(TakenPath(path))
    BY <1>1, <1>4
  <2> HIDE DEF parsed, path
  <2>2. parsed.ok = TRUE /\ parsed.segs = r
    BY <1>4, <2>1 DEF ParsedPath
  <2>3. parsed.dir \in BOOLEAN
    BY <2>1 DEF ParsedPath
  <2> QED  BY <2>2, <2>3
<1>5. CASE href.form = "opaque"
  <2>1. path = <<>>
    BY <1>5 DEF HrefPath
  <2>2. parsed = NotOK
    BY <1>1, <2>1
  <2> HIDE DEF parsed
  <2>3. parsed.ok = FALSE
    BY <2>2 DEF NotOK
  <2> QED  BY <1>5, <2>3 DEF base, parsed
<1>6. ASSUME NEW how, AllWritable(r, how), href.form \in {"url", "absolute"},
             Absolute(href.path, r, how)
      PROVE  path # <<>> /\ Resolved(TakenPath(path)) = r
  <2>1. /\ href.path \in Seq(Segment) /\ Resolved(TakenPath(href.path)) = r
        /\ Len(href.path) > 1 => href.path[1] # <<>>
    BY <1>6, AbsoluteLeads
  <2>2. href.path # <<>>
    BY <1>6 DEF Absolute
  <2>3. path = href.path
    BY <1>6, <2>1 DEF HrefPath
  <2> QED  BY <2>1, <2>2, <2>3
<1>7. ASSUME NEW how, AllWritable(r, how), href.form = "relative",
             href.path \in {RelativePath(d, r, how), RelativePath(d, r, how) \o <<<<>>>>}
      PROVE  path # <<>> /\ Resolved(TakenPath(path)) = r
  <2>1. PICK n : Way(RelativePath(d, r, how), d, r, n)
    BY <1>2, <1>7, RelativeIsWay
  <2>2. Way(href.path, d, r, n)
    BY <1>2, <1>7, <2>1, WayLonger
  <2>3. href.path # <<>> /\ href.path # <<<<>>>> /\ href.path \in Seq(Segment)
    BY <2>2 DEF Way
  <2>4. path = Directory(base) \o href.path
    BY <1>7, <2>3 DEF HrefPath
  <2>5. path # <<>>
    <3>1. Len(Directory(base)) \in Nat /\ Len(href.path) \in Nat /\ Len(href.path) >= 1
      BY <1>2, <2>3
    <3>2. Len(path) = Len(Directory(base)) + Len(href.path)
      BY <1>2, <2>3, <2>4, ConcatProperties
    <3> HIDE DEF path
    <3>3. Len(path) # 0
      BY <3>1, <3>2
    <3> QED  BY <3>3
  <2>6. Resolved(TakenPath(Directory(base) \o href.path)) = r
    BY <1>2, <2>2, WayLeads
  <2> QED  BY <2>4, <2>5, <2>6
<1>8. CASE href.form # "opaque"
  <2>1. path # <<>> /\ Resolved(TakenPath(path)) = r
    BY <1>3, <1>6, <1>7, <1>8
  <2>2. parsed.ok = TRUE /\ parsed.segs = r /\ parsed.dir \in BOOLEAN
    BY <1>4, <2>1
  <2> HIDE DEF parsed
  <2> QED  BY <1>8, <2>2 DEF base, parsed
<1> QED  BY <1>5, <1>8

-----------------------------------------------------------------------------
(* What a synthetic directory lists.                                        *)

LEMMA ImageFinite ==
    ASSUME NEW f, IsFiniteSet(DOMAIN f)
    PROVE  IsFiniteSet({f[x] : x \in DOMAIN f})
<1> DEFINE T == {f[x] : x \in DOMAIN f}
           g == [x \in DOMAIN f |-> f[x]]
<1>1. g \in Surjection(DOMAIN f, T)
  BY DEF Surjection
<1> HIDE DEF g, T
<1>2. IsFiniteSet(T)
  BY <1>1, FS_Surjection
<1> QED  BY <1>2 DEF T

LEMMA NodesFinite ==
    ASSUME NEW M, IsFiniteSet(M), Mounts(M)
    PROVE  IsFiniteSet(Nodes(M))
<1> DEFINE ways == {Beginnings(m.path) : m \in M}
<1>1. ASSUME NEW m \in M PROVE IsFiniteSet(Beginnings(m.path))
  <2> DEFINE f == [i \in 0..Len(m.path) |-> SubSeq(m.path, 1, i)]
  <2>1. Len(m.path) \in Nat
    BY DEF Mounts
  <2>2. IsFiniteSet(DOMAIN f)
    BY <2>1, FS_Interval
  <2>3. Beginnings(m.path) = {f[i] : i \in DOMAIN f}
    BY DEF Beginnings
  <2> HIDE DEF f
  <2> QED  BY <2>2, <2>3, ImageFinite
<1>2. IsFiniteSet(ways)
  <2> DEFINE f == [m \in M |-> Beginnings(m.path)]
  <2>1. DOMAIN f = M /\ ways = {f[m] : m \in DOMAIN f}
    OBVIOUS
  <2> HIDE DEF f, ways
  <2> QED  BY <2>1, ImageFinite
<1>3. \A T \in ways : IsFiniteSet(T)
  BY <1>1
<1> HIDE DEF ways
<1>4. IsFiniteSet(UNION ways)
  BY <1>2, <1>3, FS_UNION
<1>5. IsFiniteSet({<<>>})
  BY FS_Singleton
<1>6. IsFiniteSet({<<>>} \cup UNION ways)
  BY <1>4, <1>5, FS_Union
<1> QED  BY <1>6 DEF Nodes, ways

\* A node is the root or on the way to a mount.
LEMMA NodeFacts ==
    ASSUME NEW M, Mounts(M), NEW node \in Nodes(M)
    PROVE  /\ node \in Seq(Segment)
           /\ node = <<>> \/ \E m \in M : HasPrefix(m.path, node)
<1>1. CASE node = <<>>
  BY <1>1
<1>2. CASE node # <<>>
  <2>1. PICK m \in M : node \in Beginnings(m.path)
    BY <1>2 DEF Nodes
  <2>2. PICK i \in 0..Len(m.path) : node = SubSeq(m.path, 1, i)
    BY <2>1 DEF Beginnings
  <2>3. m.path \in Seq(Segment)
    BY DEF Mounts
  <2> QED  BY <2>2, <2>3, BeginningFacts, BeginningIsPrefix
<1> QED  BY <1>1, <1>2

LEMMA OnTheWay ==
    ASSUME NEW M, Mounts(M), NEW segs \in Seq(Segment), NEW m \in M, HasPrefix(m.path, segs)
    PROVE  segs \in Nodes(M)
<1>1. m.path \in Seq(Segment)
  BY DEF Mounts
<1>2. Len(segs) \in 0..Len(m.path) /\ segs = SubSeq(m.path, 1, Len(segs))
  BY <1>1, PrefixIsBeginning
<1> QED  BY <1>2, PathIsNode

LEMMA NamesFinite ==
    ASSUME NEW M, IsFiniteSet(M), Mounts(M), NEW tree, TreeOf(tree, M), NEW n
    PROVE  IsFiniteSet(names(tree, n))
<1> DEFINE below == {d \in tree.nodes : Len(d) = Len(n) + 1 /\ HasPrefix(d, n)}
           all == names(tree, n)
           f == [c \in below |-> c[Len(c)]]
<1>1. IsFiniteSet(below)
  BY NodesFinite, FS_Subset DEF TreeOf
<1>2. DOMAIN f = below /\ all = {f[c] : c \in DOMAIN f}
  BY DEF names
<1> HIDE DEF f, below, all
<1>3. IsFiniteSet(all)
  BY <1>1, <1>2, ImageFinite
<1> QED  BY <1>3 DEF all

\* What names returns leads to nodes.
LEMMA ChildIsNode ==
    ASSUME NEW M, IsFiniteSet(M), Mounts(M), NEW tree, TreeOf(tree, M),
           NEW n \in Seq(Segment), NEW i \in 1..Len(SetToSeq(names(tree, n)))
    PROVE  Append(n, SetToSeq(names(tree, n))[i]) \in Nodes(M)
<1> DEFINE below == {d \in tree.nodes : Len(d) = Len(n) + 1 /\ HasPrefix(d, n)}
           all == names(tree, n)
           children == SetToSeq(all)
<1>1. IsFiniteSet(all)
  BY NamesFinite
<1>2. children[i] \in all
  <2>1. children \in Seq(all) /\ i \in 1..Len(children)
    BY <1>1, Enumerates
  <2> HIDE DEF all, children
  <2> QED  BY <2>1
<1>3. PICK c \in below : children[i] = c[Len(c)]
  BY <1>2 DEF names
<1>4. c \in Nodes(M) /\ Len(c) = Len(n) + 1 /\ \A k \in 1..Len(n) : c[k] = n[k]
  BY <1>3 DEF TreeOf, HasPrefix
<1>5. c \in Seq(Segment) /\ Len(n) \in Nat /\ c[Len(c)] \in Segment
  <2>1. c \in Seq(Segment) /\ Len(n) \in Nat
    BY <1>4, NodeFacts
  <2>2. Len(c) \in 1..Len(c)
    BY <1>4, <2>1
  <2> QED  BY <2>1, <2>2
<1> DEFINE d == Append(n, c[Len(c)])
<1>6. d \in Seq(Segment) /\ Len(d) = Len(n) + 1
      /\ (\A k \in 1..Len(n) : d[k] = n[k]) /\ d[Len(n) + 1] = c[Len(c)]
  BY <1>5, AppendProperties
<1> HIDE DEF d, children
<1>7. \A k \in 1..Len(c) : c[k] = d[k]
  BY <1>4, <1>5, <1>6
<1>8. c = d
  BY <1>4, <1>5, <1>6, <1>7, Equal
<1> QED  BY <1>3, <1>4, <1>8 DEF d, children

\* A client can ask for every node of its tree.
LEMMA NodeNames ==
    ASSUME NEW c, Configured(c), NEW u \in DOMAIN c.mounts, NEW node \in Nodes(c.mounts[u])
    PROVE  node \in Seq(Name) /\ \A i \in DOMAIN node : checkComponent(node[i])
<1>1. CASE node = <<>>
  BY <1>1
<1>2. CASE node # <<>>
  <2>1. PICK m \in c.mounts[u] : node \in Beginnings(m.path)
    BY <1>2 DEF Nodes
  <2>2. PICK k \in 0..Len(m.path) : node = SubSeq(m.path, 1, k)
    BY <2>1 DEF Beginnings
  <2>3. m.path \in Seq(Name) /\ \A i \in 1..Len(m.path) : checkComponent(m.path[i])
    BY DEF Configured
  <2>4. node \in Seq(Name) /\ Len(node) = k /\ \A i \in 1..k : node[i] = m.path[i]
    BY <2>2, <2>3, NamesBeginning
  <2>5. DOMAIN node = 1..k /\ Len(m.path) \in Nat
    BY <2>3, <2>4
  <2> QED  BY <2>2, <2>3, <2>4, <2>5
<1> QED  BY <1>1, <1>2

-----------------------------------------------------------------------------
(* The actions.                                                             *)

LEMMA InitIInv == Init => IInv
<1> SUFFICES ASSUME Init PROVE IInv
  OBVIOUS
<1>1. TreesInv
  BY InitTrees
<1>2. answer = Nothing /\ from = Nothing /\ shown = Nothing
  BY DEF Init
<1>3. answer.kind = "none" /\ from.kind = "none"
  BY <1>2 DEF Nothing
<1>4. AnswerInv /\ ResolvesByPrefix
  BY <1>3 DEF AnswerInv, ResolvesByPrefix
<1>5. FromInv /\ ShownIfInside /\ HrefLeadsBack /\ AskedIsAnswered
  BY <1>3 DEF FromInv, ShownIfInside, HrefLeadsBack, AskedIsAnswered
<1> QED  BY <1>1, <1>4, <1>5 DEF IInv

LEMMA RequestStep == IInv /\ Request => IInv'
<1> SUFFICES ASSUME IInv, Request PROVE IInv'
  OBVIOUS
<1>1. UNCHANGED <<config, trees, user>> /\ from'.kind = "client" /\ answer.kind = "none"
  BY DEF Request, Nothing
<1>2. PICK path \in Seq(Segment) : Serve(path)
  BY RequestPathsAssumption DEF Request
<1>3. TreesInv /\ TreesInv'
  BY <1>1, NextTrees DEF IInv
<1>4. AnswerInv' /\ ResolvesByPrefix' /\ answer'.kind # "listed"
  BY <1>1, <1>2, <1>3, ServeFacts
<1>5. FromInv' /\ ShownIfInside' /\ HrefLeadsBack' /\ AskedIsAnswered'
  BY <1>1, <1>4 DEF FromInv, ShownIfInside, HrefLeadsBack, AskedIsAnswered
<1> QED  BY <1>3, <1>4, <1>5 DEF IInv

LEMMA GetDirectoryStep == IInv /\ GetDirectory => IInv'
<1> SUFFICES ASSUME IInv, GetDirectory PROVE IInv'
  OBVIOUS
<1>1. /\ UNCHANGED <<config, trees, user, from, shown>>
      /\ answer.kind = "synthetic" /\ answer'.kind = "not allowed"
  BY DEF GetDirectory
<1>2. TreesInv'
  BY <1>1, NextTrees DEF IInv
<1>3. AnswerInv' /\ ResolvesByPrefix'
  BY <1>1 DEF AnswerInv, ResolvesByPrefix
<1>4. from.kind \notin {"upstream", "propfind"}
  BY <1>1 DEF IInv, HrefLeadsBack, FromInv
<1>5. FromInv' /\ ShownIfInside' /\ HrefLeadsBack' /\ AskedIsAnswered'
  BY <1>1, <1>4 DEF FromInv, ShownIfInside, HrefLeadsBack, AskedIsAnswered
<1> QED  BY <1>2, <1>3, <1>5 DEF IInv

LEMMA StartOverStep == IInv /\ StartOver => IInv'
<1> SUFFICES ASSUME IInv, StartOver PROVE IInv'
  OBVIOUS
<1>1. /\ UNCHANGED <<config, trees, user>>
      /\ answer'.kind = "none" /\ from'.kind = "none"
  BY DEF StartOver, Nothing
<1>2. TreesInv'
  BY <1>1, NextTrees DEF IInv
<1>3. AnswerInv' /\ ResolvesByPrefix'
  BY <1>1 DEF AnswerInv, ResolvesByPrefix
<1>4. FromInv' /\ ShownIfInside' /\ HrefLeadsBack' /\ AskedIsAnswered'
  BY <1>1 DEF FromInv, ShownIfInside, HrefLeadsBack, AskedIsAnswered
<1> QED  BY <1>2, <1>3, <1>4 DEF IInv

\* The mounts of the user.
LEMMA UserMounts ==
    ASSUME TreesInv
    PROVE  /\ IsFiniteSet(mounts) /\ Mounts(mounts) /\ PrefixFree(mounts)
           /\ TreeOf(trees[user], mounts)
           /\ \A m \in mounts : /\ m.path \in Seq(Name)
                                /\ \A i \in 1..Len(m.path) : checkComponent(m.path[i])
                                /\ m.target \in Seq(Name)
                                /\ Target(m) \in Seq(Name)
<1>1. Configured(config) /\ user \in DOMAIN config.mounts /\ TreeOf(trees[user], mounts)
  BY DEF TreesInv, mounts
<1>2. IsFiniteSet(mounts) /\ Mounts(mounts) /\ PrefixFree(mounts)
  BY <1>1, ConfiguredMounts DEF mounts
<1>3. ASSUME NEW m \in mounts
      PROVE  /\ m.path \in Seq(Name) /\ m.target \in Seq(Name)
             /\ \A i \in 1..Len(m.path) : checkComponent(m.path[i])
             /\ Target(m) \in Seq(Name)
  <2>1. /\ m.path \in Seq(Name) /\ m.target \in Seq(Name)
        /\ \A i \in 1..Len(m.path) : checkComponent(m.path[i])
        /\ config.base[m.upstream] \in Seq(Name)
    BY <1>1 DEF Configured, mounts
  <2>2. Target(m) \in Seq(Name)
    BY <2>1, ConcatProperties DEF Target
  <2> QED  BY <2>1, <2>2
<1> QED  BY <1>1, <1>2, <1>3

\* A finite set as a sequence: no element is there twice.
LEMMA EnumeratesOnce ==
    ASSUME NEW S, IsFiniteSet(S)
    PROVE  IsInjective(SetToSeq(S))
<1> DEFINE n == Cardinality(S)
           f == SetToSeq(S)
<1>1. n \in Nat /\ ExistsBijection(1..n, S)
  BY FS_CardinalityType
<1>2. PICK g : g \in Bijection(1..n, S)
  BY <1>1 DEF ExistsBijection
<1>3. g \in [1..n -> S] /\ IsInjective(g)
  BY <1>2 DEF Bijection, Injection
<1> QED  BY <1>3 DEF SetToSeq

\* The paths on the way to mounts that are one segment longer than a directory.
ChildPaths(M, segs) == {SubSeq(m.path, 1, Len(segs) + 1) : m \in {n \in M : HasPrefix(n.path, segs)}}

\* What names returns are the last segments of these paths.
LEMMA NamesExact ==
    ASSUME NEW M, IsFiniteSet(M), Mounts(M), NEW tree, TreeOf(tree, M),
           NEW segs \in Seq(Segment), \A m \in M : ~HasPrefix(segs, m.path)
    PROVE  /\ \A x \in names(tree, segs) : x \in Segment /\ Append(segs, x) \in ChildPaths(M, segs)
           /\ \A c \in ChildPaths(M, segs) : \E x \in names(tree, segs) : c = Append(segs, x)
<1> DEFINE l == Len(segs)
           below == {d \in tree.nodes : Len(d) = l + 1 /\ HasPrefix(d, segs)}
<1>1. l \in Nat /\ tree.nodes = Nodes(M)
  BY DEF TreeOf
<1>2. ASSUME NEW c \in Seq(Segment), Len(c) = l + 1, HasPrefix(c, segs)
      PROVE  c[l + 1] \in Segment /\ c = Append(segs, c[l + 1])
  <2>1. c[l + 1] \in Segment /\ \A k \in 1..l : c[k] = segs[k]
    BY <1>1, <1>2 DEF HasPrefix
  <2> DEFINE d == Append(segs, c[l + 1])
  <2>2. d \in Seq(Segment) /\ Len(d) = l + 1 /\ d[l + 1] = c[l + 1] /\ \A k \in 1..l : d[k] = segs[k]
    BY <2>1, AppendProperties
  <2> HIDE DEF d, l
  <2>3. \A k \in 1..Len(c) : c[k] = d[k]
    BY <1>1, <1>2, <2>1, <2>2
  <2>4. c = d
    BY <1>2, <2>2, <2>3, Equal
  <2> QED  BY <2>1, <2>4 DEF d
<1>3. \A c : c \in ChildPaths(M, segs) <=> c \in Nodes(M) /\ Len(c) = l + 1 /\ HasPrefix(c, segs)
  <2>1. ASSUME NEW c \in ChildPaths(M, segs)
        PROVE  c \in Nodes(M) /\ Len(c) = l + 1 /\ HasPrefix(c, segs)
    <3>1. PICK m \in M : HasPrefix(m.path, segs) /\ c = SubSeq(m.path, 1, l + 1)
      BY DEF ChildPaths
    <3>2. m.path \in Seq(Segment) /\ Len(m.path) >= l /\ \A k \in 1..l : m.path[k] = segs[k]
      BY <3>1 DEF Mounts, HasPrefix
    <3>3. Len(m.path) # l
      BY <1>1, <3>2 DEF HasPrefix
    <3>4. l + 1 \in 0..Len(m.path)
      BY <1>1, <3>2, <3>3
    <3>5. Len(c) = l + 1 /\ \A k \in 1..(l + 1) : c[k] = m.path[k]
      BY <3>1, <3>2, <3>4, BeginningFacts
    <3>6. HasPrefix(c, segs)
      BY <1>1, <3>2, <3>5 DEF HasPrefix
    <3>7. c \in Nodes(M)
      BY <3>1, <3>4 DEF Nodes, Beginnings
    <3> QED  BY <3>5, <3>6, <3>7
  <2>2. ASSUME NEW c \in Nodes(M), Len(c) = l + 1, HasPrefix(c, segs)
        PROVE  c \in ChildPaths(M, segs)
    <3>1. c \in Seq(Segment) /\ c # <<>>
      BY <1>1, <2>2, NodeFacts
    <3>2. PICK m \in M : HasPrefix(m.path, c)
      BY <3>1, NodeFacts
    <3>3. m.path \in Seq(Segment)
      BY DEF Mounts
    <3>4. c = SubSeq(m.path, 1, l + 1)
      BY <2>2, <3>1, <3>2, <3>3, PrefixIsBeginning
    <3>5. HasPrefix(m.path, segs)
      <4>1. Len(m.path) >= l + 1 /\ \A k \in 1..(l + 1) : m.path[k] = c[k]
        BY <2>2, <3>2 DEF HasPrefix
      <4>2. \A k \in 1..l : c[k] = segs[k]
        BY <2>2 DEF HasPrefix
      <4>3. Len(m.path) \in Nat
        BY <3>3
      <4> QED  BY <1>1, <4>1, <4>2, <4>3 DEF HasPrefix
    <3> QED  BY <3>4, <3>5 DEF ChildPaths
  <2> QED  BY <2>1, <2>2
<1>4. \A x : x \in names(tree, segs) <=> \E c \in below : x = c[Len(c)]
  BY DEF names
<1>5. \A c \in below : c \in ChildPaths(M, segs) /\ c[l + 1] \in Segment /\ c = Append(segs, c[l + 1])
                       /\ Len(c) = l + 1
  BY <1>1, <1>2, <1>3, NodeFacts
<1>6. \A c \in ChildPaths(M, segs) : c \in below /\ c = Append(segs, c[l + 1]) /\ Len(c) = l + 1
  BY <1>1, <1>2, <1>3, NodeFacts
<1> HIDE DEF below, l
<1>7. ASSUME NEW x \in names(tree, segs)
      PROVE  x \in Segment /\ Append(segs, x) \in ChildPaths(M, segs)
  <2>1. PICK c \in below : x = c[Len(c)]
    BY <1>4
  <2>2. x = c[l + 1]
    BY <1>5, <2>1
  <2> QED  BY <1>5, <2>2
<1>8. ASSUME NEW c \in ChildPaths(M, segs) PROVE \E x \in names(tree, segs) : c = Append(segs, x)
  <2>1. c[l + 1] \in names(tree, segs)
    BY <1>4, <1>6
  <2> QED  BY <1>6, <2>1
<1> QED  BY <1>7, <1>8

LEMMA NamesCounted ==
    ASSUME NEW M, IsFiniteSet(M), Mounts(M), NEW tree, TreeOf(tree, M),
           NEW segs \in Seq(Segment), \A m \in M : ~HasPrefix(segs, m.path)
    PROVE  Cardinality(ChildPaths(M, segs)) = Cardinality(names(tree, segs))
<1> DEFINE S == names(tree, segs)
           T == ChildPaths(M, segs)
           f == [x \in S |-> Append(segs, x)]
<1>1. /\ \A x \in S : x \in Segment /\ Append(segs, x) \in T
      /\ \A c \in T : \E x \in S : c = Append(segs, x)
  BY NamesExact
<1>2. IsFiniteSet(S)
  BY NamesFinite
<1> HIDE DEF S, T
<1>3. f \in [S -> T]
  BY <1>1
<1>4. \A x, y \in S : Append(segs, x) = Append(segs, y) => x = y
  <2>1. ASSUME NEW x \in S, NEW y \in S, Append(segs, x) = Append(segs, y) PROVE x = y
    <3>1. Append(segs, x)[Len(segs) + 1] = x /\ Append(segs, y)[Len(segs) + 1] = y
      BY <1>1, AppendProperties
    <3> QED  BY <2>1, <3>1
  <2> QED  BY <2>1
<1>5. f \in Injection(S, T)
  BY <1>3, <1>4 DEF Injection, IsInjective
<1>6. f \in Surjection(S, T)
  BY <1>1, <1>3 DEF Surjection
<1>7. ExistsBijection(S, T)
  BY <1>5, <1>6 DEF ExistsBijection, Bijection
<1> QED  BY <1>2, <1>7, FS_Bijection DEF S, T

\* The directory, and then its children in the order of the sequence.
Order(segs) == SetToSeq(names(trees[user], segs))
Count(segs, depth) == IF depth = "1" THEN Len(Order(segs)) ELSE 0
IsChild(child, segs, name) == child.href = Encode(Append(segs, name), TRUE) /\ child.name = name
LEMMA CollectionsList ==
    ASSUME TreesInv, NEW segs, NEW depth
    PROVE  /\ Len(Order(segs)) \in Nat /\ Count(segs, depth) \in Nat
           /\ Count(segs, depth) <= Len(Order(segs))
           /\ DOMAIN Collections(segs, depth) = 1..(1 + Count(segs, depth))
           /\ Len(Collections(segs, depth)) = 1 + Count(segs, depth)
           /\ Collections(segs, depth)[1].href = Encode(segs, TRUE)
           /\ Collections(segs, depth)[1].name = IF segs = <<>> THEN <<>> ELSE Last(segs)
           /\ \A k \in 1..Count(segs, depth) :
                 IsChild(Collections(segs, depth)[1 + k], segs, Order(segs)[k])
<1> DEFINE children == Order(segs)
           count == Count(segs, depth)
           all == Collections(segs, depth)
           self == [href |-> Encode(segs, TRUE), name |-> IF segs = <<>> THEN <<>> ELSE Last(segs)]
           entry(k) == [href |-> Encode(Append(segs, children[k]), TRUE), name |-> children[k]]
           list == [k \in 1..count |-> entry(k)]
           some == {self} \cup {entry(k) : k \in 1..count}
           first == <<self>>
<1>1. all = first \o list
  BY DEF Collections, Order, Count
<1>2. Len(children) \in Nat
  <2>1. IsFiniteSet(names(trees[user], segs))
    BY UserMounts, NamesFinite
  <2> QED  BY <2>1, Enumerates DEF Order
<1>3. count \in Nat /\ count <= Len(children)
  BY <1>2 DEF Count
<1>4. first \in Seq(some) /\ Len(first) = 1 /\ first[1] = self
  OBVIOUS
<1>5. list \in [1..count -> some] /\ \A k \in 1..count : list[k] = entry(k)
  OBVIOUS
<1> HIDE DEF self, entry, list, some, first, children, count, all
<1>6. list \in Seq(some) /\ Len(list) = count
  BY <1>3, <1>5, SeqDef
<1>7. /\ first \o list \in Seq(some) /\ Len(first \o list) = Len(first) + Len(list)
      /\ \A k \in 1..(Len(first) + Len(list)) :
            (first \o list)[k] = IF k <= Len(first) THEN first[k] ELSE list[k - Len(first)]
  BY <1>4, <1>6, ConcatProperties
<1>8. Len(all) = 1 + count /\ DOMAIN all = 1..(1 + count)
  BY <1>1, <1>4, <1>6, <1>7
<1>9. all[1] = self
  BY <1>1, <1>3, <1>4, <1>6, <1>7
<1>10. ASSUME NEW k \in 1..count PROVE all[1 + k] = entry(k)
  <2>1. 1 + k \in 1..(1 + count) /\ ~(1 + k <= 1) /\ 1 + k - 1 = k
    BY <1>3
  <2>2. all[1 + k] = list[k]
    BY <1>1, <1>4, <1>6, <1>7, <2>1
  <2> QED  BY <1>5, <2>2
<1>11. self.href = Encode(segs, TRUE) /\ self.name = IF segs = <<>> THEN <<>> ELSE Last(segs)
  BY DEF self
<1>12. \A k \in 1..count : IsChild(entry(k), segs, children[k])
  BY DEF entry, IsChild
<1>13. \A k \in 1..count : IsChild(all[1 + k], segs, children[k])
  BY <1>10, <1>12
<1> QED  BY <1>2, <1>3, <1>8, <1>9, <1>11, <1>13 DEF children, count, all

\* A directory of the tree is a node of it that is in no mount.
LEMMA SyntheticNode ==
    ASSUME IInv, answer.kind = "synthetic"
    PROVE  /\ answer.segs \in Seq(Segment) /\ answer.segs \in Nodes(mounts) /\ TreesInv
           /\ \A m \in mounts : ~HasPrefix(answer.segs, m.path)
<1> DEFINE segs == answer.segs
<1>1. segs \in Seq(Segment) /\ TreesInv
  BY NameFacts DEF IInv, AnswerInv
<1>2. segs = <<>> \/ \E m \in mounts : HasPrefix(m.path, segs)
  BY DEF IInv, ResolvesByPrefix
<1>3. <<>> \in Nodes(mounts)
  BY DEF Nodes
<1>4. ASSUME NEW m \in mounts, HasPrefix(m.path, segs) PROVE segs \in Nodes(mounts)
  <2>1. Mounts(mounts)
    BY <1>1, UserMounts
  <2>2. m.path \in Seq(Segment)
    BY <2>1 DEF Mounts
  <2>3. segs = SubSeq(m.path, 1, Len(segs)) /\ Len(segs) <= Len(m.path) /\ Len(segs) \in Nat
    BY <1>1, <1>4, <2>2, PrefixIsBeginning DEF HasPrefix
  <2>4. Len(segs) \in 0..Len(m.path)
    BY <2>2, <2>3
  <2> QED  BY <2>3, <2>4 DEF Nodes, Beginnings
<1>5. \A m \in mounts : ~HasPrefix(segs, m.path)
  BY DEF IInv, ResolvesByPrefix
<1> QED  BY <1>1, <1>2, <1>3, <1>4, <1>5

\* The directory that was asked for is a node, and so is all that is in it.
LEMMA CollectionNodes ==
    ASSUME IInv, answer.kind = "synthetic", NEW depth,
           NEW i \in DOMAIN Collections(answer.segs, depth)
    PROVE  \E node \in Nodes(mounts) : Collections(answer.segs, depth)[i].href = Encode(node, TRUE)
<1> DEFINE segs == answer.segs
           order == Order(segs)
           count == Count(segs, depth)
           all == Collections(segs, depth)
<1>1. segs \in Seq(Segment) /\ segs \in Nodes(mounts) /\ TreesInv
  BY SyntheticNode
<1> HIDE DEF segs
<1>2. /\ Len(order) \in Nat /\ count \in Nat /\ count <= Len(order)
      /\ DOMAIN all = 1..(1 + count) /\ all[1].href = Encode(segs, TRUE)
  BY <1>1, CollectionsList
<1>3. \A k \in 1..count : IsChild(all[1 + k], segs, order[k])
  BY <1>1, CollectionsList
<1>4. \A k \in 1..Len(order) : Append(segs, order[k]) \in Nodes(mounts)
  BY <1>1, UserMounts, ChildIsNode DEF Order
<1>5. i \in DOMAIN all
  BY DEF segs
<1> HIDE DEF order, count, all
<1>6. CASE i = 1
  BY <1>1, <1>2, <1>6 DEF all, segs
<1>7. CASE i # 1
  <2> DEFINE k == i - 1
  <2>1. k \in 1..count /\ k \in 1..Len(order) /\ i = 1 + k
    BY <1>2, <1>5, <1>7
  <2> HIDE DEF k
  <2>2. all[i].href = Encode(Append(segs, order[k]), TRUE)
    BY <1>3, <2>1 DEF IsChild
  <2> QED  BY <1>4, <2>1, <2>2 DEF all, segs
<1> QED  BY <1>6, <1>7

\* The listing of a directory: itself and, with Depth 1, its children.
Listed(all) == [i \in DOMAIN all |-> Parse(all[i].href).segs]
ListedOnce(segs, depth, all, children) ==
    /\ Len(Listed(all)) = IF depth = "0" THEN 1 ELSE 1 + Cardinality(children)
    /\ Listed(all)[1] = segs
    /\ \A i \in 2..Len(Listed(all)) : Listed(all)[i] \in children
    /\ IsInjective(Listed(all))
    /\ \A i \in DOMAIN all : Listed(all)[i] # <<>> => all[i].name = Last(Listed(all)[i])
LEMMA ListsExactly ==
    ASSUME IInv, answer.kind = "synthetic", NEW depth \in {"0", "1"}
    PROVE  ListedOnce(answer.segs, depth, Collections(answer.segs, depth), ChildPaths(mounts, answer.segs))
<1> DEFINE segs == answer.segs
           all == Collections(segs, depth)
           listed == Listed(all)
           children == ChildPaths(mounts, segs)
           below == names(trees[user], segs)
           order == Order(segs)
           count == Count(segs, depth)
<1>1. /\ segs \in Seq(Segment) /\ segs \in Nodes(mounts) /\ TreesInv
      /\ \A m \in mounts : ~HasPrefix(segs, m.path)
  BY SyntheticNode
<1>2. /\ IsFiniteSet(mounts) /\ Mounts(mounts) /\ TreeOf(trees[user], mounts)
      /\ Configured(config) /\ user \in DOMAIN config.mounts
  BY <1>1, UserMounts DEF TreesInv
<1>3. IsFiniteSet(below)
  BY <1>2, NamesFinite
<1>4. /\ order \in Seq(below) /\ Len(order) = Cardinality(below) /\ IsInjective(order)
  BY <1>3, Enumerates, EnumeratesOnce DEF Order
<1>5. /\ \A x \in below : x \in Segment /\ Append(segs, x) \in children
      /\ Cardinality(children) = Cardinality(below)
  BY <1>1, <1>2, NamesExact, NamesCounted
<1>6. /\ Len(order) \in Nat /\ count \in Nat /\ count <= Len(order)
      /\ DOMAIN all = 1..(1 + count) /\ Len(all) = 1 + count
      /\ all[1].href = Encode(segs, TRUE) /\ all[1].name = IF segs = <<>> THEN <<>> ELSE Last(segs)
      /\ \A k \in 1..count : IsChild(all[1 + k], segs, order[k])
  <2> HIDE DEF order, count
  <2>1. /\ Len(order) \in Nat /\ count \in Nat /\ count <= Len(order)
        /\ DOMAIN Collections(segs, depth) = 1..(1 + count) /\ Len(Collections(segs, depth)) = 1 + count
    BY <1>1, CollectionsList DEF order, count
  <2>2. /\ Collections(segs, depth)[1].href = Encode(segs, TRUE)
        /\ Collections(segs, depth)[1].name = IF segs = <<>> THEN <<>> ELSE Last(segs)
    BY <1>1, CollectionsList
  <2>3. \A k \in 1..count : IsChild(Collections(segs, depth)[1 + k], segs, order[k])
    BY <1>1, CollectionsList DEF order, count
  <2> QED  BY <2>1, <2>2, <2>3
<1>17. order = SetToSeq(names(trees[user], segs)) /\ count = IF depth = "1" THEN Len(order) ELSE 0
  BY DEF Order, Count
<1>19. DOMAIN listed = DOMAIN all /\ \A i \in DOMAIN all : listed[i] = Parse(all[i].href).segs
  BY DEF Listed
<1>20. listed = [i \in DOMAIN listed |-> listed[i]]
  BY DEF Listed
<1> HIDE DEF below, order, count, all, listed, segs, children
<1>7. children \subseteq Nodes(mounts)
  <2>1. ASSUME NEW c \in children PROVE c \in Nodes(mounts)
    <3>1. PICK x \in below : c = Append(segs, x)
      BY <1>1, <1>2, NamesExact DEF below, children
    <3>2. \E k \in 1..Len(order) : order[k] = x
      BY <1>3, <1>17, Enumerates DEF below
    <3> QED  BY <1>1, <1>2, <1>17, <3>1, <3>2, ChildIsNode
  <2> QED  BY <2>1
<1>8. \A node \in Nodes(mounts) : Parse(Encode(node, TRUE)).segs = node
  BY <1>2, NodeNames, EncodedParses DEF mounts
<1>9. DOMAIN listed = 1..(1 + count) /\ Len(listed) = 1 + count
  <2> DEFINE some == {listed[i] : i \in 1..(1 + count)}
             n == 1 + count
  <2>1. DOMAIN listed = 1..n /\ listed \in [1..n -> some]
    BY <1>6, <1>19, <1>20
  <2>3. n \in Nat
    BY <1>6
  <2> HIDE DEF some, n
  <2>2. listed \in Seq(some) /\ Len(listed) = n
    BY <2>1, <2>3, SeqDef
  <2> QED  BY <2>1, <2>2 DEF n
<1>10. listed[1] = segs
  <2>1. 1 \in DOMAIN all /\ all[1].href = Encode(segs, TRUE)
    BY <1>6
  <2>2. listed[1] = Parse(all[1].href).segs
    BY <1>19, <2>1
  <2>3. Parse(Encode(segs, TRUE)).segs = segs
    BY <1>1, <1>8
  <2> QED  BY <2>1, <2>2, <2>3
<1>11. ASSUME NEW k \in 1..count
       PROVE  /\ order[k] \in below /\ Append(segs, order[k]) \in children
              /\ listed[1 + k] = Append(segs, order[k]) /\ all[1 + k].name = order[k]
  <2>1. k \in 1..Len(order) /\ 1 + k \in 1..(1 + count)
    <3>1. Len(order) \in Nat /\ count \in Nat /\ count <= Len(order)
      BY <1>6
    <3> QED  BY <3>1
  <2>2. order[k] \in below /\ Append(segs, order[k]) \in children
    BY <1>4, <1>5, <2>1
  <2>3. all[1 + k].href = Encode(Append(segs, order[k]), TRUE) /\ all[1 + k].name = order[k]
    BY <1>6 DEF IsChild
  <2>4. listed[1 + k] = Parse(all[1 + k].href).segs
    BY <1>6, <1>19, <2>1
  <2> QED  BY <1>7, <1>8, <2>2, <2>3, <2>4
<1>12. ASSUME NEW k \in 1..count
       PROVE  /\ Len(listed[1 + k]) = Len(segs) + 1 /\ listed[1 + k][Len(segs) + 1] = order[k]
              /\ Last(listed[1 + k]) = order[k]
  <2>1. order[k] \in Segment /\ listed[1 + k] = Append(segs, order[k])
    BY <1>5, <1>11
  <2>2. Len(Append(segs, order[k])) = Len(segs) + 1 /\ Append(segs, order[k])[Len(segs) + 1] = order[k]
    BY <1>1, <2>1, AppendProperties
  <2> QED  BY <2>1, <2>2 DEF Last
<1>13. \A i \in DOMAIN listed : i = 1 \/ \E k \in 1..count : i = 1 + k
  <2>1. TAKE i \in DOMAIN listed
  <2>0. count \in Nat /\ i \in 1..(1 + count)
    BY <1>6, <1>9
  <2>2. i = 1 \/ i - 1 \in 1..count
    BY <2>0
  <2>3. i = 1 + (i - 1)
    BY <2>0
  <2> QED  BY <2>2, <2>3
<1>14. \A i \in 2..Len(listed) : listed[i] \in children
  <2>1. TAKE i \in 2..Len(listed)
  <2>2. i \in DOMAIN listed /\ i # 1
    <3>1. count \in Nat /\ i \in 2..(1 + count)
      BY <1>6, <1>9
    <3>2. i \in 1..(1 + count) /\ i # 1
      BY <3>1
    <3> QED  BY <1>9, <3>2
  <2>3. PICK k \in 1..count : i = 1 + k
    BY <1>13, <2>2
  <2> QED  BY <1>11, <2>3
<1>15. IsInjective(listed)
  <2>1. ASSUME NEW i \in DOMAIN listed, NEW j \in DOMAIN listed, listed[i] = listed[j] PROVE i = j
    <3>1. CASE i = 1 /\ j = 1
      BY <3>1
    <3>2. ASSUME NEW k \in 1..count, listed[1 + k] = listed[1] PROVE FALSE
      <4>1. Len(segs) \in Nat
        BY <1>1
      <4>2. listed[1 + k] = segs
        BY <1>10, <3>2
      <4>3. Len(listed[1 + k]) = Len(segs) + 1
        BY <1>12
      <4> QED  BY <4>1, <4>2, <4>3
    <3>3. ASSUME NEW k \in 1..count, NEW n \in 1..count, i = 1 + k, j = 1 + n PROVE i = j
      <4>1. order[k] = order[n]
        BY <1>12, <2>1, <3>3
      <4>2. k \in DOMAIN order /\ n \in DOMAIN order
        BY <1>4, <1>6
      <4>3. k = n
        BY <1>4, <4>1, <4>2 DEF IsInjective
      <4> QED  BY <3>3, <4>3
    <3> QED  BY <1>13, <2>1, <3>1, <3>2, <3>3
  <2> QED  BY <2>1 DEF IsInjective
<1>16. ASSUME NEW i \in DOMAIN listed, listed[i] # <<>> PROVE all[i].name = Last(listed[i])
  <2>1. CASE i = 1
    BY <1>6, <1>10, <1>16, <2>1
  <2>2. ASSUME NEW k \in 1..count, i = 1 + k PROVE all[i].name = Last(listed[i])
    BY <1>11, <1>12, <2>2
  <2> QED  BY <1>13, <2>1, <2>2
<1>18. Len(listed) = IF depth = "0" THEN 1 ELSE 1 + Cardinality(children)
  BY <1>4, <1>5, <1>9, <1>17
<1>21. \A i \in DOMAIN all : listed[i] # <<>> => all[i].name = Last(listed[i])
  BY <1>16, <1>19
<1> QED  BY <1>10, <1>14, <1>15, <1>18, <1>21 DEF ListedOnce, all, listed, segs, children

\* What ListDirectory makes of a request is what AskedIsAnswered says.
LEMMA AnswersWhatIsAsked == IInv /\ ListDirectory => AskedIsAnswered'
<1> SUFFICES ASSUME IInv, ListDirectory PROVE AskedIsAnswered'
  OBVIOUS
<1>1. answer.kind = "synthetic" /\ mounts' = mounts
  BY DEF ListDirectory, mounts
<1>2. PICK depth \in Depths, body \in Bodies :
         LET pf == ParsePropfind(body)
         IN  /\ answer' = IF depth \notin {"0", "1"} THEN DepthRefused(depth)
                          ELSE IF ~pf.ok THEN [kind |-> "bad request"]
                          ELSE [kind |-> "listing", segs |-> answer.segs,
                                entries |-> WriteCollections(Collections(answer.segs, depth), pf)]
             /\ from' = [kind |-> "propfind", depth |-> depth, body |-> body]
  BY DEF ListDirectory
<1> DEFINE pf == ParsePropfind(body)
           segs == answer.segs
           all == Collections(segs, depth)
           entries == WriteCollections(all, pf)
           listed == Listed(all)
           children == ChildPaths(mounts, segs)
           right == depth \in {"0", "1"} /\ (Blank(body) \/ WellFormed(body))
<1>3. body \in Seq(Token) /\ Decodable(body)
  BY BodiesAssumption
<1>4. pf.ok <=> Blank(body) \/ WellFormed(body)
  BY <1>3, ParsesWhatIsAsked
<1>5. from'.kind = "propfind" /\ from'.depth = depth /\ from'.body = body
  BY <1>2
<1>6. /\ DOMAIN entries = DOMAIN all
      /\ \A i \in DOMAIN all : /\ entries[i].href = all[i].href /\ entries[i].name = all[i].name
                               /\ entries[i].propstats = Propstats(pf)
  <2> HIDE DEF all, pf
  <2> QED  BY DEF WriteCollections
<1>7. depth \notin {"0", "1"} => answer'.kind # "listing"
  BY <1>2 DEF DepthRefused
<1>8. depth \in {"0", "1"} /\ ~pf.ok => answer'.kind # "listing"
  BY <1>2
<1>9. depth \in {"0", "1"} /\ pf.ok => answer' = [kind |-> "listing", segs |-> segs, entries |-> entries]
  BY <1>2
<1> HIDE DEF pf, all, segs, entries, listed, children
<1>10. answer'.kind = "listing" <=> right
  BY <1>4, <1>7, <1>8, <1>9
<1>11. ASSUME right
       PROVE  /\ answer'.entries = entries /\ answer'.segs = segs
              /\ Len(listed) = IF depth = "0" THEN 1 ELSE 1 + Cardinality(children)
              /\ listed[1] = segs
              /\ \A i \in 2..Len(listed) : listed[i] \in children
              /\ IsInjective(listed)
              /\ \A i \in DOMAIN all : /\ listed[i] # <<>> => all[i].name = Last(listed[i])
                                       /\ entries[i].name = all[i].name
                                       /\ EachOnce(entries[i].propstats, Asked(body))
  <2>1. answer'.entries = entries /\ answer'.segs = segs
    BY <1>4, <1>9, <1>11
  <2>2. depth \in {"0", "1"} /\ segs = answer.segs
    BY <1>11 DEF segs
  <2>3. DOMAIN listed = DOMAIN all
    BY DEF listed, Listed
  <2>4. /\ Len(listed) = IF depth = "0" THEN 1 ELSE 1 + Cardinality(children)
        /\ listed[1] = segs
        /\ \A i \in 2..Len(listed) : listed[i] \in children
        /\ IsInjective(listed)
        /\ \A i \in DOMAIN all : listed[i] # <<>> => all[i].name = Last(listed[i])
    BY <1>1, <2>2, ListsExactly DEF ListedOnce, all, listed, segs, children
  <2>5. EachOnce(Propstats(pf), Asked(body))
    BY <1>3, <1>4, <1>11, PropstatsExact DEF pf
  <2> QED  BY <1>6, <2>1, <2>3, <2>4, <2>5
<1>12. ASSUME right
       PROVE  LET theirs == [i \in DOMAIN answer'.entries |-> Parse(answer'.entries[i].href).segs]
              IN  /\ theirs = listed
                  /\ DOMAIN theirs = DOMAIN all
  <2>1. answer'.entries = entries
    BY <1>11, <1>12
  <2> QED  BY <1>6, <2>1 DEF listed, Listed
<1>13. children = {SubSeq(m.path, 1, Len(answer'.segs) + 1) :
                      m \in {n \in mounts' : HasPrefix(n.path, answer'.segs)}}
       \/ ~right
  BY <1>1, <1>11 DEF children, ChildPaths
<1>14. CASE ~right
  BY <1>5, <1>10, <1>14 DEF AskedIsAnswered
<1>15. CASE right
  <2>1. answer'.entries = entries /\ answer'.segs = segs
    BY <1>11, <1>15
  <2>2. ASSUME NEW i \in DOMAIN all
        PROVE  /\ listed[i] # <<>> => answer'.entries[i].name = Last(listed[i])
               /\ EachOnce(answer'.entries[i].propstats, Asked(body))
    BY <1>11, <1>15, <2>1
  <2> QED  BY <1>5, <1>10, <1>11, <1>12, <1>13, <1>15, <2>1, <2>2 DEF AskedIsAnswered
<1> QED  BY <1>14, <1>15

LEMMA ListDirectoryStep == IInv /\ ListDirectory => IInv'
<1> SUFFICES ASSUME IInv, ListDirectory PROVE IInv'
  OBVIOUS
<1>1. /\ UNCHANGED <<config, trees, user, shown>> /\ mounts' = mounts
      /\ answer.kind = "synthetic"
  BY DEF ListDirectory, mounts
<1>2. TreesInv'
  BY <1>1, NextTrees DEF IInv
<1>3. PICK depth \in Depths, body \in Bodies :
         LET pf == ParsePropfind(body)
         IN  /\ answer' = IF depth \notin {"0", "1"} THEN DepthRefused(depth)
                          ELSE IF ~pf.ok THEN [kind |-> "bad request"]
                          ELSE [kind |-> "listing", segs |-> answer.segs,
                                entries |-> WriteCollections(Collections(answer.segs, depth), pf)]
             /\ from' = [kind |-> "propfind", depth |-> depth, body |-> body]
  BY DEF ListDirectory
<1>a. from'.kind = "propfind"
  BY <1>3
<1>4. \/ answer'.kind \in {"forbidden", "bad request"}
      \/ /\ answer'.kind = "listing" /\ answer'.segs = answer.segs
         /\ \A i \in DOMAIN answer'.entries : \E node \in Nodes(mounts) :
               answer'.entries[i].href = Encode(node, TRUE)
  <2> DEFINE pf == ParsePropfind(body)
             all == Collections(answer.segs, depth)
             listing == [kind |-> "listing", segs |-> answer.segs,
                         entries |-> WriteCollections(all, pf)]
  <2>1. CASE depth \notin {"0", "1"}
    BY <1>3, <2>1 DEF DepthRefused
  <2>2. CASE depth \in {"0", "1"} /\ ~pf.ok
    BY <1>3, <2>2
  <2>3. CASE depth \in {"0", "1"} /\ pf.ok
    <3>1. answer' = listing
      BY <1>3, <2>3
    <3>2. \A i \in DOMAIN all : \E node \in Nodes(mounts) : all[i].href = Encode(node, TRUE)
      BY <1>1, CollectionNodes
    <3> HIDE DEF all, pf
    <3>3. /\ DOMAIN WriteCollections(all, pf) = DOMAIN all
          /\ \A i \in DOMAIN all : WriteCollections(all, pf)[i].href = all[i].href
      BY DEF WriteCollections
    <3>4. /\ answer'.kind = "listing" /\ answer'.segs = answer.segs
          /\ answer'.entries = WriteCollections(all, pf)
      BY <3>1
    <3> QED  BY <3>2, <3>3, <3>4
  <2> QED  BY <2>1, <2>2, <2>3
<1>5. AnswerInv'
  BY <1>1, <1>4 DEF IInv, AnswerInv
<1>6. ResolvesByPrefix'
  BY <1>4 DEF ResolvesByPrefix
<1>7. FromInv' /\ ShownIfInside' /\ HrefLeadsBack'
  BY <1>1, <1>4, <1>a DEF FromInv, ShownIfInside, HrefLeadsBack
<1> QED  BY <1>2, <1>5, <1>6, <1>7, AnswersWhatIsAsked DEF IInv

LEMMA FollowEntryStep == IInv /\ FollowEntry => IInv'
<1> SUFFICES ASSUME IInv, FollowEntry PROVE IInv'
  OBVIOUS
<1>1. /\ UNCHANGED <<config, trees, user, shown>> /\ mounts' = mounts
      /\ answer.kind = "listing" /\ from'.kind = "synthetic"
  BY DEF FollowEntry, mounts
<1>2. TreesInv /\ TreesInv'
  BY <1>1, NextTrees DEF IInv
<1>3. PICK i \in DOMAIN answer.entries : Serve(answer.entries[i].href)
  BY DEF FollowEntry
<1>4. PICK node \in Nodes(mounts) : answer.entries[i].href = Encode(node, TRUE)
  BY <1>1 DEF IInv, AnswerInv
<1> DEFINE path == Encode(node, TRUE)
           parsed == Parse(path)
<1>5. node \in Seq(Name) /\ \A k \in DOMAIN node : checkComponent(node[k])
  BY <1>2, NodeNames DEF TreesInv, mounts
<1>6. path \in Seq(Segment)
  BY <1>5, NameFacts, EncodeFacts
<1>7. parsed.ok = TRUE /\ parsed.segs = node
  BY <1>5, EncodedParses
<1>8. Serve(path)
  BY <1>3, <1>4
<1> HIDE DEF path, parsed
<1>9. /\ answer'.kind \in {"bad request", "not found", "synthetic", "forwarded"}
      /\ answer'.kind = "bad request" <=> ~parsed.ok
      /\ parsed.ok => answer'.segs = parsed.segs
      /\ answer'.kind = "not found" => answer'.segs # <<>>
      /\ AnswerInv' /\ ResolvesByPrefix'
  BY <1>1, <1>2, <1>6, <1>8, ServeFacts DEF parsed
<1>10. answer'.kind # "not found"
  <2> SUFFICES ASSUME answer'.kind = "not found" PROVE FALSE
    OBVIOUS
  <2>1. {m \in mounts : HasPrefix(m.path, answer'.segs)} = {}
    BY <1>1, <1>9 DEF ResolvesByPrefix
  <2>2. answer'.segs = node /\ node # <<>>
    BY <1>7, <1>9
  <2>3. \E m \in mounts : HasPrefix(m.path, node)
    BY <1>2, <2>2, UserMounts, NodeFacts
  <2> QED  BY <2>1, <2>2, <2>3
<1>11. answer'.kind \in {"synthetic", "forwarded"}
  BY <1>7, <1>9, <1>10
<1>12. FromInv' /\ ShownIfInside' /\ HrefLeadsBack' /\ AskedIsAnswered'
  BY <1>1, <1>11 DEF FromInv, ShownIfInside, HrefLeadsBack, AskedIsAnswered
<1> QED  BY <1>2, <1>9, <1>12 DEF IInv

\* What the client is shown for a resource.
LEMMA MapperFacts ==
    ASSUME NEW m, NEW r \in Seq(Name), NEW u \in Seq(Name), NEW dir \in BOOLEAN,
           NEW href \in Hrefs(r, RequestDirectory(u, dir))
    PROVE  LET to == hrefMapper(m, href, Encode(u, dir))
           IN  /\ to # Nothing <=> HasPrefix(r, Target(m)) /\ href.form # "opaque"
               /\ to # Nothing => \E d \in BOOLEAN :
                     to.path = Encode(m.path \o CutPrefix(r, Target(m)), d)
<1> DEFINE base == Encode(u, dir)
           parsed == ParseHref(href, base)
           to == hrefMapper(m, href, base)
           mapped == [kind |-> "path",
                      path |-> Encode(m.path \o CutPrefix(r, Target(m)), parsed.dir)]
<1>1. /\ href.form = "opaque" => ~parsed.ok
      /\ href.form # "opaque" =>
            parsed.ok /\ parsed.segs = r /\ parsed.dir \in BOOLEAN
  BY HrefResolves
<1>2. to = IF ~parsed.ok THEN Nothing
           ELSE IF ~HasPrefix(parsed.segs, Target(m)) THEN Nothing
           ELSE [kind |-> "path",
                 path |-> Encode(m.path \o CutPrefix(parsed.segs, Target(m)), parsed.dir)]
  BY DEF hrefMapper, Target
<1> HIDE DEF parsed, to
<1>3. CASE href.form = "opaque"
  <2>1. to = Nothing
    BY <1>1, <1>2, <1>3
  <2> QED  BY <1>3, <2>1 DEF to
<1>4. CASE href.form # "opaque" /\ ~HasPrefix(r, Target(m))
  <2>1. to = Nothing
    BY <1>1, <1>2, <1>4
  <2> QED  BY <1>4, <2>1 DEF to
<1>5. CASE href.form # "opaque" /\ HasPrefix(r, Target(m))
  <2>1. to = mapped /\ parsed.dir \in BOOLEAN
    BY <1>1, <1>2, <1>5
  <2>2. mapped # Nothing
    BY DEF Nothing
  <2>3. to.path = Encode(m.path \o CutPrefix(r, Target(m)), parsed.dir)
    BY <2>1
  <2>4. to # Nothing /\ \E d \in BOOLEAN : to.path = Encode(m.path \o CutPrefix(r, Target(m)), d)
    BY <2>1, <2>2, <2>3
  <2> QED  BY <1>5, <2>4 DEF to
<1> QED  BY <1>3, <1>4, <1>5

LEMMA NameResourceStep == IInv /\ NameResource => IInv'
<1> SUFFICES ASSUME IInv, NameResource PROVE IInv'
  OBVIOUS
<1> DEFINE m == answer.mount
           u == answer.url.segs
<1>1. /\ UNCHANGED <<config, trees, user>> /\ mounts' = mounts
      /\ answer.kind = "forwarded" /\ answer'.kind = "listed"
  BY DEF NameResource, mounts
<1>2. TreesInv'
  BY <1>1, NextTrees DEF IInv
<1>3. m \in mounts /\ u \in Seq(Name) /\ \E dir \in BOOLEAN : answer.url.path = Encode(u, dir)
  BY <1>1 DEF IInv, AnswerInv
<1>4. PICK r \in Resources, base \in {answer.url.path, Encode(u, TRUE)} :
         \E href \in Hrefs(r, IF IsDir(base) THEN u ELSE DropLast(u)) :
            /\ shown' = hrefMapper(m, href, base)
            /\ from' = [kind |-> "upstream", resource |-> r, form |-> href.form, mount |-> m]
  BY DEF NameResource
<1> HIDE DEF m, u
<1>5. PICK dir \in BOOLEAN : base = Encode(u, dir)
  BY <1>3, <1>4
<1>6. PICK href \in Hrefs(r, RequestDirectory(u, dir)) :
         /\ shown' = hrefMapper(m, href, Encode(u, dir))
         /\ from' = [kind |-> "upstream", resource |-> r, form |-> href.form, mount |-> m]
  BY <1>4, <1>5 DEF RequestDirectory
<1>7. r \in Seq(Name)
  BY ResourcesAssumption
<1>8. /\ from'.kind = "upstream" /\ from'.resource = r /\ from'.form = href.form /\ from'.mount = m
  BY <1>6
<1>9. /\ shown' # Nothing <=> HasPrefix(r, Target(m)) /\ href.form # "opaque"
      /\ shown' # Nothing => \E d \in BOOLEAN :
            shown'.path = Encode(m.path \o CutPrefix(r, Target(m)), d)
  BY <1>3, <1>6, <1>7, MapperFacts
<1>10. AnswerInv' /\ ResolvesByPrefix'
  BY <1>1 DEF AnswerInv, ResolvesByPrefix
<1>11. Target(m)' = Target(m') /\ config' = config
  BY <1>1 DEF Target
<1>12. FromInv'
  BY <1>1, <1>3, <1>7, <1>8, <1>9 DEF FromInv, Target
<1>13. ShownIfInside'
  BY <1>1, <1>8, <1>9 DEF ShownIfInside, Target
<1>14. HrefLeadsBack'
  BY <1>1 DEF HrefLeadsBack
<1>15. AskedIsAnswered'
  BY <1>8 DEF AskedIsAnswered
<1> QED  BY <1>2, <1>10, <1>12, <1>13, <1>14, <1>15 DEF IInv

LEMMA FollowHrefStep == IInv /\ FollowHref => IInv'
<1> SUFFICES ASSUME IInv, FollowHref PROVE IInv'
  OBVIOUS
<1> DEFINE m == from.mount
           r == from.resource
           prefix == Target(m)
           rest == CutPrefix(r, prefix)
           segs == m.path \o rest
<1>1. /\ UNCHANGED <<config, trees, user, from, shown>> /\ mounts' = mounts
      /\ answer.kind = "listed" /\ shown # Nothing /\ Serve(shown.path)
  BY DEF FollowHref, mounts
<1>2. TreesInv /\ TreesInv'
  BY <1>1, NextTrees DEF IInv
<1>3. /\ from.kind = "upstream" /\ m \in mounts /\ r \in Seq(Name) /\ HasPrefix(r, prefix)
      /\ \E d \in BOOLEAN : shown.path = Encode(segs, d)
  BY <1>1 DEF IInv, FromInv, ShownIfInside, Target
<1>4. PICK d \in BOOLEAN : shown.path = Encode(segs, d)
  BY <1>3
<1>5. /\ m.path \in Seq(Name) /\ prefix \in Seq(Name)
      /\ \A i \in 1..Len(m.path) : checkComponent(m.path[i])
  BY <1>2, <1>3, UserMounts
<1> HIDE DEF m, r, prefix
<1>6. rest \in Seq(Name) /\ r = prefix \o rest
  BY <1>3, <1>5, CutFacts
<1> HIDE DEF rest
<1>7. segs \in Seq(Name) /\ HasPrefix(segs, m.path) /\ CutPrefix(segs, m.path) = rest
  BY <1>5, <1>6, JoinFacts
<1> DEFINE path == Encode(segs, d)
           parsed == Parse(path)
<1>8. path \in Seq(Segment)
  <2>1. segs \in Seq(Segment)
    BY <1>7, NameFacts
  <2> HIDE DEF segs
  <2> QED  BY <2>1, EncodeFacts
<1>9. /\ parsed.ok \in BOOLEAN
      /\ parsed.ok = TRUE <=> \A i \in DOMAIN segs : checkComponent(segs[i])
      /\ parsed.ok => parsed.segs = segs
  <2> HIDE DEF segs
  <2> QED  BY <1>7, EncodedParses
<1>10. Serve(path)
  BY <1>1, <1>4
<1> HIDE DEF path, parsed
<1>11. /\ answer'.kind \in {"bad request", "not found", "synthetic", "forwarded"}
       /\ answer'.kind = "bad request" <=> ~parsed.ok
       /\ parsed.ok => answer'.segs = parsed.segs
       /\ AnswerInv' /\ ResolvesByPrefix'
  BY <1>1, <1>2, <1>8, <1>10, ServeFacts DEF parsed
<1>12. AskedIsAnswered'
  BY <1>1, <1>3 DEF AskedIsAnswered
<1>13. CASE parsed.ok = FALSE
  <2>1. answer'.kind = "bad request"
    BY <1>11, <1>13
  <2>2. PICK i \in DOMAIN segs : ~checkComponent(segs[i])
    BY <1>9, <1>13
  <2>3. /\ Len(m.path) \in Nat /\ Len(rest) \in Nat /\ Len(prefix) \in Nat
        /\ i \in 1..(Len(m.path) + Len(rest))
        /\ segs[i] = IF i <= Len(m.path) THEN m.path[i] ELSE rest[i - Len(m.path)]
    <3>1. /\ Len(segs) = Len(m.path) + Len(rest)
          /\ \A k \in 1..(Len(m.path) + Len(rest)) :
                segs[k] = IF k <= Len(m.path) THEN m.path[k] ELSE rest[k - Len(m.path)]
      BY <1>5, <1>6, ConcatProperties
    <3>2. DOMAIN segs = 1..Len(segs) /\ Len(m.path) \in Nat /\ Len(rest) \in Nat /\ Len(prefix) \in Nat
      BY <1>5, <1>6, <1>7
    <3> HIDE DEF segs
    <3> QED  BY <2>2, <3>1, <3>2
  <2> HIDE DEF segs
  <2>4. ~(i <= Len(m.path)) /\ i - Len(m.path) \in 1..Len(rest)
    <3>1. i <= Len(m.path) => i \in 1..Len(m.path)
      BY <2>3
    <3>2. ~(i <= Len(m.path))
      BY <1>5, <2>2, <2>3, <3>1
    <3> QED  BY <2>3, <3>2
  <2> DEFINE k == i - Len(m.path)
             j == Len(prefix) + k
  <2>5. ~checkComponent(rest[k])
    BY <2>2, <2>3, <2>4
  <2>6. j \in 1..(Len(prefix) + Len(rest)) /\ ~(j <= Len(prefix)) /\ j - Len(prefix) = k
    BY <2>3, <2>4
  <2> HIDE DEF k, j
  <2>7. r[j] = rest[k] /\ j \in DOMAIN r
    <3>1. /\ Len(prefix \o rest) = Len(prefix) + Len(rest)
          /\ \A h \in 1..(Len(prefix) + Len(rest)) :
                (prefix \o rest)[h] = IF h <= Len(prefix) THEN prefix[h] ELSE rest[h - Len(prefix)]
      BY <1>5, <1>6, ConcatProperties
    <3>2. Len(r) = Len(prefix) + Len(rest) /\ DOMAIN r = 1..Len(r)
      BY <1>3, <1>6, <3>1
    <3> QED  BY <1>6, <2>6, <3>1, <3>2
  <2>8. \E h \in DOMAIN from.resource : ~checkComponent(from.resource[h])
    BY <2>5, <2>7 DEF r
  <2>9. FromInv'
    BY <1>1, <1>2, <1>3, <2>1 DEF FromInv, IInv
  <2>10. HrefLeadsBack'
    BY <1>1, <2>1, <2>8 DEF HrefLeadsBack
  <2>11. ShownIfInside'
    BY <1>1 DEF IInv, ShownIfInside
  <2> QED  BY <1>2, <1>11, <1>12, <2>9, <2>10, <2>11 DEF IInv
<1>14. CASE parsed.ok = TRUE
  <2>1. answer'.segs = segs /\ answer'.kind \in {"not found", "synthetic", "forwarded"}
    BY <1>9, <1>11, <1>14
  <2> HIDE DEF segs
  <2> DEFINE above == {n \in mounts : HasPrefix(segs, n.path)}
  <2>2. m \in above
    BY <1>3, <1>7
  <2>3. /\ answer'.kind \in {"not found", "synthetic"} => above = {}
        /\ answer'.kind = "forwarded" =>
              /\ above = {answer'.mount}
              /\ answer'.url.segs = config.base[answer'.mount.upstream] \o answer'.mount.target
                                    \o CutPrefix(segs, answer'.mount.path)
    BY <1>1, <1>11, <2>1 DEF ResolvesByPrefix
  <2> HIDE DEF above
  <2>4. answer'.kind = "forwarded" /\ above = {answer'.mount}
    BY <2>1, <2>2, <2>3
  <2>5. answer'.mount = m
    BY <2>2, <2>4
  <2>6. answer'.url.segs = prefix \o rest
    BY <1>7, <2>3, <2>4, <2>5 DEF prefix, Target
  <2>7. answer'.mount = from.mount /\ answer'.url.segs = from.resource
    BY <1>6, <2>5, <2>6 DEF m, r
  <2>8. FromInv'
    BY <1>1, <1>3, <2>4 DEF FromInv, IInv
  <2>9. HrefLeadsBack'
    BY <1>1, <2>4, <2>7 DEF HrefLeadsBack
  <2>10. ShownIfInside'
    BY <1>1 DEF IInv, ShownIfInside
  <2> QED  BY <1>2, <1>11, <1>12, <2>8, <2>9, <2>10 DEF IInv
<1> QED  BY <1>9, <1>13, <1>14

-----------------------------------------------------------------------------

LEMMA Invariance == Spec => []IInv
<1>1. Init => IInv
  BY InitIInv
<1>2. IInv /\ [Next]_vars => IInv'
  <2> SUFFICES ASSUME IInv, [Next]_vars PROVE IInv'
    OBVIOUS
  <2>1. CASE Next
    BY <2>1, RequestStep, GetDirectoryStep, ListDirectoryStep, FollowEntryStep,
       NameResourceStep, FollowHrefStep, StartOverStep DEF Next
  <2>2. CASE UNCHANGED vars
    <3>1. TreesInv' /\ AnswerInv' /\ ResolvesByPrefix'
      BY <2>2 DEF vars, IInv, TreesInv, AnswerInv, ResolvesByPrefix, mounts
    <3>2. FromInv' /\ ShownIfInside' /\ HrefLeadsBack'
      BY <2>2 DEF vars, IInv, FromInv, ShownIfInside, HrefLeadsBack, mounts, Target
    <3>3. AskedIsAnswered'
      BY <2>2 DEF vars, IInv, AskedIsAnswered, mounts
    <3> QED  BY <3>1, <3>2, <3>3 DEF IInv
  <2> QED  BY <2>1, <2>2
<1> QED  BY <1>1, <1>2, PTL DEF Spec

(* What a request comes to follows from the user's mounts alone: the one    *)
(* mount that the path starts with, on its upstream and below its target; a *)
(* directory above mounts; or nothing.  The code gets there by walking a    *)
(* tree from segment to segment.                                            *)
THEOREM AlwaysByPrefix == Spec => []ResolvesByPrefix
<1>1. IInv => ResolvesByPrefix
  BY DEF IInv
<1> QED  BY <1>1, Invariance, PTL

(* A PROPFIND of a synthetic directory is answered if and only if its body  *)
(* and Depth are right, whatever the tokens of the body and the user's      *)
(* mounts: with the directory and, for Depth 1, each path that leads on to  *)
(* a mount, once and by its name, and with each property that was asked     *)
(* for, once and found if and only if the program has it.                   *)
THEOREM AskedIsAlwaysAnswered == Spec => []AskedIsAnswered
<1>1. IInv => AskedIsAnswered
  BY DEF IInv
<1> QED  BY <1>1, Invariance, PTL

(* Whatever a synthetic directory lists is there when a client asks for it. *)
THEOREM EntriesAlwaysLead == Spec => []EntriesLead
<1>1. IInv => EntriesLead
  BY DEF IInv, FromInv, EntriesLead
<1> QED  BY <1>1, Invariance, PTL

(* The client is shown what an upstream names below the target of the mount *)
(* that was asked for, and nothing else, whatever the form of the href and  *)
(* however its characters are escaped.                                      *)
THEOREM OnlyInsideShown == Spec => []ShownIfInside
<1>1. IInv => ShownIfInside
  BY DEF IInv
<1> QED  BY <1>1, Invariance, PTL

(* What the client is shown leads it back to the resource that the upstream *)
(* named, on the same mount, or is refused as unsafe.                       *)
THEOREM HrefsLeadBack == Spec => []HrefLeadsBack
<1>1. IInv => HrefLeadsBack
  BY DEF IInv
<1> QED  BY <1>1, Invariance, PTL

\* What is left of a sequence has no names but those of the whole.
LEMMA CutSafe ==
    ASSUME NEW s \in Seq(Name), NEW p \in Seq(Name), HasPrefix(s, p), SafeNames(s)
    PROVE  CutPrefix(s, p) \in Seq(Name) /\ SafeNames(CutPrefix(s, p))
<1> DEFINE rest == CutPrefix(s, p)
<1>1. rest \in Seq(Name) /\ s = p \o rest
  BY CutFacts
<1> HIDE DEF rest
<1>2. Len(p) \in Nat /\ Len(rest) \in Nat /\ Len(p \o rest) = Len(p) + Len(rest)
      /\ \A i \in 1..(Len(p) + Len(rest)) :
            (p \o rest)[i] = IF i <= Len(p) THEN p[i] ELSE rest[i - Len(p)]
  BY <1>1, ConcatProperties
<1>3. ASSUME NEW i \in 1..Len(rest) PROVE checkComponent(rest[i])
  <2> DEFINE j == Len(p) + i
  <2>1. j \in 1..(Len(p) + Len(rest)) /\ ~(j <= Len(p)) /\ j - Len(p) = i
    BY <1>2
  <2> HIDE DEF j
  <2>2. s[j] = rest[i] /\ j \in 1..Len(s)
    BY <1>1, <1>2, <2>1
  <2> QED  BY <2>2 DEF SafeNames
<1> QED  BY <1>1, <1>3 DEF SafeNames, rest

LEMMA JoinSafe ==
    ASSUME NEW p \in Seq(Name), NEW q \in Seq(Name), SafeNames(p), SafeNames(q)
    PROVE  p \o q \in Seq(Name) /\ SafeNames(p \o q)
<1>1. /\ p \o q \in Seq(Name) /\ Len(p) \in Nat /\ Len(q) \in Nat
      /\ Len(p \o q) = Len(p) + Len(q)
      /\ \A i \in 1..(Len(p) + Len(q)) :
            (p \o q)[i] = IF i <= Len(p) THEN p[i] ELSE q[i - Len(p)]
  BY ConcatProperties
<1>2. ASSUME NEW i \in 1..Len(p \o q) PROVE checkComponent((p \o q)[i])
  <2>1. CASE i <= Len(p)
    <3>1. i \in 1..Len(p) /\ (p \o q)[i] = p[i]
      BY <1>1, <2>1
    <3> QED  BY <3>1 DEF SafeNames
  <2>2. CASE ~(i <= Len(p))
    <3>1. i - Len(p) \in 1..Len(q) /\ (p \o q)[i] = q[i - Len(p)]
      BY <1>1, <2>2
    <3> QED  BY <3>1 DEF SafeNames
  <2> QED  BY <2>1, <2>2
<1> QED  BY <1>1, <1>2 DEF SafeNames

(* No upstream is asked for a segment that it could read as a dot segment   *)
(* or as one with NUL, however often and in whatever order it decodes it    *)
(* again, splits it at separators and takes characters for others: neither  *)
(* the client nor the configuration can name one.                           *)
THEOREM NeverTraverses == Spec => []NoTraversal
<1>1. IInv => NoTraversal
  <2> SUFFICES ASSUME IInv, answer.kind = "forwarded",
                      NEW i \in DOMAIN answer.url.segs, NEW t \in Readings(answer.url.segs[i])
               PROVE  ~HasNUL(t) /\ ~DotsAndSpaces(t)
    BY DEF NoTraversal
  <2> DEFINE m == answer.mount
             base == config.base[m.upstream]
             rest == CutPrefix(answer.segs, m.path)
             segs == answer.url.segs
  <2>1. answer.segs \in Seq(Name) /\ SafeNames(answer.segs) /\ m \in mounts
    BY DEF IInv, AnswerInv
  <2>2. HasPrefix(answer.segs, m.path) /\ segs = base \o m.target \o rest
    BY DEF IInv, ResolvesByPrefix
  <2>3. /\ m.path \in Seq(Name) /\ m.target \in Seq(Name) /\ SafeNames(m.target)
        /\ base \in Seq(Name) /\ SafeNames(base)
    BY <2>1 DEF IInv, TreesInv, Configured, mounts
  <2> HIDE DEF m, base
  <2>4. rest \in Seq(Name) /\ SafeNames(rest)
    BY <2>1, <2>2, <2>3, CutSafe
  <2> HIDE DEF rest
  <2>5. base \o m.target \in Seq(Name) /\ SafeNames(base \o m.target)
    BY <2>3, JoinSafe
  <2>6. segs \in Seq(Name) /\ SafeNames(segs)
    BY <2>2, <2>4, <2>5, JoinSafe
  <2>7. i \in 1..Len(segs) /\ segs[i] \in Segment /\ segs[i] # <<>>
    BY <2>6 DEF Name
  <2>8. checkComponent(segs[i])
    BY <2>6, <2>7 DEF SafeNames
  <2> QED  BY <2>7, <2>8, HarmlessReadings
<1> QED  BY <1>1, Invariance, PTL
=============================================================================
