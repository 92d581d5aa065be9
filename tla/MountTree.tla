------------------------------ MODULE MountTree ------------------------------
(***************************************************************************)
(* The directory tree of a user: which mounts a configuration may have     *)
(* (parseUser), how they become a tree (node.insert), and what a path is   *)
(* in it (node.resolve).  Nothing here looks into a segment; how two of     *)
(* them compare as strings is a parameter.                                  *)
(*                                                                         *)
(* A mount is a record with fields path and target.  A tree is the set of  *)
(* the paths of its nodes and the function from nodes to their mount.      *)
(***************************************************************************)
EXTENDS Naturals, Sequences, FiniteSets, Functions

CONSTANT SegmentLess(_, _)    \* s < t for strings of Go

\* davpath.CutPrefix: segs starts with the segments of prefix; the rest.
HasPrefix(segs, prefix) ==
    /\ Len(segs) >= Len(prefix)
    /\ \A i \in 1..Len(prefix) : segs[i] = prefix[i]
CutPrefix(segs, prefix) == SubSeq(segs, Len(prefix) + 1, Len(segs))

\* slices.Compare(p, q) < 0: p is a proper prefix of q, or has the lesser segment
\* where they first differ.
Before(p, q) ==
    \/ HasPrefix(q, p) /\ Len(p) < Len(q)
    \/ \E k \in 1..Len(p) :
          /\ k <= Len(q)
          /\ \A i \in 1..(k - 1) : p[i] = q[i]
          /\ SegmentLess(p[k], q[k])

\* slices.SortFunc by path: the ways to sort the mounts, of which those with the
\* same path may come in either order.
Sorted(mounts) ==
    {sorted \in {[i \in DOMAIN order |-> mounts[order[i]]] :
                    order \in Bijection(1..Cardinality(DOMAIN mounts), DOMAIN mounts)} :
        \A i, j \in DOMAIN sorted : i < j => ~Before(sorted[j].path, sorted[i].path)}

\* Mutant: the arguments of CutPrefix are swapped.
OverlapSwapped(sorted) ==
    \E i, j \in DOMAIN sorted : i < j /\ HasPrefix(sorted[i].path, sorted[j].path)

\* A mount path is a prefix of one that is sorted behind it.
Overlap(sorted) ==
    \E i, j \in DOMAIN sorted : i < j /\ HasPrefix(sorted[j].path, sorted[i].path)

NoMount == [none |-> TRUE]

Root == [nodes |-> {<<>>}, mount |-> [n \in {<<>>} |-> NoMount]]

\* Mutant: the nodes on the way are not kept.
insertLeaf(tree, m) ==
    LET nodes == tree.nodes \cup {m.path}
    IN  [nodes |-> nodes,
         mount |-> [n \in nodes |-> IF n = m.path THEN m
                                    ELSE IF n \in tree.nodes THEN tree.mount[n]
                                    ELSE NoMount]]

\* node.insert: the nodes of the path, of which the last one gets the mount.
insert(tree, m) ==
    LET nodes == tree.nodes \cup {SubSeq(m.path, 1, i) : i \in 0..Len(m.path)}
    IN  [nodes |-> nodes,
         mount |-> [n \in nodes |-> IF n = m.path THEN m
                                    ELSE IF n \in tree.nodes THEN tree.mount[n]
                                    ELSE NoMount]]

\* node.names: the names of the children of a node, sorted in the code.
names(tree, n) ==
    {c[Len(c)] : c \in {d \in tree.nodes : Len(d) = Len(n) + 1 /\ HasPrefix(d, n)}}

\* node.resolve: down from the root until a mount or a missing child.
resolve(tree, segs) ==
    LET at(i) == SubSeq(segs, 1, i)
        stops == {i \in 0..Len(segs) :
                     at(i) \notin tree.nodes \/ tree.mount[at(i)] # NoMount}
        first == CHOOSE i \in stops : \A j \in stops : i <= j
    IN  IF stops = {} THEN [kind |-> "synthetic", node |-> segs]
        ELSE IF at(first) \notin tree.nodes THEN [kind |-> "missing"]
        ELSE [kind |-> "mount", mount |-> tree.mount[at(first)],
              rest |-> SubSeq(segs, first + 1, Len(segs))]
=============================================================================
