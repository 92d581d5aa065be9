----------------------------- MODULE MCLocalView -----------------------------
(* LocalView with two disks, two names and two changes during a request.    *)
(* Names and disks are interchangeable.                                     *)
EXTENDS LocalView, TLC

MCSymmetry == Permutations(Names) \cup Permutations(Trees)
=============================================================================
