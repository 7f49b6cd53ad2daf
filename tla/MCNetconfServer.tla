-------------------------- MODULE MCNetconfServer --------------------------
(***************************************************************************)
(* NetconfServer for TLC: two clients, so that one session's edits, commit *)
(* and close interleave with the other's, and two or three nodes, so that  *)
(* a candidate can hold what running does not, and the reverse.            *)
(***************************************************************************)
EXTENDS NetconfServer, TLC

CONSTANTS s1, s2, n1, n2, n3

TwoSessions == {s1, s2}
OneSession  == {s1}
OneNode     == {n1}
TwoNodes    == {n1, n2}
ThreeNodes  == {n1, n2, n3}

\* Nothing in the specification tells two sessions or two nodes apart.
Symmetry == Permutations(TwoSessions) \cup Permutations(ThreeNodes)
=============================================================================
