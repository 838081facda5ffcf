------------------------------ MODULE MCAccess ------------------------------
(* Small instances of Access for TLC. *)
EXTENDS Access, TLC

CONSTANTS c1, c2, c3, n1, u1, u2, p1

OneNode == {n1}
OneUser == {u1}
TwoUsers == {u1, u2}
OnePlatform == {p1}
TwoConns == {c1, c2}
ThreeConns == {c1, c2, c3}
Symm == Permutations(ThreeConns) \cup Permutations(TwoUsers)
=============================================================================
