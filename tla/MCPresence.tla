----------------------------- MODULE MCPresence -----------------------------
(* Small instances of Presence for TLC. *)
EXTENDS Presence, TLC

CONSTANTS c1, c2, n1, u1, u2, p1, l1

OneNode == {n1}
OneUser == {u1}
TwoUsers == {u1, u2}
OnePlatform == {p1}
TwoConns == {c1, c2}
OneLogic == {l1}
Symm == Permutations(TwoConns) \cup Permutations(TwoUsers)
=============================================================================
