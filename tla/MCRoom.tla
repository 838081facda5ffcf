------------------------------- MODULE MCRoom -------------------------------
(* Small instances of Room for TLC. *)
EXTENDS Room, TLC

CONSTANTS u1, u2, u3, r1, r2

MCUsers == {u1, u2, u3}
MCPair == {u1, u2}
MCReqs == {r1, r2}

\* What CHANGE_SEAT asks for at a table of two and at a table of one: no seat,
\* which lets more users in than the table has seats, and the last seat.
MCTargets == {-1, 1}
MCTargets1 == {-1, 0}

\* u1 is the creator, so only the other users are interchangeable.
Symm == Permutations({u2, u3}) \cup Permutations({r1, r2})
=============================================================================
