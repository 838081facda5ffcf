------------------------------- MODULE MCChat -------------------------------
(* Small instances of Chat for TLC. *)
EXTENDS Chat, TLC

CONSTANTS m1, m2, m3, w1, w2

MCThree == {m1, m2, m3}
MCOneWorker == {w1}
MCWorkers == {w1, w2}
=============================================================================
