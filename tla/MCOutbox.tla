------------------------------ MODULE MCOutbox ------------------------------
(* Instances of Outbox for TLC.                                            *)
EXTENDS Outbox, TLC

CONSTANTS m1, m2, m3, d1, d2

MCMessage == {m1, m2, m3}
MCDispatcher == {d1, d2}
MCStamp == {1, 2}

(* Rows are told apart by their stamps alone, which are part of the state, *)
(* and dispatchers by nothing.                                             *)
Symmetry == Permutations(MCMessage) \cup Permutations(MCDispatcher)
=============================================================================
