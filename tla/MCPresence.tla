----------------------------- MODULE MCPresence -----------------------------
(* A small instance of Presence: an account with two sockets on one backend *)
(* and one on another.                                                      *)
EXTENDS Presence, TLC

CONSTANTS u1, i1, i2, c1, c2, c3

Sockets == {c1, c2, c3}

OfAccount == [c \in Sockets |-> u1]

OnBackend == [c \in Sockets |-> IF c = c3 THEN i2 ELSE i1]

Symmetry == Permutations({c1, c2})
=============================================================================
