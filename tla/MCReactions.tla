----------------------------- MODULE MCReactions -----------------------------
(* A small instance of Reactions: one account with two sockets, which is     *)
(* what its races need.                                                      *)
EXTENDS Reactions, TLC

CONSTANT u1

OneAccount == [c \in Conns |-> u1]

Symmetry == Permutations(Messages) \cup Permutations(Emojis)
              \cup Permutations(Conns) \cup Permutations(Flushers)
=============================================================================
