------------------------------ MODULE MCChatSend ------------------------------
(* A small instance of ChatSend: one account with two sockets, which may or  *)
(* may not moderate the channel.                                             *)
EXTENDS ChatSend, TLC

CONSTANT u1

OneAccount == [c \in Conns |-> u1]

Symmetry == Permutations(Conns)
=============================================================================
