------------------------------ MODULE MCSocket ------------------------------
(* A small instance of Socket. *)
EXTENDS Socket, TLC
=============================================================================
