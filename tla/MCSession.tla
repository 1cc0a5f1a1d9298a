----------------------------- MODULE MCSession ------------------------------
(* A small instance of Session: one browser with two tabs. *)
EXTENDS Session, TLC
=============================================================================
