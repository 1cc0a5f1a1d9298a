---------------------------- MODULE MCChatClient ----------------------------
(* A small instance of ChatClient. *)
EXTENDS ChatClient
=============================================================================
