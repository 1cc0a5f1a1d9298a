------------------------------ MODULE MCPolls ------------------------------
(* A small instance of Polls.  Accounts, options and request slots are      *)
(* interchangeable in the runs that check no liveness.                      *)
EXTENDS Polls, TLC

Symmetry ==
  Permutations(Accounts) \cup Permutations(Options)
    \cup Permutations(Ballots) \cup Permutations(Readers)

(* The safety properties promise nothing once a vote was torn from its      *)
(* count: the safety run looks no further.                                  *)
BeforeTear == ~torn
=============================================================================
