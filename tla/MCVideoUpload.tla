---------------------------- MODULE MCVideoUpload ----------------------------
(* VideoUpload for TLC: request slots are interchangeable, and so are      *)
(* preparation tasks (used in the runs without liveness properties).       *)
EXTENDS VideoUpload, TLC

(* A bound: two requests at a time after a crash, three before *)
FewAfterCrash == crashes > 0 => \E r \in Requests : req[r] = Idle

Symmetry == Permutations(Requests) \cup Permutations(Tasks)
=============================================================================
