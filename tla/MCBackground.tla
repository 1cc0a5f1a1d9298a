---------------------------- MODULE MCBackground ----------------------------
(***************************************************************************)
(* What a backend does on its own, for TLC: it prepares videos             *)
(* (VideoUpload) and watches the streams (Monitor).  The two share nothing *)
(* but the process that starts them, so a behaviour follows one of the two *)
(* while the other rests.                                                  *)
(***************************************************************************)
EXTENDS VideoUpload, Monitor

VARIABLE follows

MCInit ==
  /\ follows \in {"videos", "streams"} /\ Init /\ MonitorInit
  /\ follows = "streams" => kind = "mp4"

VideoStep == follows = "videos" /\ Next /\ UNCHANGED <<monVars, follows>>
StreamStep == follows = "streams" /\ MonitorNext /\ UNCHANGED <<vars, follows>>

Watches(b) == follows = "streams" /\ WatchStep(b) /\ UNCHANGED <<vars, follows>>

MCSpec ==
  /\ MCInit /\ [][VideoStep \/ StreamStep]_<<vars, monVars, follows>>
  /\ Fairness
  /\ \A b \in Backends : WF_<<monVars, follows>>(Watches(b))
=============================================================================
