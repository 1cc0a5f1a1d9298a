---------------------------- MODULE UploadClient ----------------------------
(***************************************************************************)
(* Sending a video from the studio: sendVideoFile (web/src/lib/            *)
(* video-upload.ts), the hook and the page that start, resume and cancel   *)
(* it (use-video-upload.ts, components/studio/video-*.tsx).  The server is *)
(* the one of VideoUpload, seen from outside: one step for each request,   *)
(* whose answer may be lost.  A file is Size parts.                        *)
(***************************************************************************)
EXTENDS Integers, FiniteSets

CONSTANTS
  Videos,        \* the uploads of a channel, 1..n
  Runs,          \* calls of start and resume, 1..n
  Size,          \* parts of a file
  Retries,       \* RETRIES
  MaxFaults,     \* bounds: requests or answers the network loses, ...
  MaxVisits      \* ... and times the page is opened

ASSUME UploadAssumption ==
  /\ IsFiniteSet(Videos) /\ IsFiniteSet(Runs)
  /\ Videos \cup Runs \subseteq Nat \ {0}
  /\ Size \in Nat \ {0} /\ {Retries, MaxFaults, MaxVisits} \subseteq Nat

VARIABLES
  row,           \* the videos on the server: absent, uploading, processing, gone
  held, told,    \* the parts it has, and received_bytes
  run,           \* the runs
  phase, on,     \* the state of the hook, and its video (0: none)
  control,       \* control.current, as a run (0: null)
  visit, open,   \* how often the page was opened; it is open
  deleting,      \* videos whose DELETE is under way
  faults,        \* losses so far
  cancelled,     \* history: the uploads the user has cancelled, unfinished
  mishap         \* history: the first cancel or start the hook is not made for

server == <<row, held, told>>
hook == <<phase, on, control>>
page == <<visit, open>>
uploadVars == <<server, run, hook, page, deleting, faults, cancelled, mishap>>

NoRun == [at |-> "free", video |-> 0, offset |-> 0, failures |-> 0, answer |-> "none", aborted |-> FALSE, visit |-> 0]
Over == [NoRun EXCEPT !.at = "over"]

UploadInit ==
  /\ row = [v \in Videos |-> "absent"]
  /\ held = [v \in Videos |-> 0] /\ told = [v \in Videos |-> 0]
  /\ run = [r \in Runs |-> NoRun]
  /\ phase = "idle" /\ on = 0 /\ control = 0
  /\ visit = 1 /\ open = TRUE
  /\ deleting = {} /\ faults = 0
  /\ cancelled = {} /\ mishap = "none"

-----------------------------------------------------------------------------
Going == {r \in Runs : run[r].at \notin {"free", "over"}}

(* Runs whose hook is still on the page *)
Current(r) == open /\ run[r].visit = visit

Next0(r) == run[r].at = "free" /\ \A q \in Runs : run[q].at = "free" => r <= q

Unused(v) == row[v] = "absent" /\ \A q \in Runs : run[q].video # v

FirstMishap(m) == IF mishap = "none" THEN m ELSE mishap

(* setState of a run: nothing after the page is gone *)
Show(r, p, v) == IF Current(r) THEN phase' = p /\ on' = v ELSE UNCHANGED <<phase, on>>

(* The file goes on from offset n. *)
Onward(n) == IF n < Size THEN "part" ELSE "finish"

(* finally *)
Ended(r) ==
  /\ run' = [run EXCEPT ![r] = Over]
  /\ control' = IF Current(r) THEN 0 ELSE control

(* Faulty variant: an error is taken for a cancel. *)
FailsQuietly(r) == Ended(r) /\ UNCHANGED <<phase, on>>

(* catch: the card tells that it stopped. *)
Fails(r) == Ended(r) /\ Show(r, "error", run[r].video)

(* A run at offset n of video v begins, while others may be going. *)
Overlaps(r, v) ==
  \E q \in Going \ {r} : run[q].visit = visit \/ run[q].video = v

-----------------------------------------------------------------------------
(* The page.  The story of the user ends at the first mishap: a bound. *)

Acts == open /\ mishap = "none"

(* The form is there while nothing is shown, also while an earlier one is    *)
(* still being created.                                                     *)
Start(r) ==
  /\ Acts /\ phase = "idle" /\ Next0(r)
  /\ \E v \in Videos :
       /\ Unused(v) /\ \A w \in Videos : Unused(w) => v <= w
       /\ run' = [run EXCEPT ![r] = [NoRun EXCEPT !.at = "create", !.video = v, !.visit = visit]]
       /\ mishap' = IF Overlaps(r, v) THEN FirstMishap("overlap") ELSE mishap
  /\ UNCHANGED <<server, hook, page, deleting, faults, cancelled>>

(* Video v can be continued: from its row in the list, unless it is the one *)
(* on the card, or from the card after an error.                            *)
Resumable(v) ==
  \/ row[v] = "uploading" /\ ~(phase = "uploading" /\ on = v)
  \/ phase = "error" /\ on = v

(* The offset is that of the cached row, which may be old. *)
Resume(r) ==
  /\ Acts /\ Next0(r)
  /\ \E v \in Videos, n \in 0..Size :
       /\ Resumable(v)
       /\ n <= told[v]
       /\ run' = [run EXCEPT ![r] = [NoRun EXCEPT !.at = Onward(n), !.video = v, !.offset = n, !.visit = visit]]
       /\ phase' = "uploading" /\ on' = v
       /\ cancelled' = cancelled \ {v}
       /\ mishap' = IF Overlaps(r, v) THEN FirstMishap("overlap") ELSE mishap
  /\ control' = r
  /\ UNCHANGED <<server, page, deleting, faults>>

(* The size differs: the card says so, whatever it showed. *)
ResumeOtherFile ==
  /\ Acts
  /\ \E v \in Videos :
       /\ Resumable(v)
       /\ phase' = "error" /\ on' = v
       /\ mishap' = IF Overlaps(0, v) THEN FirstMishap("other file") ELSE mishap
  /\ UNCHANGED <<server, run, control, page, deleting, faults, cancelled>>

(* Only a request of a part and the wait before a retry listen to the       *)
(* signal, and only if it comes while they last.                            *)
Stoppable(r) == run[r].at \in {"part", "partDone", "wait"} /\ ~run[r].aborted

(* A video the server has whole is no upload any more: when the answer to   *)
(* complete was lost, the card offers Discard all the same.                 *)
Cancelled(v) == IF row[v] = "processing" THEN cancelled ELSE cancelled \cup {v}

(* Faulty variant: the request goes on. *)
CancelLetsGo ==
  /\ Acts /\ phase \in {"uploading", "error"}
  /\ phase' = "idle" /\ on' = 0
  /\ control' = 0
  /\ IF on = 0 THEN UNCHANGED <<deleting, cancelled>>
     ELSE deleting' = deleting \cup {on} /\ cancelled' = Cancelled(on)
  /\ UNCHANGED <<server, run, page, faults, mishap>>

(* Cancel, or Discard: the signal, then the video is deleted.  A part whose *)
(* request is broken off may have arrived.                                  *)
Cancel ==
  /\ Acts /\ phase \in {"uploading", "error"}
  /\ phase' = "idle" /\ on' = 0
  /\ IF on = 0 THEN UNCHANGED <<deleting, cancelled>>
     ELSE deleting' = deleting \cup {on} /\ cancelled' = Cancelled(on)
  /\ IF control = 0 THEN UNCHANGED <<server, run, control, mishap>>
     ELSE LET v == run[control].video IN
       IF Stoppable(control)
       THEN /\ run' = [run EXCEPT ![control] = Over]
            /\ control' = 0
            /\ \/ UNCHANGED server
               \/ /\ run[control].at = "part" /\ row[v] = "uploading" /\ run[control].offset = held[v]
                  /\ held' = [held EXCEPT ![v] = @ + 1] /\ told' = [told EXCEPT ![v] = held[v] + 1]
                  /\ UNCHANGED row
            /\ UNCHANGED mishap
       ELSE /\ run' = [run EXCEPT ![control].aborted = TRUE]
            /\ mishap' = FirstMishap("late cancel")
            /\ UNCHANGED <<server, control>>
  /\ UNCHANGED <<page, faults>>

(* Delete in the list, which the row on the card does not offer *)
RemoveVideo(v) ==
  /\ Acts
  /\ row[v] \in {"uploading", "processing"}
  /\ ~(phase = "uploading" /\ on = v)
  /\ deleting' = deleting \cup {v}
  /\ UNCHANGED <<server, run, hook, page, faults, cancelled, mishap>>

Dismiss ==
  /\ Acts /\ phase = "error" /\ on = 0
  /\ phase' = "idle"
  /\ UNCHANGED <<server, run, on, control, page, deleting, faults, cancelled, mishap>>

(* A link leads to another page; a run goes on without one. *)
Leave ==
  /\ Acts
  /\ open' = FALSE
  /\ phase' = "idle" /\ on' = 0 /\ control' = 0
  /\ UNCHANGED <<server, run, visit, deleting, faults, cancelled, mishap>>

Return ==
  /\ ~open /\ visit < MaxVisits
  /\ open' = TRUE
  /\ visit' = visit + 1
  /\ UNCHANGED <<server, run, hook, deleting, faults, cancelled, mishap>>

-----------------------------------------------------------------------------
(* The server takes a request: each leaves an answer.                       *)

Loses == faults < MaxFaults /\ faults' = faults + 1

(* The request at a of run r is handled and answered with x, or its answer  *)
(* is lost; or the request is, and nothing happens.                         *)
Answered(r, a, x) ==
  \/ /\ run' = [run EXCEPT ![r].at = a, ![r].answer = x]
     /\ UNCHANGED faults
  \/ /\ run' = [run EXCEPT ![r].at = a, ![r].answer = "lost"]
     /\ Loses

Unheard(r, a) ==
  /\ run' = [run EXCEPT ![r].at = a, ![r].answer = "lost"]
  /\ Loses
  /\ UNCHANGED server

CreateHandled(r) ==
  /\ run[r].at = "create"
  /\ \/ /\ row' = [row EXCEPT ![run[r].video] = "uploading"]
        /\ Answered(r, "created", "ok")
        /\ UNCHANGED <<held, told>>
     \/ Unheard(r, "created")
  /\ UNCHANGED <<hook, page, deleting, cancelled, mishap>>

(* A part is taken at the end of what is there; the count in the row may    *)
(* stay behind when the request is broken off, until the next refusal.      *)
PartHandled(r) ==
  /\ run[r].at = "part"
  /\ LET v == run[r].video IN
     \/ /\ row[v] = "uploading" /\ run[r].offset = held[v] /\ held[v] < Size
        /\ held' = [held EXCEPT ![v] = @ + 1]
        /\ UNCHANGED row
        /\ \/ told' = [told EXCEPT ![v] = held[v] + 1] /\ Answered(r, "partDone", "ok")
           \/ /\ UNCHANGED told
              /\ run' = [run EXCEPT ![r].at = "partDone", ![r].answer = "lost"] /\ Loses
     \/ /\ row[v] = "uploading" /\ run[r].offset # held[v]
        /\ told' = [told EXCEPT ![v] = held[v]]
        /\ Answered(r, "partDone", "conflict")
        /\ UNCHANGED <<row, held>>
     \/ row[v] = "processing" /\ Answered(r, "partDone", "conflict") /\ UNCHANGED server
     \/ row[v] = "gone" /\ Answered(r, "partDone", "hard") /\ UNCHANGED server
     \/ Unheard(r, "partDone")
  /\ UNCHANGED <<hook, page, deleting, cancelled, mishap>>

AskHandled(r) ==
  /\ run[r].at = "ask"
  /\ Answered(r, "asked", IF row[run[r].video] = "gone" THEN "hard" ELSE "ok")
  /\ UNCHANGED <<server, hook, page, deleting, cancelled, mishap>>

FinishHandled(r) ==
  /\ run[r].at = "finish"
  /\ LET v == run[r].video IN
     \/ /\ row[v] = "uploading" /\ held[v] = Size
        /\ row' = [row EXCEPT ![v] = "processing"]
        /\ UNCHANGED <<held, told>>
        /\ Answered(r, "finished", "ok")
     \/ ~(row[v] = "uploading" /\ held[v] = Size) /\ Answered(r, "finished", "hard") /\ UNCHANGED server
     \/ Unheard(r, "finished")
  /\ UNCHANGED <<hook, page, deleting, cancelled, mishap>>

DeleteHandled(v) ==
  /\ v \in deleting
  /\ deleting' = deleting \ {v}
  /\ \/ row' = [row EXCEPT ![v] = "gone"] /\ UNCHANGED faults
     \/ UNCHANGED row /\ Loses
  /\ UNCHANGED <<held, told, run, hook, page, cancelled, mishap>>

-----------------------------------------------------------------------------
(* sendVideoFile and the hook go on with an answer. *)

CreateArrives(r) ==
  /\ run[r].at = "created"
  /\ IF run[r].answer = "ok"
     THEN /\ run' = [run EXCEPT ![r].answer = "none", ![r].at = "part"]
          /\ control' = IF Current(r) THEN r ELSE control
          /\ Show(r, "uploading", run[r].video)
     ELSE /\ run' = [run EXCEPT ![r] = Over]
          /\ Show(r, "error", 0)
          /\ UNCHANGED control
  /\ UNCHANGED <<server, page, deleting, faults, cancelled, mishap>>

PartArrives(r) ==
  /\ run[r].at = "partDone"
  /\ CASE run[r].answer = "ok" ->
            /\ run' = [run EXCEPT ![r].offset = @ + 1, ![r].failures = 0, ![r].answer = "none", ![r].at = Onward(run[r].offset + 1)]
            /\ Show(r, "uploading", run[r].video)
            /\ UNCHANGED control
       [] run[r].answer = "hard" \/ run[r].failures + 1 > Retries -> Fails(r)
       [] OTHER ->
            /\ run' = [run EXCEPT ![r].failures = @ + 1, ![r].answer = "none", ![r].at = "wait"]
            /\ UNCHANGED hook
  /\ UNCHANGED <<server, page, deleting, faults, cancelled, mishap>>

WaitEnds(r) ==
  /\ run[r].at = "wait"
  /\ run' = [run EXCEPT ![r].at = "ask"]
  /\ UNCHANGED <<server, hook, page, deleting, faults, cancelled, mishap>>

(* The question where the server is has no second try. *)
AskArrives(r) ==
  /\ run[r].at = "asked"
  /\ IF run[r].answer = "ok"
     THEN LET n == told[run[r].video] IN
          /\ run' = [run EXCEPT ![r].offset = n, ![r].answer = "none", ![r].at = Onward(n)]
          /\ Show(r, "uploading", run[r].video)
          /\ UNCHANGED control
     ELSE Fails(r)
  /\ UNCHANGED <<server, page, deleting, faults, cancelled, mishap>>

(* Nor has complete. *)
FinishArrives(r) ==
  /\ run[r].at = "finished"
  /\ IF run[r].answer = "ok" THEN Ended(r) /\ Show(r, "idle", 0) ELSE Fails(r)
  /\ UNCHANGED <<server, page, deleting, faults, cancelled, mishap>>

-----------------------------------------------------------------------------
Handled(r) == CreateHandled(r) \/ PartHandled(r) \/ AskHandled(r) \/ FinishHandled(r)
Arrives(r) == CreateArrives(r) \/ PartArrives(r) \/ WaitEnds(r) \/ AskArrives(r) \/ FinishArrives(r)

UploadNext ==
  \/ \E r \in Runs : Start(r) \/ Resume(r) \/ Handled(r) \/ Arrives(r)
  \/ \E v \in Videos : RemoveVideo(v) \/ DeleteHandled(v)
  \/ ResumeOtherFile \/ Cancel \/ Dismiss \/ Leave \/ Return

UploadSpec == UploadInit /\ [][UploadNext]_uploadVars

(* Requests are answered or lost, and what is written after an await runs;  *)
(* nobody has to press a button.                                            *)
UploadFairness == \A r \in Runs : WF_uploadVars(Handled(r) \/ Arrives(r))

-----------------------------------------------------------------------------
(* What the card shows is what the cancel button reaches: while it shows an *)
(* upload, that one runs and control is its; and what runs on this page is  *)
(* shown.  Lost when two runs overlap, when a cancel comes while the client *)
(* asks for the count or finishes, or when another file is chosen for a row *)
(* while an upload runs.                                                    *)
ShownIsControlled ==
  mishap = "none" /\ open =>
    /\ phase = "uploading" => control \in Going /\ run[control].video = on
    /\ \A r \in Going : run[r].visit = visit /\ run[r].at \notin {"create", "created"}
         => phase = "uploading" /\ control = r

(* An upload the user has cancelled before the server had it whole, and not *)
(* taken up again, is not published, though its deletion may fail without a *)
(* word.                                                                    *)
CancelledStaysAway ==
  mishap = "none" => \A v \in cancelled : row[v] # "processing"

(* An upload on the card is finished, or deleted, or the user is told that  *)
(* it stopped, unless the user cancels or leaves, or a mishap mixed up two.  *)
UploadEnds ==
  \A v \in Videos : (open /\ phase = "uploading" /\ on = v)
     ~> (row[v] \in {"processing", "gone"} \/ phase = "error" \/ v \in cancelled \/ ~open
         \/ mishap # "none")
=============================================================================
