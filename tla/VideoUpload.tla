----------------------------- MODULE VideoUpload -----------------------------
(***************************************************************************)
(* The life of one uploaded video (backend/modules/videos): the row in     *)
(* Postgres, the folder on disk, the HTTP requests that touch both, the    *)
(* background task that prepares the file, and restarts of the backend.    *)
(*                                                                         *)
(* Videos are independent of each other: every handler works on one row    *)
(* and one folder, named by the video's id.                                *)
(*                                                                         *)
(* The backend is one asyncio process.  What runs between two awaits is    *)
(* atomic; a commit, a body read and an ffmpeg run are awaits, and other   *)
(* handlers run there.  A step below is one such segment together with the *)
(* database statement that ends or starts it.                              *)
(***************************************************************************)
EXTENDS Integers, Sequences

CONSTANTS
  Size,            \* declared size of the file, in units
  MaxChunk,        \* units one request may carry
  Requests,        \* slots for HTTP requests in flight
  Tasks,           \* slots for preparation tasks
  Kinds,           \* what ffprobe may find in the file
  Deletion,        \* whether the video may be deleted or purged
  MaxCrashes,      \* bound on crashes of the backend
  MaxToolFailures  \* bound on ffmpeg runs that fail for no fault of the file

ASSUME SizeAssumption == Size \in Nat \ {0} /\ MaxChunk \in Nat \ {0}
ASSUME KindsAssumption == Kinds \subseteq {"mp4", "webm", "unplayable"}
ASSUME SwitchAssumption == Deletion \in BOOLEAN
ASSUME BoundAssumption == MaxCrashes \in Nat /\ MaxToolFailures \in Nat

VARIABLES
  status,        \* videos.status; "absent" before the row, "deleted" after it
  received,      \* videos.received_bytes
  stale,         \* videos.updated_at lies more than STALE_AFTER back
  part,          \* upload.part: the units it holds, in order; <<>> is no file
  video,         \* video.mp4 or video.webm
  poster,        \* poster.jpg is there
  kind,          \* what ffprobe finds in the whole file
  req,           \* the requests in flight
  task,          \* the preparation tasks
  up,            \* the backend runs
  crashes, toolFailures,
  mishaps        \* what went wrong so far, for the properties only

vars == <<status, received, stale, part, video, poster, kind,
          req, task, up, crashes, toolFailures, mishaps>>
files == <<part, video, poster>>
row == <<status, received, stale>>
history == <<crashes, toolFailures, mishaps>>

-----------------------------------------------------------------------------
(* Values.  Unit i of the file the owner picked is the number i.           *)

WholeFile == [i \in 1..Size |-> i]

Piece(offset, n) == [i \in 1..n |-> offset + i]

NoVideo == [state |-> "none", units |-> <<>>]

Statuses == {"absent", "uploading", "processing", "ready", "failed", "deleted"}

RowExists == status \notin {"absent", "deleted"}

\* A request: where it waits, the chunk it carries, the received_bytes it
\* read with the row and the value it is about to save; of a /complete, the
\* status it read.
Idle == [pc |-> "idle", offset |-> 0, len |-> 0, seen |-> 0, save |-> 0, was |-> "absent"]

RequestPC == {"idle", "body", "save", "check", "finish", "delete"}

RequestType == [pc : RequestPC, offset : 0..Size, len : 0..MaxChunk,
                seen : 0..Size, save : 0..Size, was : Statuses]

\* What the code leaves open, by the names the properties use:
\*   second complete  a /complete that had read UPLOADING commits after another;
\*   late chunk       a chunk is appended when the video is no longer UPLOADING;
\*   stub resumed     a restart takes up a video whose part is such a chunk;
\*   deletion cut     a crash comes between the files and the row of a deletion.
Mishaps == {"second complete", "late chunk", "stub resumed", "deletion cut"}

LateChunk == IF status = "uploading" THEN {} ELSE {"late chunk"}

SecondComplete(r) ==
  IF status # "uploading" /\ req[r].was = "uploading" THEN {"second complete"} ELSE {}

StubResumed == IF part \in {<<>>, WholeFile} THEN {} ELSE {"stub resumed"}

DeletePending == \E r \in Requests : req[r].pc = "delete"

DeletionCut == IF DeletePending THEN {"deletion cut"} ELSE {}

Working(t) == task[t].pc # "idle"

IdleTask == [pc |-> "idle", src |-> <<>>]

TaskPC == {"idle", "start", "probe", "remux", "copying", "poster", "ready", "failing"}

TaskType == [pc : TaskPC, src : Seq(1..Size)]

VideoType == [state : {"none", "partial", "whole"}, units : Seq(1..Size)]

Init ==
  /\ status = "absent" /\ received = 0 /\ stale = FALSE
  /\ part = <<>> /\ video = NoVideo /\ poster = FALSE
  /\ kind \in Kinds
  /\ req = [r \in Requests |-> Idle]
  /\ task = [t \in Tasks |-> IdleTask]
  /\ up = TRUE
  /\ crashes = 0 /\ toolFailures = 0 /\ mishaps = {}

-----------------------------------------------------------------------------
(* POST /communities/{id}/videos.  The purge that start_upload runs first  *)
(* deals with other rows; for this row it is Purge, below.                 *)

StartUpload ==
  /\ up /\ status = "absent"
  /\ status' = "uploading"
  /\ UNCHANGED <<received, stale, files, kind, req, task, up, history>>

(* STALE_AFTER passes without an update of the row. *)
DayPasses ==
  /\ status = "uploading" /\ ~stale
  /\ stale' = TRUE
  /\ UNCHANGED <<status, received, files, kind, req, task, up, history>>

-----------------------------------------------------------------------------
(* PUT /videos/{id}/chunk: read the row, check its status, wait for the    *)
(* body, append it, save how much has arrived.                             *)

ChunkLoad(r) ==
  /\ up /\ req[r].pc = "idle" /\ status = "uploading"
  /\ \E offset \in 0..(Size - 1), len \in 1..MaxChunk :
       req' = [req EXCEPT ![r] = [Idle EXCEPT !.pc = "body", !.offset = offset, !.len = len,
                                              !.seen = received]]
  /\ UNCHANGED <<row, files, kind, task, up, history>>

(* The client goes away, or the body is refused: nothing changes. *)
ChunkRefused(r) ==
  /\ up /\ req[r].pc = "body"
  /\ req' = [req EXCEPT ![r] = Idle]
  /\ UNCHANGED <<row, files, kind, task, up, history>>

Fits(r) == req[r].offset + req[r].len <= Size

AppendPart(offset, n) == part' = part \o Piece(offset, n)

(* Faulty variant: the offset is not compared with the size of the file. *)
ChunkAppendAnywhere(r) ==
  /\ up /\ req[r].pc = "body" /\ Fits(r)
  /\ AppendPart(req[r].offset, req[r].len)
  /\ req' = [req EXCEPT ![r].pc = "save", ![r].save = Size]
  /\ mishaps' = mishaps \cup LateChunk
  /\ UNCHANGED <<row, video, poster, kind, task, up, crashes, toolFailures>>

ChunkAppend(r) ==
  /\ up /\ req[r].pc = "body" /\ Fits(r)
  /\ Len(part) = req[r].offset
  /\ AppendPart(req[r].offset, req[r].len)
  /\ req' = [req EXCEPT ![r].pc = "save", ![r].save = Len(part) + req[r].len]
  /\ mishaps' = mishaps \cup LateChunk
  /\ UNCHANGED <<row, video, poster, kind, task, up, crashes, toolFailures>>

(* Faulty variant: a 409 trusts the offset of the client. *)
ChunkConflictTrusting(r) ==
  /\ up /\ req[r].pc = "body" /\ Fits(r)
  /\ Len(part) # req[r].offset
  /\ req' = [req EXCEPT ![r].pc = "save", ![r].save = req[r].offset]
  /\ UNCHANGED <<row, files, kind, task, up, history>>

(* A gap or an overlap: answer 409 and save the size the file really has. *)
ChunkConflict(r) ==
  /\ up /\ req[r].pc = "body" /\ Fits(r)
  /\ Len(part) # req[r].offset
  /\ req' = [req EXCEPT ![r].pc = "save", ![r].save = Len(part)]
  /\ UNCHANGED <<row, files, kind, task, up, history>>

(* The UPDATE carries received_bytes only when it differs from the value   *)
(* the session loaded; on a deleted row it fails and changes nothing.      *)
ChunkSave(r) ==
  LET writes == RowExists /\ req[r].save # req[r].seen
  IN /\ up /\ req[r].pc = "save"
     /\ received' = IF writes THEN req[r].save ELSE received
     /\ stale' = (stale /\ ~writes)
     /\ req' = [req EXCEPT ![r] = Idle]
     /\ UNCHANGED <<status, files, kind, task, up, history>>

-----------------------------------------------------------------------------
(* POST /videos/{id}/complete.  Nothing keeps two of them apart: both may  *)
(* have read UPLOADING before either commits.                              *)

Completing(r) == req[r].pc \in {"check", "finish"}

(* Faulty variant: /complete does not look at the status. *)
CompleteLoadAnyStatus(r) ==
  /\ up /\ req[r].pc = "idle" /\ RowExists
  /\ req' = [req EXCEPT ![r].pc = "check", ![r].was = status]
  /\ UNCHANGED <<row, files, kind, task, up, history>>

CompleteLoad(r) ==
  /\ up /\ req[r].pc = "idle" /\ status = "uploading"
  /\ req' = [req EXCEPT ![r].pc = "check", ![r].was = status]
  /\ UNCHANGED <<row, files, kind, task, up, history>>

(* Faulty variant: /complete does not compare the sizes. *)
CompleteCheckNothing(r) ==
  /\ up /\ req[r].pc = "check" /\ part # <<>>
  /\ req' = [req EXCEPT ![r].pc = "finish"]
  /\ UNCHANGED <<row, files, kind, task, up, history>>

CompleteCheck(r) ==
  /\ up /\ req[r].pc = "check"
  /\ req' = IF Len(part) = Size
            THEN [req EXCEPT ![r].pc = "finish"]
            ELSE [req EXCEPT ![r] = Idle]
  /\ UNCHANGED <<row, files, kind, task, up, history>>

(* start_processing follows the commit at once; a crash between the two    *)
(* looks like a crash just after the task was created.                     *)
SpawnTask == \E t \in Tasks : /\ ~Working(t)
                              /\ task' = [task EXCEPT ![t].pc = "start"]

CompleteCommit(r) ==
  /\ up /\ req[r].pc = "finish"
  /\ req' = [req EXCEPT ![r] = Idle]
  /\ \/ /\ RowExists
        /\ status' = "processing" /\ stale' = FALSE
        /\ SpawnTask
        /\ mishaps' = mishaps \cup SecondComplete(r)
     \/ /\ ~RowExists
        /\ UNCHANGED <<status, stale, task, mishaps>>
  /\ UNCHANGED <<received, files, kind, up, crashes, toolFailures>>

-----------------------------------------------------------------------------
(* DELETE /videos/{id} and purge_stale_uploads: the files go first, the    *)
(* row with the commit that follows.                                       *)

RemoveFiles == part' = <<>> /\ video' = NoVideo /\ poster' = FALSE

DeleteFiles(r) ==
  /\ up /\ Deletion /\ req[r].pc = "idle" /\ RowExists
  /\ RemoveFiles
  /\ req' = [req EXCEPT ![r].pc = "delete"]
  /\ UNCHANGED <<row, kind, task, up, history>>

Purge(r) ==
  /\ up /\ Deletion /\ req[r].pc = "idle" /\ status = "uploading" /\ stale
  /\ RemoveFiles
  /\ req' = [req EXCEPT ![r].pc = "delete"]
  /\ UNCHANGED <<row, kind, task, up, history>>

DeleteCommit(r) ==
  /\ up /\ req[r].pc = "delete"
  /\ status' = "deleted"
  /\ req' = [req EXCEPT ![r] = Idle]
  /\ UNCHANGED <<received, stale, files, kind, task, up, history>>

-----------------------------------------------------------------------------
(* process_video *)

Goto(t, pc) == task' = [task EXCEPT ![t].pc = pc]

TaskStart(t) ==
  /\ up /\ task[t].pc = "start"
  /\ task' = [task EXCEPT ![t] = IF status = "processing"
                                 THEN [@ EXCEPT !.pc = "probe"] ELSE IdleTask]
  /\ UNCHANGED <<row, files, kind, req, up, history>>

(* Faulty variant: a failed preparation keeps its files. *)
GiveUpKeepingFiles(t) ==
  /\ UNCHANGED files
  /\ task' = [task EXCEPT ![t] = [pc |-> "failing", src |-> <<>>]]

(* Any exception but a cancellation: status and files are given up in one  *)
(* segment, the commit follows.                                            *)
GiveUp(t) ==
  /\ RemoveFiles
  /\ task' = [task EXCEPT ![t] = [pc |-> "failing", src |-> <<>>]]

(* An ffprobe or ffmpeg run that fails although the file is good: it timed *)
(* out or could not be started.                                            *)
ToolFails(t) ==
  /\ up /\ task[t].pc \in {"probe", "remux", "copying", "poster"}
  /\ toolFailures < MaxToolFailures
  /\ toolFailures' = toolFailures + 1
  /\ GiveUp(t)
  /\ UNCHANGED <<row, kind, req, up, crashes, mishaps>>

(* probe and check_playable.  No part, or an unplayable one, is refused; a *)
(* truncated one may be or may not.                                        *)
ProbeRejects(t) ==
  /\ up /\ task[t].pc = "probe"
  /\ kind = "unplayable" \/ part # WholeFile
  /\ GiveUp(t)
  /\ UNCHANGED <<row, kind, req, up, history>>

(* finalize, MP4 family: ffmpeg is started on the part. *)
ProbeMp4(t) ==
  /\ up /\ task[t].pc = "probe" /\ kind = "mp4" /\ part # <<>>
  /\ Goto(t, "remux")
  /\ UNCHANGED <<row, files, kind, req, up, history>>

(* finalize, anything else: the part is renamed before the next await. *)
ProbeWebm(t) ==
  /\ up /\ task[t].pc = "probe" /\ kind = "webm" /\ part # <<>>
  /\ video' = [state |-> "whole", units |-> part]
  /\ part' = <<>>
  /\ Goto(t, "poster")
  /\ UNCHANGED <<row, poster, kind, req, up, history>>

(* ffmpeg opens the part, then truncates its output (-y). *)
RemuxOpen(t) ==
  /\ up /\ task[t].pc = "remux"
  /\ \/ /\ part # <<>>
        /\ video' = [state |-> "partial", units |-> <<>>]
        /\ task' = [task EXCEPT ![t] = [pc |-> "copying", src |-> part]]
        /\ UNCHANGED <<part, poster>>
     \/ part = <<>> /\ GiveUp(t)
  /\ UNCHANGED <<row, kind, req, up, history>>

(* ffmpeg ends and the part is unlinked.  With +faststart it reopens its   *)
(* output by name, and fails when the folder was removed meanwhile.        *)
RemuxDone(t) ==
  /\ up /\ task[t].pc = "copying"
  /\ \/ /\ video # NoVideo
        /\ video' = [state |-> "whole", units |-> task[t].src]
        /\ part' = <<>>
        /\ task' = [task EXCEPT ![t] = [pc |-> "poster", src |-> <<>>]]
        /\ UNCHANGED poster
     \/ video = NoVideo /\ GiveUp(t)
  /\ UNCHANGED <<row, kind, req, up, history>>

(* make_poster reads the prepared video; one that is missing fails the     *)
(* video, one that another task is rewriting may.                          *)
Poster(t) ==
  /\ up /\ task[t].pc = "poster"
  /\ \/ /\ video # NoVideo
        /\ poster' = TRUE
        /\ Goto(t, "ready")
        /\ UNCHANGED <<part, video>>
     \/ video.state # "whole" /\ GiveUp(t)
  /\ UNCHANGED <<row, kind, req, up, history>>

(* The last commit of process_video; without a row it fails. *)
TaskCommit(t, pc, outcome) ==
  /\ up /\ task[t].pc = pc
  /\ status' = IF RowExists THEN outcome ELSE status
  /\ stale' = (stale /\ ~RowExists)
  /\ task' = [task EXCEPT ![t] = IdleTask]
  /\ UNCHANGED <<received, files, kind, req, up, history>>

ReadyCommit(t) == TaskCommit(t, "ready", "ready")
FailCommit(t) == TaskCommit(t, "failing", "failed")

-----------------------------------------------------------------------------
(* The process dies: requests and tasks are gone, the row and the files    *)
(* stay.  A write that was under way leaves a prefix of its chunk.         *)
Torn(r) ==
  /\ req[r].pc = "body" /\ Fits(r) /\ Len(part) = req[r].offset
  /\ \E n \in 1..req[r].len : AppendPart(req[r].offset, n)

Crash ==
  /\ up /\ crashes < MaxCrashes
  /\ crashes' = crashes + 1
  /\ up' = FALSE
  /\ part' = part \/ \E r \in Requests : Torn(r)
  /\ req' = [r \in Requests |-> Idle]
  /\ task' = [t \in Tasks |-> IdleTask]
  /\ mishaps' = mishaps \cup DeletionCut \cup (IF part' = part THEN {} ELSE LateChunk)
  /\ UNCHANGED <<row, video, poster, kind, toolFailures>>

(* Faulty variant: a restart does not take up videos in preparation. *)
RestartWithoutResume ==
  /\ ~up
  /\ up' = TRUE
  /\ UNCHANGED <<row, files, kind, req, task, history>>

(* lifespan runs resume_processing before the first request is served:     *)
(* purge a stale upload, take up a video that was being prepared.          *)
PurgeDue == Deletion /\ status = "uploading" /\ stale

Restart ==
  /\ ~up
  /\ up' = TRUE
  /\ \/ /\ PurgeDue
        /\ RemoveFiles
        /\ status' = "deleted"
        /\ UNCHANGED <<task, mishaps>>
     \/ /\ status = "processing"
        /\ SpawnTask
        /\ mishaps' = mishaps \cup StubResumed
        /\ UNCHANGED <<files, status>>
     \/ /\ status # "processing" /\ ~PurgeDue
        /\ UNCHANGED <<files, status, task, mishaps>>
  /\ UNCHANGED <<received, stale, kind, req, crashes, toolFailures>>

(* The process dies again within that purge: the files are gone, the row   *)
(* is not.  Since it may do so any number of times, these are not counted.  *)
PurgeCut ==
  /\ ~up /\ PurgeDue
  /\ RemoveFiles
  /\ mishaps' = mishaps \cup {"deletion cut"}
  /\ UNCHANGED <<row, kind, req, task, up, crashes, toolFailures>>

-----------------------------------------------------------------------------
RequestStep(r) ==
  \/ ChunkLoad(r) \/ ChunkRefused(r) \/ ChunkAppend(r) \/ ChunkConflict(r) \/ ChunkSave(r)
  \/ CompleteLoad(r) \/ CompleteCheck(r) \/ CompleteCommit(r)
  \/ DeleteFiles(r) \/ Purge(r) \/ DeleteCommit(r)

TaskStep(t) ==
  \/ TaskStart(t) \/ ProbeRejects(t) \/ ProbeMp4(t) \/ ProbeWebm(t)
  \/ RemuxOpen(t) \/ RemuxDone(t) \/ Poster(t) \/ ReadyCommit(t) \/ FailCommit(t)

Next ==
  \/ StartUpload \/ DayPasses \/ Crash \/ Restart \/ PurgeCut
  \/ \E r \in Requests : RequestStep(r)
  \/ \E t \in Tasks : TaskStep(t) \/ ToolFails(t)

Spec == Init /\ [][Next]_vars

(* The event loop runs every task whose await is over, ffmpeg runs have a  *)
(* timeout, and the container is restarted (restart: unless-stopped).      *)
Fairness ==
  /\ WF_vars(Restart)
  /\ \A t \in Tasks : WF_vars(TaskStep(t))

FairSpec == Spec /\ Fairness

-----------------------------------------------------------------------------
(* Types: every variable holds what its column, file or coroutine can.     *)
TypeOK ==
  /\ status \in Statuses
  /\ received \in 0..Size /\ stale \in BOOLEAN
  /\ part \in Seq(1..Size)
  /\ video \in VideoType
  /\ poster \in BOOLEAN
  /\ kind \in Kinds
  /\ req \in [Requests -> RequestType]
  /\ task \in [Tasks -> TaskType]
  /\ up \in BOOLEAN
  /\ crashes \in 0..MaxCrashes /\ toolFailures \in 0..MaxToolFailures
  /\ mishaps \subseteq Mishaps

Prefix(s) == Len(s) <= Size /\ \A i \in 1..Len(s) : s[i] = i

(* append_part: whatever chunks arrive, in whatever order and however      *)
(* often, and wherever the process dies, upload.part is a gap-free         *)
(* beginning of the file.                                                  *)
PartIsPrefix == Prefix(part)

(* GET /videos/{id}/file serves a ready video: what it serves is the whole *)
(* upload, whatever chunks, completes and crashes came in between.  Three  *)
(* things the code leaves open can spoil it: a second /complete, a late    *)
(* chunk found by a restart, and a deletion that is under way or was cut.  *)
ReadyIsWhole ==
  status = "ready" /\ ~DeletePending
  /\ mishaps \cap {"second complete", "stub resumed", "deletion cut"} = {} =>
    video = [state |-> "whole", units |-> WholeFile]

(* F17 "processing, then ready or failed": once prepared or refused, a     *)
(* video changes its status only by being deleted, and never skips a step, *)
(* unless a second /complete takes it back to PROCESSING.                  *)
StatusForward ==
  [][status' # status =>
       \/ status' = "deleted"
       \/ <<status, status'>> \in {<<"absent", "uploading">>, <<"uploading", "processing">>,
                                   <<"processing", "ready">>, <<"processing", "failed">>}
       \/ "second complete" \in mishaps']_vars

(* The web app resumes at received_bytes: it never claims more than the    *)
(* file holds, so a resumed upload cannot skip a unit, unless the files    *)
(* are being deleted or a crash cut their deletion.                        *)
NeverAheadOfDisk ==
  status = "uploading" /\ ~DeletePending /\ "deletion cut" \notin mishaps =>
    received <= Len(part)

(* A video does not stay in preparation: it ends ready or failed, or is    *)
(* deleted, however often the backend is restarted.                        *)
PreparationEnds == status = "processing" ~> status # "processing"

(* A preparation that fails cleans up: of a failed video nothing is left   *)
(* on disk but the chunk of a request that was under way meanwhile, unless *)
(* a second /complete set a second preparation going.                      *)
FailedLeavesNothing ==
  status = "failed" /\ "second complete" \notin mishaps =>
    /\ video = NoVideo /\ ~poster
    /\ part # <<>> => "late chunk" \in mishaps

(* uploads.py "After a restart, pick up videos that were being prepared":  *)
(* a playable upload whose ffmpeg runs all went well is never refused.     *)
RestartKeepsGoodVideo ==
  status = "failed" => kind = "unplayable" \/ toolFailures > 0
=============================================================================
