-------------------------- MODULE Background_proofs --------------------------
(***************************************************************************)
(* Proofs about VideoUpload, for every file size, chunk size, number of    *)
(* requests and of tasks, and any number of crashes.  The argument has     *)
(* layers.  The file invariant is on types and on the part, a beginning of *)
(* the file; Stages says who may be at work in which status, LeftInv what  *)
(* a failure leaves, DiskInv what received_bytes claims, and Resumable     *)
(* what each step of the way to a ready video knows.  Each of them names   *)
(* the mishaps after which it promises nothing.                            *)
(***************************************************************************)
EXTENDS VideoUpload, Monitor, TLAPS, SequenceTheorems

BodyHasUnits == \A r \in Requests : req[r].pc = "body" => req[r].len >= 1

FileInv == TypeOK /\ PartIsPrefix /\ BodyHasUnits

-----------------------------------------------------------------------------
LEMMA NoUnits == <<>> \in Seq(1..Size) /\ Len(<<>>) = 0
  BY EmptySeq

LEMMA EmptyPart == <<>> \in Seq(1..Size) /\ Prefix(<<>>)
  BY NoUnits, SizeAssumption DEF Prefix

LEMMA PieceType ==
  ASSUME NEW o \in Nat, NEW n \in Nat, o + n <= Size
  PROVE  /\ Piece(o, n) \in Seq(1..Size)
         /\ Len(Piece(o, n)) = n
         /\ \A i \in 1..n : Piece(o, n)[i] = o + i
  <1>1. \A i \in 1..n : o + i \in 1..Size
    BY SizeAssumption
  <1>2. Piece(o, n) \in [1..n -> 1..Size]
    BY <1>1 DEF Piece
  <1> QED
    BY <1>2 DEF Piece

(* Appending the next units keeps a beginning of the file one. *)
LEMMA AppendPrefix ==
  ASSUME NEW s \in Seq(1..Size), Prefix(s), NEW n \in Nat, Len(s) + n <= Size
  PROVE  /\ s \o Piece(Len(s), n) \in Seq(1..Size)
         /\ Len(s \o Piece(Len(s), n)) = Len(s) + n
         /\ Prefix(s \o Piece(Len(s), n))
  <1> DEFINE p == Piece(Len(s), n)
  <1>1. Len(s) \in Nat
    OBVIOUS
  <1>2. /\ p \in Seq(1..Size) /\ Len(p) = n
        /\ \A i \in 1..n : p[i] = Len(s) + i
    BY <1>1, PieceType
  <1> HIDE DEF p
  <1>3. /\ s \o p \in Seq(1..Size)
        /\ Len(s \o p) = Len(s) + Len(p)
        /\ \A i \in 1..(Len(s) + Len(p)) :
             (s \o p)[i] = IF i <= Len(s) THEN s[i] ELSE p[i - Len(s)]
    BY <1>2, ConcatProperties
  <1>4. ASSUME NEW i \in 1..(Len(s) + n)
        PROVE  (s \o p)[i] = i
    <2>1. CASE i <= Len(s)
      BY <1>1, <1>2, <1>3, <2>1 DEF Prefix
    <2>2. CASE ~(i <= Len(s))
      <3>1. i - Len(s) \in 1..n
        BY <1>1, <2>2
      <3>2. p[i - Len(s)] = Len(s) + (i - Len(s))
        BY <1>2, <3>1
      <3> QED
        BY <1>1, <1>2, <1>3, <2>2, <3>2
    <2> QED
      BY <2>1, <2>2
  <1> QED
    BY <1>2, <1>3, <1>4 DEF Prefix, p

(* A beginning of full length is the file. *)
LEMMA FullPrefix ==
  ASSUME NEW s \in Seq(1..Size), Prefix(s), Len(s) = Size
  PROVE  s = WholeFile
  <1>1. s \in [1..Size -> 1..Size]
    BY LenProperties
  <1>2. \A i \in 1..Size : s[i] = i
    BY DEF Prefix
  <1> QED
    BY <1>1, <1>2 DEF WholeFile

-----------------------------------------------------------------------------
(* The values the actions build are of the types TypeOK asks for. *)
LEMMA Values ==
  /\ Idle \in RequestType /\ Idle.pc = "idle"
  /\ IdleTask \in TaskType /\ NoVideo \in VideoType
  /\ [pc |-> "poster", src |-> <<>>] \in TaskType
  /\ [pc |-> "failing", src |-> <<>>] \in TaskType
  /\ [state |-> "partial", units |-> <<>>] \in VideoType
  BY NoUnits, SizeAssumption
  DEF Idle, IdleTask, NoVideo, RequestType, RequestPC, TaskType, TaskPC, VideoType, Statuses

LEMMA WithUnits ==
  ASSUME NEW s \in Seq(1..Size)
  PROVE  /\ [state |-> "whole", units |-> s] \in VideoType
         /\ [pc |-> "copying", src |-> s] \in TaskType
  BY DEF VideoType, TaskType, TaskPC

LEMMA WithPC ==
  /\ \A q \in RequestType, pc \in RequestPC :
       [q EXCEPT !.pc = pc] \in RequestType /\ [q EXCEPT !.pc = pc].pc = pc
  /\ \A k \in TaskType, pc \in TaskPC : [k EXCEPT !.pc = pc] \in TaskType
  BY DEF RequestType, TaskType

LEMMA WithSave ==
  ASSUME NEW q \in RequestType, NEW n \in 0..Size
  PROVE  /\ [q EXCEPT !.pc = "save", !.save = n] \in RequestType
         /\ [q EXCEPT !.pc = "save", !.save = n].pc = "save"
  BY DEF RequestType, RequestPC

LEMMA WithWas ==
  ASSUME NEW q \in RequestType, NEW st \in Statuses
  PROVE  /\ [q EXCEPT !.pc = "check", !.was = st] \in RequestType
         /\ [q EXCEPT !.pc = "check", !.was = st].pc = "check"
         /\ [q EXCEPT !.pc = "check", !.was = st].was = st
  BY DEF RequestType, RequestPC

LEMMA MishapTypes ==
  /\ LateChunk \subseteq Mishaps /\ DeletionCut \subseteq Mishaps /\ StubResumed \subseteq Mishaps
  /\ \A r \in Requests : SecondComplete(r) \subseteq Mishaps
  BY DEF LateChunk, DeletionCut, StubResumed, SecondComplete, Mishaps

LEMMA Fields ==
  /\ \A q \in RequestType :
       /\ q.offset \in 0..Size /\ q.len \in 0..MaxChunk
       /\ q.seen \in 0..Size /\ q.save \in 0..Size
  /\ \A k \in TaskType : k.src \in Seq(1..Size)
  /\ \A v \in VideoType : v.units \in Seq(1..Size)
  BY DEF RequestType, TaskType, VideoType

LEMMA BodyRequest ==
  ASSUME NEW offset \in 0..(Size - 1), NEW len \in 1..MaxChunk, NEW n \in 0..Size
  PROVE  [Idle EXCEPT !.pc = "body", !.offset = offset, !.len = len, !.seen = n] \in RequestType
  <1>1. offset \in 0..Size /\ len \in 0..MaxChunk
    BY SizeAssumption
  <1>2. \A q \in RequestType :
          [q EXCEPT !.pc = "body", !.offset = offset, !.len = len, !.seen = n] \in RequestType
    BY <1>1 DEF RequestType, RequestPC
  <1> QED
    BY <1>2, Values

LEMMA FileInit == Init => FileInv
  <1> SUFFICES ASSUME Init PROVE FileInv
    OBVIOUS
  <1>1. TypeOK
    <2>1. part \in Seq(1..Size) /\ video \in VideoType
      BY EmptyPart, Values DEF Init
    <2>2. req \in [Requests -> RequestType] /\ task \in [Tasks -> TaskType]
      BY Values DEF Init
    <2>3. received \in 0..Size /\ crashes \in 0..MaxCrashes /\ toolFailures \in 0..MaxToolFailures
      BY SizeAssumption, BoundAssumption DEF Init
    <2> QED
      BY <2>1, <2>2, <2>3 DEF Init, TypeOK, Statuses
  <1>2. PartIsPrefix
    BY EmptyPart DEF Init, PartIsPrefix
  <1>3. BodyHasUnits
    BY DEF Init, BodyHasUnits, Idle
  <1> QED
    BY <1>1, <1>2, <1>3 DEF FileInv

(* Every request step keeps the types of what it builds; what it can do to *)
(* the part is to append to it or to remove it.                            *)
LEMMA RequestStepFile ==
  ASSUME FileInv, NEW r \in Requests, RequestStep(r)
  PROVE  FileInv'
  <1> USE SizeAssumption, Values, WithPC DEF row, files, history
  <1> USE DEF FileInv, TypeOK
  <1>0. "idle" \in RequestPC /\ "check" \in RequestPC /\ "finish" \in RequestPC
        /\ "delete" \in RequestPC /\ "start" \in TaskPC
    BY DEF RequestPC, TaskPC
  <1>1. CASE ChunkLoad(r)
    <2>1. PICK offset \in 0..(Size - 1), len \in 1..MaxChunk :
            req' = [req EXCEPT ![r] = [Idle EXCEPT !.pc = "body", !.offset = offset,
                                                   !.len = len, !.seen = received]]
      BY <1>1 DEF ChunkLoad
    <2> DEFINE q == [Idle EXCEPT !.pc = "body", !.offset = offset, !.len = len, !.seen = received]
    <2>2. q \in RequestType /\ q.len = len
      BY BodyRequest DEF Idle
    <2> HIDE DEF q
    <2>3. req' = [req EXCEPT ![r] = q]
      BY <2>1 DEF q
    <2> QED
      BY <1>1, <2>2, <2>3 DEF PartIsPrefix, BodyHasUnits, ChunkLoad
  <1>2. CASE ChunkRefused(r)
    BY <1>2 DEF PartIsPrefix, BodyHasUnits, ChunkRefused
  <1>3. CASE ChunkAppend(r)
    <2> DEFINE n == req[r].len
    <2>1. n \in Nat /\ Len(part) = req[r].offset /\ Len(part) + n <= Size
      BY <1>3, Fields DEF ChunkAppend, Fits
    <2>2. part' \in Seq(1..Size) /\ Prefix(part')
      BY <1>3, <2>1, AppendPrefix DEF PartIsPrefix, ChunkAppend, AppendPart
    <2>3. Len(part) + n \in 0..Size
      BY <2>1
    <2>4. req' \in [Requests -> RequestType] /\ BodyHasUnits'
      BY <1>3, <2>3, WithSave DEF BodyHasUnits, ChunkAppend
    <2>5. mishaps' \subseteq Mishaps
      BY <1>3, MishapTypes DEF ChunkAppend
    <2> QED
      BY <1>3, <2>2, <2>4, <2>5 DEF PartIsPrefix, ChunkAppend
  <1>4. CASE ChunkConflict(r)
    <2>1. Len(part) \in 0..Size
      BY DEF PartIsPrefix, Prefix
    <2> QED
      BY <1>4, <2>1, WithSave DEF PartIsPrefix, BodyHasUnits, ChunkConflict
  <1>5. CASE ChunkSave(r)
    <2>1. received' \in 0..Size
      BY <1>5, Fields DEF ChunkSave
    <2> QED
      BY <1>5, <2>1 DEF PartIsPrefix, BodyHasUnits, ChunkSave
  <1>6. CASE CompleteLoad(r)
    <2>1. req' \in [Requests -> RequestType] /\ BodyHasUnits'
      BY <1>6, WithWas DEF CompleteLoad, BodyHasUnits
    <2> QED
      BY <1>6, <2>1 DEF PartIsPrefix, CompleteLoad
  <1>7. CASE CompleteCheck(r)
    <2>1. req' \in [Requests -> RequestType] /\ BodyHasUnits'
      BY <1>0, <1>7 DEF BodyHasUnits, CompleteCheck
    <2> QED
      BY <1>7, <2>1 DEF PartIsPrefix, CompleteCheck
  <1>8. CASE CompleteCommit(r)
    <2>1. task' \in [Tasks -> TaskType]
      BY <1>0, <1>8 DEF CompleteCommit, SpawnTask
    <2>2. status' \in Statuses /\ stale' \in BOOLEAN
      BY <1>8 DEF CompleteCommit, Statuses
    <2>3. mishaps' \subseteq Mishaps
      BY <1>8, MishapTypes DEF CompleteCommit
    <2> QED
      BY <1>8, <2>1, <2>2, <2>3 DEF PartIsPrefix, BodyHasUnits, CompleteCommit
  <1>9. CASE DeleteFiles(r) \/ Purge(r)
    <2>1. part' = <<>> /\ video' = NoVideo /\ poster' = FALSE
          /\ req' = [req EXCEPT ![r].pc = "delete"]
          /\ UNCHANGED <<row, kind, task, up, history>>
      BY <1>9 DEF DeleteFiles, Purge, RemoveFiles
    <2> QED
      BY <1>0, <2>1, EmptyPart DEF PartIsPrefix, BodyHasUnits
  <1>10. CASE DeleteCommit(r)
    BY <1>10 DEF Statuses, PartIsPrefix, BodyHasUnits, DeleteCommit
  <1> QED
    BY <1>1, <1>2, <1>3, <1>4, <1>5, <1>6, <1>7, <1>8, <1>9, <1>10 DEF RequestStep

(* A preparation task moves or removes the part and never adds to it. *)
LEMMA TaskStepFile ==
  ASSUME FileInv, NEW t \in Tasks, TaskStep(t) \/ ToolFails(t)
  PROVE  FileInv'
  <1> USE SizeAssumption, BoundAssumption, Values, WithPC DEF row, files, history
  <1> USE DEF FileInv, TypeOK
  <1>1. \A pc \in {"start", "probe", "remux", "poster", "ready"} : pc \in TaskPC
    BY DEF TaskPC
  <1>2. GiveUp(t) => /\ part' \in Seq(1..Size) /\ Prefix(part')
                     /\ video' \in VideoType /\ poster' \in BOOLEAN
                     /\ task' \in [Tasks -> TaskType]
    BY EmptyPart DEF GiveUp, RemoveFiles
  <1>3. CASE TaskStart(t)
    <2>1. task' \in [Tasks -> TaskType]
      BY <1>1, <1>3 DEF TaskStart
    <2> QED
      BY <1>3, <2>1 DEF PartIsPrefix, BodyHasUnits, TaskStart
  <1>4. CASE ToolFails(t)
    BY <1>2, <1>4 DEF PartIsPrefix, BodyHasUnits, ToolFails
  <1>5. CASE ProbeRejects(t)
    BY <1>2, <1>5 DEF PartIsPrefix, BodyHasUnits, ProbeRejects
  <1>6. CASE ProbeMp4(t)
    BY <1>1, <1>6 DEF PartIsPrefix, BodyHasUnits, ProbeMp4, Goto
  <1>7. CASE ProbeWebm(t)
    <2>1. video' \in VideoType /\ part' \in Seq(1..Size) /\ Prefix(part')
      BY <1>7, WithUnits, EmptyPart DEF ProbeWebm
    <2>2. task' \in [Tasks -> TaskType]
      BY <1>1, <1>7 DEF ProbeWebm, Goto
    <2> QED
      BY <1>7, <2>1, <2>2 DEF PartIsPrefix, BodyHasUnits, ProbeWebm
  <1>8. CASE RemuxOpen(t)
    <2>1. CASE part = <<>> /\ GiveUp(t)
      BY <1>2, <1>8, <2>1 DEF PartIsPrefix, BodyHasUnits, RemuxOpen
    <2>2. CASE ~(part = <<>> /\ GiveUp(t))
      <3>1. task' \in [Tasks -> TaskType] /\ video' \in VideoType
        BY <1>8, <2>2, WithUnits DEF RemuxOpen
      <3> QED
        BY <1>8, <2>2, <3>1 DEF PartIsPrefix, BodyHasUnits, RemuxOpen
    <2> QED
      BY <2>1, <2>2
  <1>9. CASE RemuxDone(t)
    <2>1. CASE GiveUp(t)
      BY <1>2, <1>9, <2>1 DEF PartIsPrefix, BodyHasUnits, RemuxDone
    <2>2. CASE ~GiveUp(t)
      <3>0. task[t].src \in Seq(1..Size)
        BY Fields
      <3>1. video' \in VideoType
        BY <1>9, <2>2, <3>0, WithUnits DEF RemuxDone
      <3>2. task' \in [Tasks -> TaskType]
        BY <1>9, <2>2 DEF RemuxDone
      <3>3. part' \in Seq(1..Size) /\ Prefix(part')
        BY <1>9, <2>2, EmptyPart DEF RemuxDone
      <3> QED
        BY <1>9, <2>2, <3>1, <3>2, <3>3 DEF PartIsPrefix, BodyHasUnits, RemuxDone
    <2> QED
      BY <2>1, <2>2
  <1>10. CASE Poster(t)
    <2>1. CASE GiveUp(t)
      BY <1>2, <1>10, <2>1 DEF PartIsPrefix, BodyHasUnits, Poster
    <2>2. CASE ~GiveUp(t)
      <3>1. task' \in [Tasks -> TaskType]
        BY <1>1, <1>10, <2>2 DEF Poster, Goto
      <3>2. poster' \in BOOLEAN
        BY <1>10, <2>2 DEF Poster
      <3> QED
        BY <1>10, <2>2, <3>1, <3>2 DEF PartIsPrefix, BodyHasUnits, Poster
    <2> QED
      BY <2>1, <2>2
  <1>11. CASE ReadyCommit(t) \/ FailCommit(t)
    <2>1. status' \in Statuses /\ stale' \in BOOLEAN /\ task' \in [Tasks -> TaskType]
      BY <1>11 DEF ReadyCommit, FailCommit, TaskCommit, Statuses
    <2> QED
      BY <1>11, <2>1 DEF PartIsPrefix, BodyHasUnits, ReadyCommit, FailCommit, TaskCommit
  <1> QED
    BY <1>3, <1>4, <1>5, <1>6, <1>7, <1>8, <1>9, <1>10, <1>11 DEF TaskStep

LEMMA CrashFile ==
  ASSUME FileInv, Crash
  PROVE  FileInv'
  <1> USE SizeAssumption DEF row, files, history
  <1>1. part' \in Seq(1..Size) /\ Prefix(part')
    <2>1. CASE UNCHANGED part
      BY <2>1 DEF FileInv, TypeOK, PartIsPrefix
    <2>2. ASSUME NEW r \in Requests, Torn(r)
          PROVE  part' \in Seq(1..Size) /\ Prefix(part')
      <3>0. PICK n \in 1..req[r].len : AppendPart(req[r].offset, n)
        BY <2>2 DEF Torn
      <3>1. n \in Nat /\ Len(part) + n <= Size
        BY <2>2, Fields DEF FileInv, TypeOK, Fits, Torn
      <3> QED
        BY <2>2, <3>0, <3>1, AppendPrefix DEF FileInv, TypeOK, PartIsPrefix, AppendPart, Torn
    <2> QED
      BY <2>1, <2>2 DEF Crash
  <1>2. crashes' \in 0..MaxCrashes
    BY BoundAssumption DEF Crash, FileInv, TypeOK
  <1>3. req' \in [Requests -> RequestType]
    BY Values DEF Crash
  <1>4. task' \in [Tasks -> TaskType]
    BY Values DEF Crash
  <1>5. BodyHasUnits'
    BY DEF Crash, Idle, BodyHasUnits
  <1>6. mishaps' \subseteq Mishaps
    BY MishapTypes DEF Crash, FileInv, TypeOK
  <1> QED
    BY <1>1, <1>2, <1>3, <1>4, <1>5, <1>6 DEF Crash, FileInv, TypeOK, PartIsPrefix

LEMMA RestartFile ==
  ASSUME FileInv, Restart
  PROVE  FileInv'
  <1> USE DEF row, files, history, FileInv, TypeOK
  <1>1. "start" \in TaskPC
    BY DEF TaskPC
  <1>2. task' \in [Tasks -> TaskType]
    BY <1>1, WithPC DEF Restart, SpawnTask
  <1>3. mishaps' \subseteq Mishaps
    BY MishapTypes DEF Restart
  <1>4. CASE UNCHANGED <<files, status>>
    BY <1>2, <1>3, <1>4 DEF Restart, PartIsPrefix, BodyHasUnits
  <1>5. CASE RemoveFiles /\ status' = "deleted"
    <2>1. part' \in Seq(1..Size) /\ Prefix(part') /\ video' \in VideoType /\ poster' \in BOOLEAN
      BY <1>5, SizeAssumption, EmptyPart, Values DEF RemoveFiles
    <2> QED
      BY <1>2, <1>3, <1>5, <2>1 DEF Restart, PartIsPrefix, BodyHasUnits, Statuses
  <1> QED
    BY <1>4, <1>5 DEF Restart

LEMMA PurgeCutFile ==
  ASSUME FileInv, PurgeCut
  PROVE  FileInv'
  <1> USE DEF row, history, FileInv, TypeOK
  <1>1. part' \in Seq(1..Size) /\ Prefix(part') /\ video' \in VideoType /\ poster' \in BOOLEAN
    BY EmptyPart, Values DEF PurgeCut, RemoveFiles
  <1>2. mishaps' \subseteq Mishaps
    BY DEF PurgeCut, Mishaps
  <1> QED
    BY <1>1, <1>2 DEF PurgeCut, PartIsPrefix, BodyHasUnits

LEMMA FileStep == FileInv /\ [Next]_vars => FileInv'
  <1> SUFFICES ASSUME FileInv, [Next]_vars PROVE FileInv'
    OBVIOUS
  <1>1. CASE StartUpload
    BY <1>1, SizeAssumption
    DEF StartUpload, Statuses, FileInv, TypeOK, PartIsPrefix, BodyHasUnits, files, history
  <1>2. CASE DayPasses
    BY <1>2 DEF DayPasses, FileInv, TypeOK, PartIsPrefix, BodyHasUnits, files, history
  <1>3. CASE UNCHANGED vars
    BY <1>3 DEF vars, FileInv, TypeOK, PartIsPrefix, BodyHasUnits
  <1> QED
    BY <1>1, <1>2, <1>3, CrashFile, RestartFile, PurgeCutFile, RequestStepFile, TaskStepFile DEF Next

LEMMA FileInvariant == Spec => []FileInv
  BY FileInit, FileStep, PTL DEF Spec

(* Every row, file and coroutine keeps its type (VideoUpload). *)
THEOREM TypeCorrect == Spec => []TypeOK
  <1>1. FileInv => TypeOK
    BY DEF FileInv
  <1> QED
    BY <1>1, FileInvariant, PTL

(* append_part: upload.part is always a gap-free beginning of the file.    *)
(* No assumption: chunks may be late, duplicated or out of order, and the  *)
(* backend may die anywhere.                                               *)
THEOREM PartAlwaysPrefix == Spec => []PartIsPrefix
  <1>1. FileInv => PartIsPrefix
    BY DEF FileInv
  <1> QED
    BY <1>1, FileInvariant, PTL
-----------------------------------------------------------------------------
(***************************************************************************)
(* The order of the stages: who may be at work in which status, as long as *)
(* no second /complete came.                                               *)
(***************************************************************************)
Once == "second complete" \notin mishaps

Rested == /\ \A r \in Requests : req[r].pc = "idle"
         /\ \A t \in Tasks : ~Working(t)

SoleTask ==
  /\ \A t \in Tasks : Working(t) => status \in {"processing", "deleted"}
  /\ \A t, u \in Tasks : Working(t) /\ Working(u) => t = u

Stages ==
  /\ ~up => Rested
  /\ \A r \in Requests : Completing(r) => req[r].was = "uploading"
  /\ Once => SoleTask

Forward ==
  status' # status =>
    \/ status' = "deleted"
    \/ <<status, status'>> \in {<<"absent", "uploading">>, <<"uploading", "processing">>,
                                <<"processing", "ready">>, <<"processing", "failed">>}
    \/ "second complete" \in mishaps'

(* A mishap is never forgotten. *)
LEMMA MishapsStay ==
  ASSUME [Next]_vars
  PROVE  mishaps \subseteq mishaps'
  <1> USE DEF row, files, history
  <1>1. ASSUME NEW r \in Requests, RequestStep(r)
        PROVE  mishaps \subseteq mishaps'
    BY <1>1
    DEF RequestStep, ChunkLoad, ChunkRefused, ChunkAppend, ChunkConflict, ChunkSave,
        CompleteLoad, CompleteCheck, CompleteCommit, DeleteFiles, Purge, DeleteCommit
  <1>2. ASSUME NEW t \in Tasks, TaskStep(t) \/ ToolFails(t)
        PROVE  mishaps \subseteq mishaps'
    BY <1>2
    DEF TaskStep, ToolFails, TaskStart, ProbeRejects, ProbeMp4, ProbeWebm, RemuxOpen, RemuxDone,
        Poster, ReadyCommit, FailCommit, TaskCommit
  <1>3. CASE StartUpload \/ DayPasses \/ Crash \/ Restart \/ PurgeCut \/ UNCHANGED vars
    BY <1>3 DEF StartUpload, DayPasses, Crash, Restart, PurgeCut, vars
  <1> QED
    BY <1>1, <1>2, <1>3 DEF Next

LEMMA OnceBefore ==
  ASSUME [Next]_vars, Once'
  PROVE  Once
  BY MishapsStay DEF Once

LEMMA StagesInit == Init => Stages
  BY DEF Init, Stages, SoleTask, Rested, Idle, IdleTask, Completing, Working

(* What a request does to the requests: its own record only, and it is     *)
(* completing afterwards only if it has read UPLOADING.                    *)
LEMMA RequestCompleting ==
  ASSUME FileInv, Stages, NEW r \in Requests, RequestStep(r)
  PROVE  \A q \in Requests : Completing(q)' => req'[q].was = "uploading"
  <1> USE DEF FileInv, TypeOK
  <1>1. \A q \in Requests : q # r => req'[q] = req[q]
    BY DEF RequestStep, ChunkLoad, ChunkRefused, ChunkAppend, ChunkConflict, ChunkSave,
           CompleteLoad, CompleteCheck, CompleteCommit, DeleteFiles, Purge, DeleteCommit
  <1>2. Completing(r)' => req'[r].was = "uploading"
    <2>1. CASE ChunkRefused(r) \/ ChunkSave(r) \/ CompleteCommit(r) \/ DeleteCommit(r)
      BY <2>1 DEF ChunkRefused, ChunkSave, CompleteCommit, DeleteCommit, Completing, Idle
    <2>6. CASE ChunkLoad(r)
      <3>1. req'[r].pc = "body"
        BY <2>6 DEF ChunkLoad, Idle
      <3> QED
        BY <3>1 DEF Completing
    <2>2. CASE ChunkConflict(r) \/ ChunkAppend(r)
      <3>1. req'[r].pc = "save"
        BY SMTT(30), <2>2 DEF ChunkConflict, ChunkAppend, RequestType
      <3> QED
        BY <3>1 DEF Completing
    <2>3. CASE CompleteLoad(r)
      <3>1. req'[r] = [req[r] EXCEPT !.pc = "check", !.was = status] /\ status = "uploading"
        BY <2>3 DEF CompleteLoad
      <3>2. req[r] \in RequestType /\ status \in Statuses
        OBVIOUS
      <3>3. [req[r] EXCEPT !.pc = "check", !.was = status].was = status
        BY <3>2, WithWas
      <3> QED
        BY <3>1, <3>3
    <2>4. CASE CompleteCheck(r)
      <3>1. req[r].was = "uploading"
        BY <2>4 DEF CompleteCheck, Stages, Completing
      <3> QED
        BY <2>4, <3>1 DEF CompleteCheck, Completing, Idle, RequestType
    <2>5. CASE DeleteFiles(r) \/ Purge(r)
      <3>1. req'[r].pc = "delete"
        BY <2>5 DEF DeleteFiles, Purge, RequestType
      <3> QED
        BY <3>1 DEF Completing
    <2> QED
      BY <2>1, <2>2, <2>3, <2>4, <2>5, <2>6 DEF RequestStep
  <1> QED
    BY <1>1, <1>2 DEF Stages, Completing

LEMMA RequestStages ==
  ASSUME FileInv, Stages, NEW r \in Requests, RequestStep(r), [Next]_vars
  PROVE  Stages' /\ Forward
  <1> USE DEF FileInv, TypeOK, row, files, history
  <1>1. up /\ up'
    BY DEF RequestStep, ChunkLoad, ChunkRefused, ChunkAppend, ChunkConflict, ChunkSave,
           CompleteLoad, CompleteCheck, CompleteCommit, DeleteFiles, Purge, DeleteCommit
  <1>2. CASE ~CompleteCommit(r) /\ ~DeleteCommit(r)
    <2>1. UNCHANGED <<status, task>>
      BY <1>2
      DEF RequestStep, ChunkLoad, ChunkRefused, ChunkAppend, ChunkConflict, ChunkSave,
          CompleteLoad, CompleteCheck, DeleteFiles, Purge
    <2>2. Once' => SoleTask'
      BY <2>1, OnceBefore DEF Stages, SoleTask, Working
    <2> QED
      BY <1>1, <2>1, <2>2, RequestCompleting DEF Stages, Forward
  <1>3. CASE CompleteCommit(r)
    <2>1. req[r].was = "uploading"
      BY <1>3 DEF CompleteCommit, Stages, Completing
    <2>2. CASE RowExists /\ Once'
      <3>1. mishaps' = mishaps \cup SecondComplete(r)
        BY <1>3, <2>2 DEF CompleteCommit
      <3>2. status = "uploading"
        BY <2>1, <2>2, <3>1 DEF SecondComplete, Once
      <3>3. \A t \in Tasks : ~Working(t)
        BY <2>2, <3>2, OnceBefore DEF Stages, SoleTask
      <3>4. status' = "processing" /\ SpawnTask
        BY <1>3, <2>2 DEF CompleteCommit
      <3>5. PICK t \in Tasks : task' = [task EXCEPT ![t].pc = "start"]
        BY <3>4 DEF SpawnTask
      <3>6. \A u \in Tasks : Working(u)' => u = t
        BY <3>3, <3>5 DEF Working
      <3> QED
        BY <1>1, <3>2, <3>4, <3>6, RequestCompleting DEF Stages, SoleTask, Forward
    <2>3. CASE ~RowExists
      <3>1. UNCHANGED <<status, task>>
        BY <1>3, <2>3 DEF CompleteCommit
      <3>2. Once' => SoleTask'
        BY <3>1, OnceBefore DEF Stages, SoleTask, Working
      <3> QED
        BY <1>1, <3>1, <3>2, RequestCompleting DEF Stages, Forward
    <2>4. CASE ~Once'
      BY <1>1, <2>4, RequestCompleting DEF Stages, Forward, Once
    <2> QED
      BY <2>2, <2>3, <2>4
  <1>4. CASE DeleteCommit(r)
    <2>1. status' = "deleted" /\ UNCHANGED task
      BY <1>4 DEF DeleteCommit
    <2>2. Once' => SoleTask'
      BY <2>1, OnceBefore DEF Stages, SoleTask, Working
    <2> QED
      BY <1>1, <2>1, <2>2, RequestCompleting DEF Stages, Forward
  <1> QED
    BY <1>2, <1>3, <1>4

LEMMA TaskStages ==
  ASSUME FileInv, Stages, NEW t \in Tasks, TaskStep(t) \/ ToolFails(t)
  PROVE  Stages' /\ Forward
  <1> USE DEF FileInv, TypeOK, row, files, history
  <1>1. up /\ up' /\ req' = req /\ mishaps' = mishaps /\ Working(t)
    BY DEF TaskStep, ToolFails, TaskStart, ProbeRejects, ProbeMp4, ProbeWebm, RemuxOpen, RemuxDone,
           Poster, ReadyCommit, FailCommit, TaskCommit, Working
  <1>2. \A r \in Requests : Completing(r)' => req'[r].was = "uploading"
    BY <1>1 DEF Stages, Completing
  <1>3. CASE ~Once
    BY <1>1, <1>2, <1>3 DEF Stages, Forward, Once
  <1>4. CASE Once
    <2>1. status \in {"processing", "deleted"} /\ \A u \in Tasks : Working(u) => u = t
      BY <1>1, <1>4 DEF Stages, SoleTask
    <2>2. \A u \in Tasks : u # t => task'[u] = task[u]
      BY DEF TaskStep, ToolFails, TaskStart, ProbeRejects, ProbeMp4, ProbeWebm, RemuxOpen,
             RemuxDone, Poster, ReadyCommit, FailCommit, TaskCommit, GiveUp, Goto
    <2>3. \A u \in Tasks : Working(u)' => u = t
      BY <2>1, <2>2 DEF Working
    <2>4. CASE ReadyCommit(t) \/ FailCommit(t)
      <3>1. ~Working(t)'
        BY <2>4 DEF ReadyCommit, FailCommit, TaskCommit, Working, IdleTask
      <3>2. \/ status = "deleted" /\ status' = "deleted"
            \/ status = "processing" /\ status' \in {"ready", "failed"}
        BY <2>1, <2>4 DEF ReadyCommit, FailCommit, TaskCommit, RowExists
      <3> QED
        BY <1>1, <1>2, <2>3, <3>1, <3>2 DEF Stages, SoleTask, Forward
    <2>5. CASE ~(ReadyCommit(t) \/ FailCommit(t))
      <3>1. status' = status
        BY <2>5
        DEF TaskStep, ToolFails, TaskStart, ProbeRejects, ProbeMp4, ProbeWebm, RemuxOpen, RemuxDone,
            Poster
      <3> QED
        BY <1>1, <1>2, <2>1, <2>3, <3>1 DEF Stages, SoleTask, Forward
    <2> QED
      BY <2>4, <2>5
  <1> QED
    BY <1>3, <1>4

LEMMA RestartStages ==
  ASSUME FileInv, Stages, Restart
  PROVE  Stages' /\ Forward
  <1> USE DEF FileInv, TypeOK, row, files, history
  <1>1. Rested /\ up' /\ req' = req
    BY DEF Restart, Stages
  <1>2. \A r \in Requests : ~Completing(r)'
    BY <1>1 DEF Rested, Completing
  <1>3. CASE status = "processing"
    <2>1. PICK t \in Tasks : task' = [task EXCEPT ![t].pc = "start"]
      BY <1>3 DEF Restart, SpawnTask, PurgeDue
    <2>2. \A u \in Tasks : Working(u)' => u = t
      BY <1>1, <2>1 DEF Rested, Working
    <2> QED
      BY <1>1, <1>2, <1>3, <2>2 DEF Restart, PurgeDue, Stages, SoleTask, Forward
  <1>4. CASE status # "processing"
    <2>1. task' = task /\ (status' = status \/ status' = "deleted")
      BY <1>4 DEF Restart
    <2>2. \A t \in Tasks : ~Working(t)'
      BY <1>1, <2>1 DEF Rested, Working
    <2> QED
      BY <1>1, <1>2, <2>1, <2>2 DEF Stages, SoleTask, Forward
  <1> QED
    BY <1>3, <1>4

LEMMA StagesStep ==
  ASSUME FileInv, Stages, [Next]_vars
  PROVE  Stages' /\ Forward
  <1> USE DEF row, files, history
  <1>1. CASE StartUpload
    <2>1. Once => \A t \in Tasks : ~Working(t)
      BY <1>1 DEF StartUpload, Stages, SoleTask
    <2> QED
      BY <1>1, <2>1 DEF StartUpload, Stages, SoleTask, Once, Forward, Completing, Working
  <1>2. CASE DayPasses \/ UNCHANGED vars
    BY <1>2 DEF DayPasses, vars, Stages, SoleTask, Once, Rested, Forward, Completing, Working
  <1>3. CASE Crash
    <2>1. Rested'
      BY <1>3 DEF Crash, Rested, Idle, IdleTask, Working
    <2>2. status' = status /\ \A r \in Requests : ~Completing(r)'
      BY <1>3, <2>1 DEF Crash, Rested, Completing
    <2> QED
      BY <2>1, <2>2 DEF Stages, SoleTask, Rested, Forward
  <1>4. CASE PurgeCut
    <2>1. Rested /\ UNCHANGED <<status, req, task, up>>
      BY <1>4 DEF PurgeCut, Stages
    <2>2. Rested' /\ \A r \in Requests : ~Completing(r)'
      BY <2>1 DEF Rested, Working, Completing
    <2> QED
      BY <2>1, <2>2 DEF Stages, SoleTask, Rested, Forward
  <1> QED
    BY <1>1, <1>2, <1>3, <1>4, RequestStages, TaskStages, RestartStages DEF Next

LEMMA StagesInvariant == Spec => []Stages
  <1>1. FileInv /\ Stages /\ [Next]_vars => Stages'
    BY StagesStep
  <1> QED
    BY <1>1, StagesInit, FileInvariant, PTL DEF Spec

(* F17: a video goes from uploading to processing to ready or failed, and  *)
(* from any of them only to deleted, whatever chunks, deletions, crashes   *)
(* and restarts come between; what alone takes it back is a /complete that *)
(* read UPLOADING before another one committed.                            *)
THEOREM StatusMovesForward == Spec => StatusForward
  <1>1. FileInv /\ Stages /\ [Next]_vars =>
          [status' # status =>
             \/ status' = "deleted"
             \/ <<status, status'>> \in
                  {<<"absent", "uploading">>, <<"uploading", "processing">>,
                   <<"processing", "ready">>, <<"processing", "failed">>}
             \/ "second complete" \in mishaps']_vars
    BY StagesStep DEF Forward
  <1> QED
    BY <1>1, StagesInvariant, FileInvariant, PTL DEF Spec, StatusForward
-----------------------------------------------------------------------------
(***************************************************************************)
(* received_bytes and the disk.  What a resumed upload trusts is a value   *)
(* some request has measured and not yet saved, so the invariant speaks    *)
(* of the values in flight too; that nothing shrinks the part meanwhile    *)
(* rests on no task being at work before the upload is complete.           *)
(***************************************************************************)
Undisturbed == ~DeletePending /\ "deletion cut" \notin mishaps

Measured ==
  /\ received <= Len(part)
  /\ \A r \in Requests : req[r].pc = "save" => req[r].save <= Len(part)

DiskInv ==
  /\ status \in {"absent", "uploading"} => \A t \in Tasks : ~Working(t)
  /\ status = "absent" => received = 0 /\ \A r \in Requests : req[r].pc = "idle"
  /\ status = "uploading" /\ Undisturbed => Measured

LEMMA DiskInit == Init => DiskInv
  BY DEF Init, DiskInv, DeletePending, Idle, IdleTask, Working

(* A deletion under way ends with the row gone or is cut by a crash. *)
LEMMA DeletionStaysPending ==
  ASSUME FileInv, NEW r \in Requests, RequestStep(r), DeletePending
  PROVE  DeletePending' \/ status' = "deleted"
  <1> USE DEF FileInv, TypeOK
  <1>1. PICK d \in Requests : req[d].pc = "delete"
    BY DEF DeletePending
  <1>2. CASE r = d
    BY <1>1, <1>2
    DEF RequestStep, ChunkLoad, ChunkRefused, ChunkAppend, ChunkConflict, ChunkSave,
        CompleteLoad, CompleteCheck, CompleteCommit, DeleteFiles, Purge, DeleteCommit
  <1>3. CASE r # d
    <2>1. req'[d] = req[d]
      BY <1>3
      DEF RequestStep, ChunkLoad, ChunkRefused, ChunkAppend, ChunkConflict, ChunkSave,
          CompleteLoad, CompleteCheck, CompleteCommit, DeleteFiles, Purge, DeleteCommit
    <2> QED
      BY <1>1, <2>1 DEF DeletePending
  <1> QED
    BY <1>2, <1>3

(* While the video is uploading no request shortens the part: a chunk is   *)
(* appended or its length read, and both are what the request will save.   *)
LEMMA RequestMeasured ==
  ASSUME FileInv, NEW r \in Requests, RequestStep(r), Measured, ~DeletePending',
         status = "uploading"
  PROVE  Measured'
  <1> USE DEF FileInv, TypeOK, row, files, history
  <1>1. CASE ChunkLoad(r)
    <2>1. \A q \in Requests : req'[q].pc = "save" => req'[q] = req[q]
      BY <1>1 DEF ChunkLoad
    <2> QED
      BY <1>1, <2>1 DEF ChunkLoad, Measured
  <1>2. CASE ChunkRefused(r)
    <2>1. \A q \in Requests : req'[q].pc = "save" => req'[q] = req[q]
      BY <1>2 DEF ChunkRefused, Idle
    <2> QED
      BY <1>2, <2>1 DEF ChunkRefused, Measured
  <1>3. CASE ChunkAppend(r)
    <2> DEFINE n == req[r].len
    <2>1. n \in Nat /\ Len(part) = req[r].offset /\ Len(part) \in Nat /\ Len(part) + n <= Size
      BY <1>3, Fields DEF ChunkAppend, Fits
    <2>2. Len(part') = Len(part) + n
      BY <1>3, <2>1, AppendPrefix DEF PartIsPrefix, ChunkAppend, AppendPart
    <2>3. req'[r].save = Len(part) + n /\ \A q \in Requests : q # r => req'[q] = req[q]
      BY <1>3 DEF ChunkAppend, RequestType
    <2>4. \A q \in Requests : req[q].save \in Nat
      BY Fields
    <2>5. received' = received
      BY <1>3 DEF ChunkAppend
    <2> HIDE DEF n
    <2>6. received' <= Len(part')
      BY <2>1, <2>2, <2>5 DEF Measured
    <2>7. ASSUME NEW q \in Requests, req'[q].pc = "save"
          PROVE  req'[q].save <= Len(part')
      BY SMTT(30), <2>1, <2>2, <2>3, <2>4, <2>7 DEF Measured
    <2> QED
      BY <2>6, <2>7 DEF Measured
  <1>4. CASE ChunkConflict(r)
    <2>1. req'[r].save = Len(part) /\ \A q \in Requests : q # r => req'[q] = req[q]
      BY <1>4 DEF ChunkConflict, RequestType
    <2>2. Len(part) \in Nat /\ part' = part /\ received' = received
      BY <1>4 DEF ChunkConflict
    <2> QED
      BY <2>1, <2>2 DEF Measured
  <1>5. CASE ChunkSave(r)
    <2>1. \A q \in Requests : req'[q].pc = "save" => req'[q] = req[q]
      BY <1>5 DEF ChunkSave, Idle
    <2>2. part' = part /\ req[r].pc = "save" /\ received' \in {received, req[r].save}
      BY <1>5 DEF ChunkSave
    <2> QED
      BY <2>1, <2>2 DEF Measured
  <1>6. CASE CompleteLoad(r)
    <2>1. req'[r].pc = "check" /\ \A q \in Requests : q # r => req'[q] = req[q]
      BY <1>6 DEF CompleteLoad, RequestType
    <2> QED
      BY <1>6, <2>1 DEF CompleteLoad, Measured
  <1>7. CASE CompleteCheck(r)
    <2>1. req'[r].pc # "save" /\ \A q \in Requests : q # r => req'[q] = req[q]
      BY <1>7 DEF CompleteCheck, RequestType, Idle
    <2> QED
      BY <1>7, <2>1 DEF CompleteCheck, Measured
  <1>8. CASE CompleteCommit(r)
    <2>1. \A q \in Requests : req'[q].pc = "save" => req'[q] = req[q]
      BY <1>8 DEF CompleteCommit, Idle
    <2> QED
      BY <1>8, <2>1 DEF CompleteCommit, Measured
  <1>9. CASE DeleteFiles(r) \/ Purge(r)
    <2>1. req'[r].pc = "delete"
      BY <1>9 DEF DeleteFiles, Purge, RequestType
    <2> QED
      BY <2>1 DEF DeletePending
  <1>10. CASE DeleteCommit(r)
    <2>1. req[r].pc = "delete" /\ req'[r].pc # "save" /\ part' = part /\ received' = received
          /\ \A q \in Requests : q # r => req'[q] = req[q]
      BY <1>10 DEF DeleteCommit, Idle
    <2> QED
      BY <2>1 DEF Measured
  <1> QED
    BY <1>1, <1>2, <1>3, <1>4, <1>5, <1>6, <1>7, <1>8, <1>9, <1>10 DEF RequestStep

LEMMA RequestDisk ==
  ASSUME FileInv, DiskInv, NEW r \in Requests, RequestStep(r), [Next]_vars
  PROVE  DiskInv'
  <1> USE DEF FileInv, TypeOK, row, files, history
  <1>1. status # "absent" /\ status' # "absent"
    <2>1. CASE req[r].pc = "idle"
      BY <2>1
      DEF RequestStep, ChunkLoad, ChunkRefused, ChunkAppend, ChunkConflict, ChunkSave, CompleteLoad,
          CompleteCheck, CompleteCommit, DeleteFiles, Purge, DeleteCommit, RowExists
    <2>2. CASE req[r].pc # "idle"
      <3>1. status # "absent"
        BY <2>2 DEF DiskInv
      <3> QED
        BY <3>1
        DEF RequestStep, ChunkLoad, ChunkRefused, ChunkAppend, ChunkConflict, ChunkSave,
            CompleteLoad, CompleteCheck, CompleteCommit, DeleteFiles, Purge, DeleteCommit
    <2> QED
      BY <2>1, <2>2
  <1>2. status' = "uploading" => status = "uploading" /\ task' = task
    BY DEF RequestStep, ChunkLoad, ChunkRefused, ChunkAppend, ChunkConflict, ChunkSave,
           CompleteLoad, CompleteCheck, CompleteCommit, DeleteFiles, Purge, DeleteCommit
  <1>3. ASSUME status' = "uploading", Undisturbed'
        PROVE  Measured'
    <2>1. Undisturbed
      BY <1>2, <1>3, DeletionStaysPending, MishapsStay DEF Undisturbed
    <2> QED
      BY <1>2, <1>3, <2>1, RequestMeasured DEF DiskInv, Undisturbed
  <1> QED
    BY <1>1, <1>2, <1>3 DEF DiskInv, Working

LEMMA TaskDisk ==
  ASSUME FileInv, DiskInv, NEW t \in Tasks, TaskStep(t) \/ ToolFails(t)
  PROVE  DiskInv'
  <1> USE DEF FileInv, TypeOK, row, files, history
  <1>1. Working(t) /\ req' = req
    BY DEF TaskStep, ToolFails, TaskStart, ProbeRejects, ProbeMp4, ProbeWebm, RemuxOpen, RemuxDone,
           Poster, ReadyCommit, FailCommit, TaskCommit, Working
  <1>2. status \notin {"absent", "uploading"}
    BY <1>1 DEF DiskInv
  <1>3. status' \notin {"absent", "uploading"}
    BY <1>2
    DEF TaskStep, ToolFails, TaskStart, ProbeRejects, ProbeMp4, ProbeWebm, RemuxOpen, RemuxDone,
        Poster, ReadyCommit, FailCommit, TaskCommit
  <1> QED
    BY <1>1, <1>3 DEF DiskInv, DeletePending

LEMMA DiskStep ==
  ASSUME FileInv, DiskInv, [Next]_vars
  PROVE  DiskInv'
  <1> USE DEF FileInv, TypeOK, row, files, history
  <1>1. CASE StartUpload
    <2>1. received' = 0 /\ req' = req /\ task' = task /\ status' = "uploading" /\ part' = part
      BY <1>1 DEF StartUpload, DiskInv
    <2>2. \A r \in Requests : req[r].pc = "idle"
      BY <1>1 DEF StartUpload, DiskInv
    <2>3. \A t \in Tasks : ~Working(t)
      BY <1>1 DEF StartUpload, DiskInv
    <2>4. ~DeletePending' /\ Len(part') \in Nat
      BY <2>1, <2>2 DEF DeletePending
    <2> QED
      BY <2>1, <2>2, <2>3, <2>4 DEF DiskInv, Working, Measured
  <1>2. CASE DayPasses \/ UNCHANGED vars
    BY <1>2 DEF DayPasses, vars, DiskInv, DeletePending, Undisturbed, Measured, Working
  <1>3. CASE Crash
    <2>1. /\ \A r \in Requests : req'[r].pc = "idle"
          /\ \A t \in Tasks : task'[t].pc = "idle"
      BY <1>3 DEF Crash, Idle, IdleTask
    <2>2. status' = status /\ received' = received
      BY <1>3 DEF Crash
    <2>4. DeletePending => "deletion cut" \in mishaps'
      BY <1>3 DEF Crash, DeletionCut
    <2>3. ASSUME status' = "uploading", Undisturbed'
          PROVE  received' <= Len(part')
      <3>1. Undisturbed
        BY <2>3, <2>4, MishapsStay DEF Undisturbed
      <3>2. received <= Len(part)
        BY <2>2, <2>3, <3>1 DEF DiskInv, Measured
      <3>3. CASE UNCHANGED part
        BY <2>2, <3>2, <3>3
      <3>4. ASSUME NEW r \in Requests, Torn(r)
            PROVE  received' <= Len(part')
        <4>0. PICK n \in 1..req[r].len : AppendPart(req[r].offset, n)
          BY <3>4 DEF Torn
        <4>1. n \in Nat /\ Len(part) \in Nat /\ Len(part) + n <= Size
          BY <3>4, SizeAssumption, Fields DEF Fits, Torn
        <4>2. Len(part') = Len(part) + n
          BY <3>4, <4>0, <4>1, AppendPrefix DEF PartIsPrefix, AppendPart, Torn
        <4>3. received \in Nat
          BY SizeAssumption
        <4> QED
          BY <2>2, <3>2, <4>1, <4>2, <4>3
      <3> QED
        BY <1>3, <3>3, <3>4 DEF Crash
    <2> QED
      BY <2>1, <2>2, <2>3 DEF DiskInv, DeletePending, Working, Measured
  <1>4. CASE Restart
    <2>1. req' = req /\ received' = received
          /\ (status' = status \/ status' = "deleted")
          /\ (status' # "deleted" => part' = part)
      BY <1>4 DEF Restart
    <2>2. status \in {"absent", "uploading"} => task' = task
      BY <1>4 DEF Restart
    <2>3. Undisturbed' => Undisturbed
      BY <2>1, MishapsStay DEF DeletePending, Undisturbed
    <2> QED
      BY <2>1, <2>2, <2>3 DEF DiskInv, Working, Measured
  <1>5. CASE PurgeCut
    <2>1. UNCHANGED <<status, received, req, task>> /\ ~Undisturbed' /\ status = "uploading"
      BY <1>5 DEF PurgeCut, PurgeDue, Undisturbed
    <2> QED
      BY <2>1 DEF DiskInv, Working
  <1> QED
    BY <1>1, <1>2, <1>3, <1>4, <1>5, RequestDisk, TaskDisk DEF Next

(* The received_bytes an upload is resumed from never claims more than     *)
(* upload.part holds, unless its files are being deleted, or a crash cut   *)
(* that: for any number of chunks, completes and deletions in flight.      *)
THEOREM NeverSkipsUnits == Spec => []NeverAheadOfDisk
  <1>1. FileInv /\ DiskInv /\ [Next]_vars => DiskInv'
    BY DiskStep
  <1>2. DiskInv => NeverAheadOfDisk
    BY DEF DiskInv, Undisturbed, Measured, NeverAheadOfDisk
  <1> QED
    BY <1>1, <1>2, DiskInit, FileInvariant, PTL DEF Spec
-----------------------------------------------------------------------------
(***************************************************************************)
(* What a failed preparation leaves.  Only its task is at work then        *)
(* (Stages), so what can still write is a chunk that comes late.           *)
(***************************************************************************)
NothingLeft == video = NoVideo /\ ~poster /\ (part # <<>> => "late chunk" \in mishaps)

LeftInv ==
  Once => /\ \A t \in Tasks : task[t].pc = "failing" => NothingLeft
          /\ status = "failed" => NothingLeft

LEMMA LeftInit == Init => LeftInv
  BY DEF Init, LeftInv, IdleTask

LEMMA RequestLeft ==
  ASSUME FileInv, Stages, LeftInv, NEW r \in Requests, RequestStep(r), Once, Once'
  PROVE  LeftInv'
  <1> USE DEF FileInv, TypeOK, row, files, history
  <1>1. \A t \in Tasks : task'[t].pc = "failing" => task[t] = task'[t]
    BY DEF RequestStep, ChunkLoad, ChunkRefused, ChunkAppend, ChunkConflict, ChunkSave, CompleteLoad,
           CompleteCheck, CompleteCommit, SpawnTask, DeleteFiles, Purge, DeleteCommit, TaskType
  <1>2. status' = "failed" => status = "failed"
    BY DEF RequestStep, ChunkLoad, ChunkRefused, ChunkAppend, ChunkConflict, ChunkSave,
           CompleteLoad, CompleteCheck, CompleteCommit, DeleteFiles, Purge, DeleteCommit
  <1>3. CASE ChunkAppend(r)
    <2>1. UNCHANGED <<status, video, poster, task>>
          /\ (status # "uploading" => "late chunk" \in mishaps')
      BY <1>3 DEF ChunkAppend, LateChunk
    <2>2. \A t \in Tasks : task[t].pc = "failing" => status # "uploading"
      BY DEF Stages, SoleTask, Working
    <2> QED
      BY <2>1, <2>2 DEF LeftInv, NothingLeft
  <1>4. CASE ~ChunkAppend(r)
    <2>1. NothingLeft => NothingLeft'
      BY <1>4
      DEF RequestStep, ChunkLoad, ChunkRefused, ChunkConflict, ChunkSave, CompleteLoad,
          CompleteCheck, CompleteCommit, DeleteFiles, Purge, DeleteCommit, RemoveFiles, NothingLeft
    <2> QED
      BY <1>1, <1>2, <2>1 DEF LeftInv
  <1> QED
    BY <1>3, <1>4

LEMMA TaskLeft ==
  ASSUME FileInv, Stages, LeftInv, NEW t \in Tasks, TaskStep(t) \/ ToolFails(t), Once
  PROVE  LeftInv'
  <1> USE DEF FileInv, TypeOK, row, files, history
  <1>1. Working(t) /\ req' = req /\ mishaps' = mishaps
    BY DEF TaskStep, ToolFails, TaskStart, ProbeRejects, ProbeMp4, ProbeWebm, RemuxOpen, RemuxDone,
           Poster, ReadyCommit, FailCommit, TaskCommit, Working
  <1>2. status \in {"processing", "deleted"} /\ \A u \in Tasks : Working(u) => u = t
    BY <1>1 DEF Stages, SoleTask
  <1>3. \A u \in Tasks : u # t => task'[u] = task[u] /\ task'[u].pc # "failing"
    BY <1>2
    DEF TaskStep, ToolFails, TaskStart, ProbeRejects, ProbeMp4, ProbeWebm, RemuxOpen, RemuxDone,
        Poster, ReadyCommit, FailCommit, TaskCommit, GiveUp, Goto, Working
  <1>4. /\ task'[t].pc = "failing" => NothingLeft'
        /\ status' = "failed" => NothingLeft'
    <2>1. CASE GiveUp(t) /\ status' = status
      BY <1>2, <2>1 DEF GiveUp, RemoveFiles, NothingLeft
    <2>2. CASE FailCommit(t)
      <3>1. NothingLeft /\ task'[t].pc = "idle" /\ UNCHANGED files
        BY <2>2 DEF FailCommit, TaskCommit, LeftInv, IdleTask
      <3> QED
        BY <1>1, <3>1 DEF NothingLeft
    <2>3. CASE ReadyCommit(t)
      <3>1. task'[t].pc = "idle" /\ status' # "failed"
        BY <1>2, <2>3 DEF ReadyCommit, TaskCommit, IdleTask, RowExists
      <3> QED
        BY <3>1
    <2>4. CASE ~GiveUp(t) /\ ~ReadyCommit(t) /\ ~FailCommit(t)
      <3>1. task'[t].pc # "failing" /\ status' = status
        BY <2>4
        DEF TaskStep, ToolFails, TaskStart, ProbeRejects, ProbeMp4, ProbeWebm, RemuxOpen, RemuxDone,
            Poster, Goto, TaskType, IdleTask
      <3> QED
        BY <1>2, <3>1
    <2>5. GiveUp(t) => status' = status
      BY DEF TaskStep, ToolFails, TaskStart, ProbeRejects, ProbeMp4, ProbeWebm, RemuxOpen, RemuxDone,
             Poster, ReadyCommit, FailCommit, TaskCommit, GiveUp, IdleTask
    <2> QED
      BY <2>1, <2>2, <2>3, <2>4, <2>5
  <1> QED
    BY <1>3, <1>4 DEF LeftInv

LEMMA LeftStep ==
  ASSUME FileInv, Stages, LeftInv, [Next]_vars
  PROVE  LeftInv'
  <1> SUFFICES ASSUME Once' PROVE LeftInv'
    BY DEF LeftInv
  <1> USE DEF FileInv, TypeOK, row, files, history
  <1>0. Once
    BY OnceBefore
  <1>1. CASE StartUpload \/ DayPasses \/ UNCHANGED vars
    BY <1>0, <1>1 DEF StartUpload, DayPasses, vars, LeftInv, NothingLeft
  <1>2. CASE Crash
    <2>1. /\ \A t \in Tasks : task'[t].pc = "idle"
          /\ UNCHANGED <<status, video, poster>>
      BY <1>2 DEF Crash, IdleTask
    <2>2. status = "failed" /\ part' # part => "late chunk" \in mishaps'
      BY <1>2 DEF Crash, LateChunk
    <2>3. "late chunk" \in mishaps => "late chunk" \in mishaps'
      BY MishapsStay
    <2> QED
      BY <1>0, <2>1, <2>2, <2>3 DEF LeftInv, NothingLeft
  <1>3. CASE Restart \/ PurgeCut
    <2>1. \A t \in Tasks : task[t].pc = "idle"
      BY <1>3 DEF Restart, PurgeCut, Stages, Rested, Working
    <2>2. \A t \in Tasks : task'[t].pc \in {"idle", "start"}
      BY <1>3, <2>1 DEF Restart, PurgeCut, SpawnTask, TaskType
    <2>3. status' = "failed" => status = "failed" /\ UNCHANGED files
      BY <1>3 DEF Restart, PurgeCut, PurgeDue
    <2>4. "late chunk" \in mishaps => "late chunk" \in mishaps'
      BY MishapsStay
    <2> QED
      BY <1>0, <2>2, <2>3, <2>4 DEF LeftInv, NothingLeft
  <1> QED
    BY <1>0, <1>1, <1>2, <1>3, RequestLeft, TaskLeft DEF Next

(* A failed video leaves nothing on disk but what a late chunk wrote,      *)
(* whenever its preparation fails, however many requests are in flight and *)
(* however often the backend dies, as long as no second /complete came.    *)
THEOREM FailureCleansUp == Spec => []FailedLeavesNothing
  <1>1. FileInv /\ Stages /\ LeftInv /\ [Next]_vars => LeftInv'
    BY LeftStep
  <1>2. LeftInv => FailedLeavesNothing
    BY DEF LeftInv, NothingLeft, Once, FailedLeavesNothing
  <1> QED
    BY <1>1, <1>2, LeftInit, StagesInvariant, FileInvariant, PTL DEF Spec

-----------------------------------------------------------------------------
(***************************************************************************)
(* A ready video is whole.  ReadyIsWhole is not inductive: the step that   *)
(* makes it true is the last of a chain that starts with the size check of *)
(* /complete, and each link has to survive late chunks and a restart.      *)
(* Resumable says what each link knows.  It holds until a second /complete *)
(* or a deletion came, or a restart found a late chunk for a part; none of *)
(* them is ever undone.                                                    *)
(***************************************************************************)
WholeVideo == [state |-> "whole", units |-> WholeFile]

Checked(r) == req[r].pc = "finish"

NoBody == \A r \in Requests : req[r].pc # "body"

TaskKnows(t) ==
  /\ task[t].pc \in {"start", "probe"} => part = WholeFile \/ (part = <<>> /\ NoBody)
  /\ task[t].pc = "remux" => part = WholeFile
  /\ task[t].pc = "copying" => task[t].src = WholeFile
  /\ task[t].pc \in {"poster", "ready"} => video = WholeVideo

Resumable ==
  /\ \A r \in Requests : Checked(r) /\ status = "uploading" => part = WholeFile
  /\ \A t \in Tasks : TaskKnows(t)
  /\ status = "ready" => video = WholeVideo

Fine == mishaps \cap {"second complete", "stub resumed", "deletion cut"} = {}

Standing == Fine /\ ~DeletePending /\ status # "deleted"

ResumeInv == Standing => Resumable

Layers == FileInv /\ Stages /\ DiskInv

LEMMA WholeLength == WholeFile \in Seq(1..Size) /\ Len(WholeFile) = Size
  BY SizeAssumption DEF WholeFile

(* Nothing can be appended to a whole part. *)
LEMMA WholeIsFull ==
  ASSUME FileInv, NEW r \in Requests, ChunkAppend(r)
  PROVE  part # WholeFile
  <1>1. req[r].len >= 1 /\ req[r].len \in Nat /\ req[r].offset \in Nat
    BY Fields DEF FileInv, TypeOK, BodyHasUnits, ChunkAppend
  <1> QED
    BY <1>1, WholeLength, SizeAssumption DEF ChunkAppend, Fits

LEMMA ResumeInit == Init => ResumeInv
  BY DEF Init, ResumeInv, Resumable, TaskKnows, Idle, IdleTask, Checked

(* What is disturbed, or deleted, stays so. *)
LEMMA NeverStandsAgain ==
  ASSUME Layers, [Next]_vars, Standing'
  PROVE  Standing
  <1> USE DEF Layers, FileInv, TypeOK, row, files, history
  <1>0. Fine
    BY MishapsStay DEF Standing, Fine
  <1>1. ASSUME NEW r \in Requests, RequestStep(r)
        PROVE  Standing
    <2>1. status = "deleted" => status' = "deleted"
      BY <1>1
      DEF RequestStep, ChunkLoad, ChunkRefused, ChunkAppend, ChunkConflict, ChunkSave, CompleteLoad,
          CompleteCheck, CompleteCommit, DeleteFiles, Purge, DeleteCommit, RowExists
    <2>2. ~DeletePending
      BY <1>1, DeletionStaysPending DEF Standing
    <2> QED
      BY <1>0, <2>1, <2>2 DEF Standing
  <1>2. ASSUME NEW t \in Tasks, TaskStep(t) \/ ToolFails(t)
        PROVE  Standing
    <2>1. req' = req /\ (status = "deleted" => status' = "deleted")
      BY <1>2
      DEF TaskStep, ToolFails, TaskStart, ProbeRejects, ProbeMp4, ProbeWebm, RemuxOpen, RemuxDone,
          Poster, ReadyCommit, FailCommit, TaskCommit, RowExists
    <2> QED
      BY <1>0, <2>1 DEF Standing, DeletePending
  <1>3. CASE Crash
    <2>1. status' = status /\ (DeletePending => "deletion cut" \in mishaps')
      BY <1>3 DEF Crash, DeletionCut
    <2> QED
      BY <1>0, <2>1 DEF Standing, Fine
  <1>4. CASE Restart \/ PurgeCut \/ StartUpload \/ DayPasses \/ UNCHANGED vars
    <2>1. req' = req /\ (status = "deleted" => status' = "deleted")
      BY <1>4 DEF Restart, PurgeCut, PurgeDue, StartUpload, DayPasses, vars
    <2> QED
      BY <1>0, <2>1 DEF Standing, DeletePending
  <1> QED
    BY <1>1, <1>2, <1>3, <1>4 DEF Next

(* A chunk is loaded, and a size checked, only while the video is          *)
(* UPLOADING and no task at work.                                          *)
LEMMA RequestResume ==
  ASSUME Layers, Standing, Standing', Resumable, NEW r \in Requests, RequestStep(r)
  PROVE  Resumable'
  <1> USE DEF Layers, FileInv, TypeOK, row, files, history
  <1>0. \A q \in Requests : q # r => req'[q] = req[q]
    BY DEF RequestStep, ChunkLoad, ChunkRefused, ChunkAppend, ChunkConflict, ChunkSave,
           CompleteLoad, CompleteCheck, CompleteCommit, DeleteFiles, Purge, DeleteCommit
  <1>1. status = "uploading" => \A t \in Tasks : ~Working(t)
    BY DEF DiskInv
  <1>2. CASE ChunkLoad(r)
    <2>1. UNCHANGED <<status, part, video, task>> /\ status = "uploading" /\ ~Checked(r)'
      BY <1>2 DEF ChunkLoad, Checked, Idle
    <2> QED
      BY <1>0, <1>1, <2>1 DEF Resumable, TaskKnows, Checked, Working
  <1>3. CASE ChunkRefused(r) \/ ChunkConflict(r) \/ ChunkSave(r) \/ CompleteLoad(r)
    <2>1. UNCHANGED <<status, part, video, task>>
      BY <1>3 DEF ChunkRefused, ChunkConflict, ChunkSave, CompleteLoad
    <2>2. req'[r].pc \notin {"finish", "body"}
      <3>1. CASE ChunkConflict(r)
        BY <3>1 DEF ChunkConflict, RequestType
      <3>2. CASE CompleteLoad(r)
        BY <3>2, WithWas DEF CompleteLoad
      <3> QED
        BY <1>3, <3>1, <3>2 DEF ChunkRefused, ChunkSave, Idle
    <2> QED
      BY <1>0, <2>1, <2>2 DEF Resumable, TaskKnows, NoBody, Checked
  <1>4. CASE ChunkAppend(r)
    <2>1. UNCHANGED <<status, video, task>> /\ req[r].pc = "body" /\ req'[r].pc = "save"
      BY <1>4 DEF ChunkAppend, RequestType
    <2>2. part # WholeFile
      BY <1>4, WholeIsFull
    <2> QED
      BY <1>0, <2>1, <2>2 DEF Resumable, TaskKnows, NoBody, Checked
  <1>5. CASE CompleteCheck(r)
    <2>1. UNCHANGED <<status, part, video, task>>
      BY <1>5 DEF CompleteCheck
    <2>2. req'[r].pc # "body" /\ (Checked(r)' => part = WholeFile)
      <3>1. CASE Len(part) = Size
        <4>1. part = WholeFile
          BY <3>1, FullPrefix DEF PartIsPrefix
        <4>2. req'[r].pc = "finish"
          BY <1>5, <3>1 DEF CompleteCheck, RequestType
        <4> QED
          BY <4>1, <4>2
      <3>2. CASE Len(part) # Size
        BY <1>5, <3>2 DEF CompleteCheck, Checked, Idle
      <3> QED
        BY <3>1, <3>2
    <2> QED
      BY <1>0, <2>1, <2>2 DEF Resumable, TaskKnows, NoBody, Checked
  <1>6. CASE CompleteCommit(r)
    <2>1. RowExists /\ req[r].was = "uploading"
      BY <1>6 DEF CompleteCommit, Stages, Completing, Standing, RowExists, DiskInv
    <2>2. status = "uploading"
      <3>1. mishaps' = mishaps \cup SecondComplete(r)
        BY <1>6, <2>1 DEF CompleteCommit
      <3> QED
        BY <2>1, <3>1 DEF SecondComplete, Standing, Fine
    <2>3. part = WholeFile
      BY <1>6, <2>2 DEF CompleteCommit, Resumable, Checked
    <2>4. status' = "processing" /\ UNCHANGED <<part, video>> /\ SpawnTask
      BY <1>6, <2>1 DEF CompleteCommit
    <2>5. \A t \in Tasks : task'[t].pc \in {"idle", "start"}
      BY <1>1, <2>2, <2>4 DEF SpawnTask, Working, TaskType
    <2> QED
      BY <2>3, <2>4, <2>5 DEF Resumable, TaskKnows
  <1>7. CASE DeleteFiles(r) \/ Purge(r)
    <2>1. req'[r].pc = "delete"
      BY <1>7 DEF DeleteFiles, Purge, RequestType
    <2> QED
      BY <2>1 DEF Standing, DeletePending
  <1>8. CASE DeleteCommit(r)
    BY <1>8 DEF DeleteCommit, Standing
  <1> QED
    BY <1>2, <1>3, <1>4, <1>5, <1>6, <1>7, <1>8 DEF RequestStep

LEMMA TaskResume ==
  ASSUME Layers, Standing, Resumable, NEW t \in Tasks, TaskStep(t) \/ ToolFails(t)
  PROVE  Resumable'
  <1> USE DEF Layers, FileInv, TypeOK, row, files, history
  <1>1. Working(t) /\ req' = req
    BY DEF TaskStep, ToolFails, TaskStart, ProbeRejects, ProbeMp4, ProbeWebm, RemuxOpen, RemuxDone,
           Poster, ReadyCommit, FailCommit, TaskCommit, Working
  <1>2. status = "processing" /\ \A u \in Tasks : Working(u) => u = t
    BY <1>1 DEF Stages, SoleTask, Once, Standing, Fine
  <1>3. status' # "uploading"
    BY <1>2
    DEF TaskStep, ToolFails, TaskStart, ProbeRejects, ProbeMp4, ProbeWebm, RemuxOpen, RemuxDone,
        Poster, ReadyCommit, FailCommit, TaskCommit
  <1>4. \A u \in Tasks : u # t => task'[u].pc = "idle"
    BY <1>2
    DEF TaskStep, ToolFails, TaskStart, ProbeRejects, ProbeMp4, ProbeWebm, RemuxOpen, RemuxDone,
        Poster, ReadyCommit, FailCommit, TaskCommit, GiveUp, Goto, Working
  <1>5. TaskKnows(t)' /\ (status' = "ready" => video' = WholeVideo)
    <2>1. CASE GiveUp(t) /\ status' = status
      <3>1. task'[t].pc = "failing"
        BY <2>1 DEF GiveUp
      <3> QED
        BY <1>2, <2>1, <3>1 DEF TaskKnows
    <2>2. CASE TaskStart(t)
      <3>1. task[t].pc = "start" /\ task'[t].pc \in {"idle", "probe"} /\ status' = status /\ part' = part
        BY <2>2 DEF TaskStart, TaskType, IdleTask
      <3> QED
        BY <1>1, <1>2, <3>1 DEF Resumable, TaskKnows, NoBody
    <2>3. CASE ProbeMp4(t)
      <3>1. part = WholeFile /\ task'[t].pc = "remux" /\ status' = status /\ part' = part
        BY <2>3 DEF ProbeMp4, Goto, TaskType, Resumable, TaskKnows
      <3> QED
        BY <1>2, <3>1 DEF TaskKnows
    <2>4. CASE ProbeWebm(t)
      <3>1. part = WholeFile /\ task'[t].pc = "poster" /\ status' = status
        BY <2>4 DEF ProbeWebm, Goto, TaskType, Resumable, TaskKnows
      <3> QED
        BY <1>2, <2>4, <3>1 DEF ProbeWebm, WholeVideo, TaskKnows
    <2>5. CASE RemuxOpen(t) /\ ~GiveUp(t)
      <3>1. task'[t] = [pc |-> "copying", src |-> part] /\ part = WholeFile /\ status' = status
        BY <2>5 DEF RemuxOpen, Resumable, TaskKnows
      <3> QED
        BY <1>2, <3>1 DEF TaskKnows
    <2>6. CASE RemuxDone(t) /\ ~GiveUp(t)
      <3>1. /\ task[t].src = WholeFile /\ task'[t].pc = "poster" /\ status' = status
            /\ video' = [state |-> "whole", units |-> task[t].src]
        BY <2>6 DEF RemuxDone, Resumable, TaskKnows
      <3> QED
        BY <1>2, <3>1 DEF WholeVideo, TaskKnows
    <2>7. CASE Poster(t) /\ ~GiveUp(t)
      <3>1. video = WholeVideo /\ video' = video /\ task'[t].pc = "ready" /\ status' = status
        BY <2>7 DEF Poster, Goto, Resumable, TaskType, TaskKnows
      <3> QED
        BY <1>2, <3>1 DEF TaskKnows
    <2>8. CASE ReadyCommit(t) \/ FailCommit(t)
      <3>1. task'[t].pc = "idle" /\ video' = video
        BY <2>8 DEF ReadyCommit, FailCommit, TaskCommit, IdleTask
      <3>2. status' = "ready" => task[t].pc = "ready"
        BY <1>2, <2>8 DEF ReadyCommit, FailCommit, TaskCommit, RowExists
      <3> QED
        BY <3>1, <3>2 DEF Resumable, TaskKnows
    <2> QED
      BY <2>1, <2>2, <2>3, <2>4, <2>5, <2>6, <2>7, <2>8
      DEF TaskStep, ToolFails, ProbeRejects, RemuxOpen, RemuxDone, Poster
  <1> QED
    BY <1>3, <1>4, <1>5 DEF Resumable, TaskKnows

LEMMA ResumeStep ==
  ASSUME Layers, ResumeInv, [Next]_vars
  PROVE  ResumeInv'
  <1> SUFFICES ASSUME Standing' PROVE Resumable'
    BY DEF ResumeInv
  <1> USE DEF Layers, FileInv, TypeOK, row, files, history
  <1>1. Standing /\ Resumable
    BY NeverStandsAgain DEF ResumeInv
  <1>2. CASE StartUpload
    <2>1. UNCHANGED <<part, video, req, task>> /\ status' = "uploading"
      BY <1>2 DEF StartUpload
    <2>2. \A r \in Requests : ~Checked(r)'
      BY <1>2, <2>1 DEF StartUpload, DiskInv, Checked
    <2> QED
      BY <1>1, <2>1, <2>2 DEF Resumable, TaskKnows, NoBody
  <1>3. CASE DayPasses \/ UNCHANGED vars
    BY <1>1, <1>3 DEF DayPasses, vars, Resumable, TaskKnows, NoBody, Checked
  <1>4. CASE Crash
    <2>1. /\ \A r \in Requests : ~Checked(r)'
          /\ \A t \in Tasks : task'[t].pc = "idle"
          /\ UNCHANGED <<status, video>>
      BY <1>4 DEF Crash, Idle, IdleTask, Checked
    <2> QED
      BY <1>1, <2>1 DEF Resumable, TaskKnows
  <1>5. CASE Restart
    <2>1. /\ \A r \in Requests : req'[r].pc = "idle"
          /\ \A t \in Tasks : task[t].pc = "idle"
      BY <1>5 DEF Restart, Stages, Rested, Working
    <2>2. \A t \in Tasks : task'[t].pc \in {"idle", "start"}
      BY <1>5, <2>1 DEF Restart, SpawnTask, TaskType
    <2>3. UNCHANGED <<status, part, video>>
      BY <1>5 DEF Restart, Standing
    <2>4. status = "processing" => part \in {<<>>, WholeFile}
      BY <1>5 DEF Restart, PurgeDue, StubResumed, Standing, Fine
    <2>5. status # "processing" => task' = task
      BY <1>5 DEF Restart
    <2>6. NoBody' /\ \A r \in Requests : ~Checked(r)'
      BY <2>1 DEF NoBody, Checked
    <2>7. ASSUME NEW t \in Tasks PROVE TaskKnows(t)'
      BY <2>1, <2>2, <2>3, <2>4, <2>5, <2>6 DEF TaskKnows
    <2> QED
      BY <1>1, <2>3, <2>6, <2>7 DEF Resumable
  <1>6. CASE PurgeCut
    BY <1>6 DEF PurgeCut, Standing, Fine
  <1> QED
    BY <1>1, <1>2, <1>3, <1>4, <1>5, <1>6, RequestResume, TaskResume DEF Next

(* A ready video is the whole upload, however many requests are in flight  *)
(* and however often the backend dies while it is received and prepared.   *)
(* The excuses are those of ReadyIsWhole: a second /complete, a part that  *)
(* a late chunk left for a restart, and a deletion.                        *)
THEOREM ReadyAlwaysWhole == Spec => []ReadyIsWhole
  <1>1. FileInv /\ DiskInv /\ [Next]_vars => DiskInv'
    BY DiskStep
  <1>2. FileInv /\ Stages /\ DiskInv /\ ResumeInv /\ [Next]_vars => ResumeInv'
    BY ResumeStep DEF Layers
  <1>3. ResumeInv => ReadyIsWhole
    BY DEF ResumeInv, Standing, Fine, Resumable, ReadyIsWhole, WholeVideo
  <1> QED
    BY <1>1, <1>2, <1>3, DiskInit, ResumeInit, StagesInvariant, FileInvariant, PTL DEF Spec
-----------------------------------------------------------------------------
(***************************************************************************)
(* The stream monitor, proved for any channels, followers, backends and    *)
(* bounds: its types, AiredIsRecorded and BellOncePerStream.               *)
(*                                                                         *)
(* The invariant follows one channel at a time.  While no two backends     *)
(* crossed, at most one is telling the room and the followers, and what it *)
(* is about to do fits the record; whoever is about to find a change of a  *)
(* channel that is live finds its bells untouched.                         *)
(***************************************************************************)

(* b is telling the room or the followers that c is live. *)
Rings(b, c) == watch[b].chan = c /\ watch[b].pc \in {"airing", "ringing"}

Hushed(c) == \A f \in Followers : bells[c][f] = 0

(* A backend is at a channel exactly while it tells of it. *)
Placed(b) ==
  /\ watch[b].chan # NoChannel <=> watch[b].pc \in {"airing", "ringing", "ending"}
  /\ watch[b].fresh \cap watch[b].gone = {}

(* At most one backend acts on c, and the record is what it wrote. *)
Alone(c) ==
  /\ \A b, k \in Backends : watch[b].chan = c /\ watch[k].chan = c => b = k
  /\ \A b \in Backends : Rings(b, c) => c \in started
  /\ \A b \in Backends : watch[b].chan = c /\ watch[b].pc = "ending" => c \notin started

(* The room knows, or is about to be told. *)
Told(c) ==
  /\ \A b \in Backends : watch[b].chan = c /\ watch[b].pc = "ringing" => c \in aired
  /\ (\A b \in Backends : watch[b].chan # c) => (c \in aired <=> c \in started)

(* No bell was rung and nobody is about to ring one. *)
Unrung(c) == Hushed(c) /\ \A k \in Backends : ~Rings(k, c)

(* What b has found of c, before or after the record, fits the bells. *)
DueFrom(b, c) ==
  /\ c \in watch[b].fresh => c \notin started /\ Hushed(c)
  /\ c \in watch[b].gone => c \in started /\ (c \in live => Unrung(c))
  /\ watch[b].pc = "listed" /\ c \in watch[b].seen => c \in started \/ Hushed(c)
  /\ watch[b].pc = "listed" /\ c \notin watch[b].seen /\ c \in live \cap started => Unrung(c)
  /\ watch[b].chan = c /\ watch[b].pc = "airing" => Hushed(c)
  /\ watch[b].chan = c /\ watch[b].pc = "ringing" =>
       \A f \in Followers : IF f \in watch[b].left THEN bells[c][f] = 0
                            ELSE c \notin missed => bells[c][f] = 1

Due(c) ==
  /\ \A f \in Followers : bells[c][f] <= 1
  /\ c \in started \ missed /\ (\A b \in Backends : watch[b].chan # c)
       => \A f \in Followers : bells[c][f] = 1
  /\ c \in live \ started => Hushed(c)
  /\ \A b \in Backends : DueFrom(b, c)

Agrees(c) ==
  /\ c \notin astray \cap mistaken => Alone(c)
  /\ c \notin astray => Told(c)
  /\ c \notin mistaken => Due(c)

IInv ==
  /\ MonitorTypeOK
  /\ \A b \in Backends : Placed(b)
  /\ \A c \in Channels : Agrees(c)
-----------------------------------------------------------------------------
(* What the operators return. *)

LEMMA AsleepType == Asleep \in WatchType /\ Down \in WatchType
  BY DEF Asleep, Down, WatchType

LEMMA GoOnType ==
  ASSUME NEW w \in WatchType
  PROVE  /\ GoOn(w) \in WatchType
         /\ GoOn(w).pc \in {"asleep", "working"}
         /\ GoOn(w).chan = NoChannel
         /\ GoOn(w).fresh = w.fresh
         /\ GoOn(w).gone = w.gone
  BY NoChannelAssumption DEF GoOn, Asleep, WatchType

LEMMA MoveTo ==
  ASSUME watch \in [Backends -> WatchType], NEW b \in Backends, NEW w \in WatchType, Move(b, w)
  PROVE  /\ watch' \in [Backends -> WatchType]
         /\ watch'[b] = w
         /\ \A k \in Backends \ {b} : watch'[k] = watch[k]
  BY DEF Move

LEMMA TypeKept ==
  ASSUME MonitorTypeOK, \A b \in Backends : Placed(b), [MonitorNext]_monVars
  PROVE  MonitorTypeOK'
<1> USE DEF MonitorTypeOK
<1>1. ASSUME NEW c \in Channels, StreamBegins(c) PROVE MonitorTypeOK'
  BY <1>1 DEF StreamBegins
<1>2. ASSUME NEW c \in Channels, StreamEnds(c) PROVE MonitorTypeOK'
  BY <1>2 DEF StreamEnds
<1>3. ASSUME NEW b \in Backends, List(b) PROVE MonitorTypeOK'
  <2>1. [Asleep EXCEPT !.pc = "listed", !.seen = live] \in WatchType
    BY DEF Asleep, WatchType
  <2> QED
    BY <1>3, <2>1, MoveTo DEF List
<1>4. ASSUME NEW b \in Backends, ListFails(b) PROVE MonitorTypeOK'
  <2>1. [Asleep EXCEPT !.pc = "listed"] \in WatchType
    BY DEF Asleep, WatchType
  <2> QED
    BY <1>4, <2>1, MoveTo DEF ListFails
<1>5. ASSUME NEW b \in Backends, Compare(b) PROVE MonitorTypeOK'
  <2> DEFINE w == [watch[b] EXCEPT !.seen = {}, !.fresh = watch[b].seen \ started,
                                   !.gone = started \ watch[b].seen]
  <2>1. w \in WatchType
    BY ZenonT(30) DEF WatchType
  <2>2. GoOn(w) \in WatchType
    BY <2>1, GoOnType
  <2>3. watch[b].seen \in SUBSET Channels
    BY DEF WatchType
  <2> HIDE DEF w
  <2>4. Move(b, GoOn(w)) /\ Sync(b, watch[b].seen)
    BY <1>5 DEF Compare, w
  <2> QED
    BY <1>5, <2>2, <2>3, <2>4, MoveTo DEF Compare, Sync
<1>6. ASSUME NEW b \in Backends, NEW c \in Channels, RecordLive(b, c) PROVE MonitorTypeOK'
  <2>1. [watch[b] EXCEPT !.pc = "airing", !.fresh = @ \ {c}, !.chan = c] \in WatchType
    BY ZenonT(30) DEF WatchType
  <2> QED
    BY <1>6, <2>1, MoveTo DEF RecordLive, Write
<1>7. ASSUME NEW b \in Backends, NEW c \in Channels, RecordGone(b, c) PROVE MonitorTypeOK'
  <2>1. [watch[b] EXCEPT !.pc = "ending", !.gone = @ \ {c}, !.chan = c] \in WatchType
    BY ZenonT(30) DEF WatchType
  <2> QED
    BY <1>7, <2>1, MoveTo DEF RecordGone, Write
<1>0. ASSUME NEW b \in Backends PROVE watch[b] \in WatchType /\ GoOn(watch[b]) \in WatchType
  BY GoOnType
<1>8. ASSUME NEW b \in Backends, Air(b) PROVE MonitorTypeOK'
  <2>1. [watch[b] EXCEPT !.pc = "ringing", !.left = Followers] \in WatchType
    BY <1>0 DEF WatchType
  <2>2. \E w \in WatchType : Move(b, w)
    BY <1>0, <1>8, <2>1 DEF Air
  <2>3. aired' \subseteq Channels
    <3>1. aired' = aired \cup {watch[b].chan} \/ aired' = aired \ {watch[b].chan}
      BY <1>8 DEF Air
    <3>2. watch[b].pc = "airing" => watch[b].chan \in Channels
      BY <1>0 DEF WatchType, Placed
    <3> QED
      BY <1>8, <3>1, <3>2 DEF Air
  <2> QED
    BY <1>8, <2>2, <2>3, MoveTo DEF Air
<1>9. ASSUME NEW b \in Backends, NEW f \in Followers, Ring(b, f) PROVE MonitorTypeOK'
  <2>1. [watch[b] EXCEPT !.left = @ \ {f}] \in WatchType
    BY <1>0 DEF WatchType
  <2>2. \E w \in WatchType : Move(b, w)
    BY <1>0, <1>9, <2>1 DEF Ring
  <2>3. bells' \in [Channels -> [Followers -> Nat]]
    <3>1. watch[b].chan \in Channels
      BY <1>0, <1>9 DEF Ring, WatchType, Placed
    <3>2. bells' = [bells EXCEPT ![watch[b].chan][f] = @ + 1]
      BY <1>9 DEF Ring
    <3> QED
      BY <3>1, <3>2
  <2>4. watch' \in [Backends -> WatchType]
    BY <2>2, MoveTo
  <2> QED
    BY <1>9, <2>3, <2>4 DEF Ring
<1>10. ASSUME NEW b \in Backends, CutShort(watch[b]) PROVE missed' \subseteq Channels /\ astray' \subseteq Channels
  BY <1>0, <1>10 DEF CutShort, WatchType, Placed
<1>11. ASSUME NEW b \in Backends, TickFails(b) PROVE MonitorTypeOK'
  BY <1>10, <1>11, AsleepType, MoveTo DEF TickFails
<1>12. ASSUME NEW b \in Backends, RingFails(b) PROVE MonitorTypeOK'
  <2>1. \E w \in WatchType : Move(b, w)
    BY <1>0, <1>12 DEF RingFails
  <2> QED
    BY <1>10, <1>12, <2>1, MoveTo DEF RingFails
<1>13. ASSUME NEW b \in Backends, BackendStops(b) PROVE MonitorTypeOK'
  BY <1>10, <1>13, AsleepType, MoveTo DEF BackendStops
<1>14. ASSUME NEW b \in Backends, Boot(b) PROVE MonitorTypeOK'
  BY <1>14, AsleepType, MoveTo DEF Boot
<1>15. CASE UNCHANGED monVars
  BY <1>15 DEF monVars
<1> QED
  BY <1>1, <1>2, <1>3, <1>4, <1>5, <1>6, <1>7, <1>8, <1>9, <1>11, <1>12, <1>13, <1>14, <1>15
  DEF MonitorNext, WatchStep

-----------------------------------------------------------------------------
(* One lemma per action: the places and the channels keep the invariant.   *)

Kept == (\A b \in Backends : Placed(b)') /\ (\A c \in Channels : Agrees(c)')

LEMMA StreamBeginsKeeps ==
  ASSUME IInv, NEW d \in Channels, StreamBegins(d) PROVE Kept
<1> USE DEF IInv
<1>1. watch' = watch /\ started' = started /\ aired' = aired /\ astray' = astray /\ live' = live \cup {d}
  BY DEF StreamBegins
<1>2. \A b \in Backends : Placed(b)'
  BY <1>1 DEF Placed
<1>3. ASSUME NEW c \in Channels, c # d PROVE Agrees(c)'
  <2>1. /\ c \in mistaken' <=> c \in mistaken
        /\ c \in missed' <=> c \in missed
        /\ c \in live' <=> c \in live
        /\ bells'[c] = bells[c]
    BY <1>3 DEF StreamBegins, MonitorTypeOK
  <2> QED
    BY <1>1, <2>1 DEF Agrees, Alone, Told, Due, DueFrom, Unrung, Hushed, Rings
<1>4. Agrees(d)'
  <2>1. Hushed(d)'
    BY DEF StreamBegins, Hushed, MonitorTypeOK
  <2>2. d \in missed' \/ d \notin started
    BY DEF StreamBegins, MonitorTypeOK
  <2>3. d \notin mistaken' => \A b \in Backends : watch[b].chan # d
    BY DEF StreamBegins, Quiet
  <2>4. d \notin mistaken' /\ d \in mistaken => Quiet(d)
    BY DEF StreamBegins
  <2>5. d \notin astray' \cap mistaken' => Alone(d)'
    BY <1>1, <2>3 DEF Agrees, Alone, Rings
  <2>6. d \notin astray' => Told(d)'
    BY <1>1 DEF Agrees, Told
  <2>7. ASSUME d \notin mistaken', NEW b \in Backends PROVE DueFrom(b, d)'
    <3>1. Unrung(d)'
      BY <1>1, <2>1, <2>3, <2>7 DEF Unrung, Rings
    <3>2. CASE Quiet(d)
      BY <1>1, <2>3, <2>7, <3>2 DEF Quiet, DueFrom
    <3>3. CASE d \notin mistaken
      <4>1. DueFrom(b, d)
        BY <3>3 DEF Agrees, Due
      <4> QED
        BY <1>1, <2>1, <2>3, <2>7, <3>1, <4>1 DEF DueFrom
    <3> QED
      BY <2>4, <2>7, <3>2, <3>3
  <2>8. d \notin mistaken' => Due(d)'
    BY <1>1, <2>1, <2>2, <2>7 DEF Due, Hushed
  <2> QED
    BY <2>5, <2>6, <2>8 DEF Agrees
<1> QED
  BY <1>2, <1>3, <1>4 DEF Kept

LEMMA StreamEndsKeeps ==
  ASSUME IInv, NEW d \in Channels, StreamEnds(d) PROVE Kept
<1>1. /\ UNCHANGED <<started, watch, aired, bells, mistaken, missed, astray>>
      /\ live' \subseteq live
  BY DEF StreamEnds
<1> QED
  BY <1>1 DEF IInv, Kept, Placed, Agrees, Alone, Told, Due, DueFrom, Unrung, Hushed, Rings

LEMMA ListKeeps ==
  ASSUME IInv, NEW b \in Backends, List(b) \/ ListFails(b) PROVE Kept
<1>1. /\ UNCHANGED <<live, started, aired, bells, missed, astray>>
      /\ watch[b].pc = "asleep" /\ watch[b].chan = NoChannel
      /\ mistaken \subseteq mistaken'
  BY NoChannelAssumption DEF List, ListFails, In, IInv, Placed
<1>2. /\ watch'[b].pc = "listed" /\ watch'[b].fresh = {}
      /\ watch'[b].gone = {} /\ watch'[b].chan = NoChannel
      /\ \A k \in Backends \ {b} : watch'[k] = watch[k]
  BY ZenonT(30) DEF List, ListFails, Move, Asleep, IInv, MonitorTypeOK
<1>3. \A c \in Channels :
         \/ c \in watch'[b].seen <=> c \in live
         \/ c \notin watch'[b].seen /\ (c \in mistaken' \/ c \notin live \cap started)
  BY ZenonT(30) DEF List, ListFails, Move, Asleep, IInv, MonitorTypeOK
<1>4. \A k \in Backends : Placed(k)'
  BY <1>2 DEF IInv, Placed
<1>5. ASSUME NEW c \in Channels PROVE Agrees(c)'
  <2>1. /\ \A k \in Backends : Rings(k, c)' <=> Rings(k, c)
        /\ \A k \in Backends : watch'[k].chan = c <=> watch[k].chan = c
        /\ \A k \in Backends : watch'[k].chan = c => watch'[k] = watch[k]
    BY <1>1, <1>2, NoChannelAssumption DEF Rings
  <2>2. Hushed(c)' <=> Hushed(c)
    BY <1>1 DEF Hushed
  <2>3. Unrung(c)' <=> Unrung(c)
    BY <2>1, <2>2 DEF Unrung
  <2>4. Alone(c) => Alone(c)'
    BY <1>1, <2>1 DEF Alone
  <2>5. Told(c) => Told(c)'
    BY <1>1, <2>1 DEF Told
  <2>6. Due(c) => \A k \in Backends \ {b} : DueFrom(k, c)'
    BY <1>1, <1>2, <2>2, <2>3 DEF Due, DueFrom
  <2>7. Due(c) /\ c \notin mistaken' => DueFrom(b, c)'
    BY <1>1, <1>2, <1>3, <2>2, <2>3, NoChannelAssumption DEF Due, DueFrom
  <2>8. Due(c) /\ c \notin mistaken' => Due(c)'
    BY <1>1, <2>1, <2>2, <2>6, <2>7 DEF Due
  <2> QED
    BY <1>1, <2>4, <2>5, <2>8 DEF IInv, Agrees
<1> QED
  BY <1>4, <1>5 DEF Kept

(* A backend turns away from its channel: its tick ends or is cut short.   *)
LEMMA LeavingKeeps ==
  ASSUME IInv, NEW b \in Backends,
         UNCHANGED <<live, started, aired, bells, mistaken>>,
         watch'[b].chan = NoChannel, watch'[b].pc \in {"down", "asleep", "working"},
         watch'[b].fresh \in {{}, watch[b].fresh}, watch'[b].gone \in {{}, watch[b].gone},
         \A k \in Backends \ {b} : watch'[k] = watch[k],
         missed \subseteq missed', astray \subseteq astray',
         watch[b].pc \in {"airing", "ending"} => watch[b].chan \in astray',
         watch[b].pc \in {"airing", "ringing"} => watch[b].chan \in missed'
  PROVE  Kept
<1>1. \A k \in Backends : Placed(k)'
  BY DEF IInv, Placed
<1>2. ASSUME NEW c \in Channels PROVE Agrees(c)'
  <2>1. /\ \A k \in Backends : Rings(k, c)' => Rings(k, c)
        /\ \A k \in Backends : watch'[k].chan = c => watch'[k] = watch[k]
        /\ watch'[b].chan # c
    BY NoChannelAssumption DEF Rings
  <2>2. Hushed(c)' <=> Hushed(c)
    BY DEF Hushed
  <2>3. Unrung(c) => Unrung(c)'
    BY <2>1, <2>2 DEF Unrung
  <2>4. Alone(c) => Alone(c)'
    BY <2>1 DEF Alone
  <2>5. watch[b].chan = c => watch[b].pc \in {"airing", "ringing", "ending"}
    BY NoChannelAssumption DEF IInv, Placed
  <2>6. (\A k \in Backends : watch'[k].chan # c) =>
          \/ \A k \in Backends : watch[k].chan # c
          \/ watch[b].chan = c
    OBVIOUS
  <2>7. c \notin astray' => Told(c)'
    <3>1. ASSUME c \notin astray', watch[b].chan = c
          PROVE  c \in aired /\ c \in started
      <4>1. watch[b].pc = "ringing"
        BY <2>5, <3>1
      <4> QED
        BY <3>1, <4>1 DEF IInv, Agrees, Alone, Told, Rings
    <3> QED
      BY <2>1, <2>6, <3>1 DEF IInv, Agrees, Told
  <2>8. ASSUME c \notin mistaken, watch[b].chan = c
        PROVE  c \in missed' \/ c \notin started
    BY <2>5, <2>8 DEF IInv, Agrees, Alone
  <2>9. Due(c) => \A k \in Backends \ {b} : DueFrom(k, c)'
    BY <2>2, <2>3 DEF Due, DueFrom
  <2>10. Due(c) => DueFrom(b, c)'
    BY <2>1, <2>2, <2>3 DEF Due, DueFrom
  <2>11. Due(c) /\ c \notin mistaken => Due(c)'
    BY <2>2, <2>6, <2>8, <2>9, <2>10 DEF Due
  <2> QED
    BY <2>4, <2>7, <2>11 DEF IInv, Agrees
<1> QED
  BY <1>1, <1>2 DEF Kept

LEMMA CutsKeep ==
  ASSUME IInv, NEW b \in Backends,
         TickFails(b) \/ RingFails(b) \/ BackendStops(b) \/ Boot(b)
  PROVE  Kept
<1>1. watch[b] \in WatchType /\ Placed(b)
  BY DEF IInv, MonitorTypeOK
<1>2. PICK w \in {Asleep, Down, GoOn(watch[b])} : Move(b, w)
  BY DEF TickFails, RingFails, BackendStops, Boot
<1>3. w \in WatchType /\ w.chan = NoChannel /\ w.pc \in {"down", "asleep", "working"}
      /\ w.fresh \in {{}, watch[b].fresh} /\ w.gone \in {{}, watch[b].gone}
  <2>1. CASE w = Asleep
    BY <2>1, AsleepType DEF Asleep
  <2>2. CASE w = Down
    BY <2>2, AsleepType DEF Asleep, Down
  <2>3. CASE w = GoOn(watch[b])
    BY <1>1, <2>3, GoOnType
  <2> QED
    BY <2>1, <2>2, <2>3
<1>4. watch'[b] = w /\ \A k \in Backends \ {b} : watch'[k] = watch[k]
  BY <1>2, <1>3, MoveTo DEF IInv, MonitorTypeOK
<1>5. UNCHANGED <<live, started, aired, bells, mistaken>>
  BY DEF TickFails, RingFails, BackendStops, Boot
<1>6. /\ missed \subseteq missed' /\ astray \subseteq astray'
      /\ watch[b].pc \in {"airing", "ending"} => watch[b].chan \in astray'
      /\ watch[b].pc \in {"airing", "ringing"} => watch[b].chan \in missed'
  BY DEF TickFails, RingFails, BackendStops, Boot, CutShort, In
<1> QED
  BY <1>3, <1>4, <1>5, <1>6, LeavingKeeps

LEMMA CompareKeeps ==
  ASSUME IInv, NEW b \in Backends, Compare(b) PROVE Kept
<1> DEFINE w == [watch[b] EXCEPT !.seen = {}, !.fresh = watch[b].seen \ started,
                                 !.gone = started \ watch[b].seen]
<1>1. /\ UNCHANGED <<live, started, aired, bells, mistaken, missed, astray>>
      /\ watch[b].pc = "listed" /\ watch[b].chan = NoChannel /\ watch[b] \in WatchType
  BY NoChannelAssumption DEF Compare, In, IInv, Placed, MonitorTypeOK
<1>2. /\ w \in WatchType
      /\ w.fresh = watch[b].seen \ started
      /\ w.gone = started \ watch[b].seen
  BY <1>1 DEF WatchType, IInv, MonitorTypeOK
<1>3. Move(b, GoOn(w))
  BY DEF Compare
<1> HIDE DEF w
<1>4. /\ watch'[b].pc \in {"asleep", "working"} /\ watch'[b].chan = NoChannel
      /\ watch'[b].fresh = watch[b].seen \ started
      /\ watch'[b].gone = started \ watch[b].seen
      /\ \A k \in Backends \ {b} : watch'[k] = watch[k]
  BY <1>2, <1>3, GoOnType, MoveTo DEF IInv, MonitorTypeOK
<1>5. \A k \in Backends : Placed(k)'
  BY <1>4 DEF IInv, Placed
<1>6. ASSUME NEW c \in Channels PROVE Agrees(c)'
  <2>1. /\ \A k \in Backends : Rings(k, c)' <=> Rings(k, c)
        /\ \A k \in Backends : watch'[k].chan = c <=> watch[k].chan = c
        /\ \A k \in Backends : watch'[k].chan = c => watch'[k] = watch[k]
    BY <1>1, <1>4, NoChannelAssumption DEF Rings
  <2>2. Hushed(c)' <=> Hushed(c)
    BY <1>1 DEF Hushed
  <2>3. Unrung(c)' <=> Unrung(c)
    BY <2>1, <2>2 DEF Unrung
  <2>4. Alone(c) => Alone(c)'
    BY <1>1, <2>1 DEF Alone
  <2>5. Told(c) => Told(c)'
    BY <1>1, <2>1 DEF Told
  <2>6. Due(c) => \A k \in Backends \ {b} : DueFrom(k, c)'
    BY <1>1, <1>4, <2>2, <2>3 DEF Due, DueFrom
  <2>7. Due(c) => DueFrom(b, c)'
    BY <1>1, <1>4, <2>2, <2>3, NoChannelAssumption DEF Due, DueFrom
  <2>8. Due(c) => Due(c)'
    BY <1>1, <2>1, <2>2, <2>6, <2>7 DEF Due
  <2> QED
    BY <1>1, <2>4, <2>5, <2>8 DEF IInv, Agrees
<1> QED
  BY <1>5, <1>6 DEF Kept

(* A record that nobody else is about to touch. *)
LEMMA UncrossedWrite ==
  ASSUME IInv, NEW b \in Backends, NEW d \in Channels, Write(b, d, TRUE) \/ Write(b, d, FALSE),
         d \notin mistaken' \/ d \notin astray', NEW k \in Backends \ {b}
  PROVE  /\ d \notin watch[k].fresh /\ d \notin watch[k].gone /\ watch[k].chan # d
         /\ watch[k].pc = "listed" => (d \in watch[k].seen <=> d \in started')
  BY DEF Write, Crossed, In, IInv, MonitorTypeOK

LEMMA RecordLiveKeeps ==
  ASSUME IInv, NEW b \in Backends, NEW d \in Channels, RecordLive(b, d) PROVE Kept
<1>1. /\ UNCHANGED <<live, aired, bells>>
      /\ watch[b].pc = "working" /\ watch[b].chan = NoChannel /\ d \in watch[b].fresh
      /\ watch[b] \in WatchType /\ Write(b, d, TRUE) /\ started' = started \cup {d}
  BY NoChannelAssumption DEF RecordLive, Write, In, IInv, Placed, MonitorTypeOK
<1>2. /\ watch'[b].pc = "airing" /\ watch'[b].chan = d
      /\ watch'[b].fresh = watch[b].fresh \ {d} /\ watch'[b].gone = watch[b].gone
      /\ \A k \in Backends \ {b} : watch'[k] = watch[k]
  BY <1>1 DEF RecordLive, Move, IInv, MonitorTypeOK, WatchType
<1>3. \A k \in Backends : Placed(k)'
  BY <1>1, <1>2, NoChannelAssumption DEF IInv, Placed
<1>4. ASSUME NEW c \in Channels, c # d PROVE Agrees(c)'
  <2>1. /\ c \in mistaken' <=> c \in mistaken
        /\ c \in missed' <=> c \in missed
        /\ c \in astray' <=> c \in astray
        /\ c \in started' <=> c \in started
    BY <1>1, <1>4 DEF Write
  <2>2. /\ \A k \in Backends : Rings(k, c)' <=> Rings(k, c)
        /\ \A k \in Backends : watch'[k].chan = c <=> watch[k].chan = c
        /\ \A k \in Backends : watch'[k].chan = c => watch'[k] = watch[k]
    BY <1>1, <1>2, <1>4, NoChannelAssumption DEF Rings
  <2>3. (Hushed(c)' <=> Hushed(c)) /\ (Unrung(c)' <=> Unrung(c))
    BY <1>1, <2>2 DEF Hushed, Unrung
  <2>4. (Alone(c) => Alone(c)') /\ (Told(c) => Told(c)')
    BY <1>1, <2>1, <2>2 DEF Alone, Told
  <2>5. Due(c) => \A k \in Backends : DueFrom(k, c)'
    BY <1>1, <1>2, <1>4, <2>1, <2>3 DEF Due, DueFrom
  <2>6. Due(c) => Due(c)'
    BY <1>1, <2>1, <2>2, <2>3, <2>5 DEF Due
  <2> QED
    BY <2>1, <2>4, <2>6 DEF IInv, Agrees
<1>5. Agrees(d)'
  <2>0. Write(b, d, TRUE)
    BY <1>1
  <2>1. ASSUME d \notin mistaken' \/ d \notin astray', NEW k \in Backends \ {b}
        PROVE  /\ d \notin watch[k].fresh /\ d \notin watch[k].gone /\ watch[k].chan # d
               /\ watch[k].pc = "listed" => (d \in watch[k].seen <=> d \in started')
    BY <2>0, <2>1, UncrossedWrite
  <2>2. d \notin astray' \cap mistaken' => Alone(d)'
    BY <1>1, <1>2, <2>1 DEF Alone, Rings
  <2>3. d \notin astray' => Told(d)'
    BY <1>2, <2>1 DEF Told
  <2>4. ASSUME d \notin mistaken' PROVE Due(d)'
    <3>1. d \notin mistaken
      BY <1>1, <2>4 DEF Write
    <3>2. Due(d) /\ Hushed(d) /\ Hushed(d)'
      BY <1>1, <3>1 DEF IInv, Agrees, Due, DueFrom, Hushed
    <3>3. ASSUME NEW k \in Backends \ {b} PROVE DueFrom(k, d)'
      BY <1>1, <1>2, <2>1, <2>4 DEF DueFrom
    <3>4. DueFrom(b, d)'
      <4>1. d \notin watch[b].gone
        BY <1>1 DEF IInv, Placed
      <4> QED
        BY <1>2, <3>2, <4>1 DEF DueFrom
    <3> QED
      BY <1>1, <1>2, <3>2, <3>3, <3>4 DEF Due, Hushed
  <2> QED
    BY <2>2, <2>3, <2>4 DEF Agrees
<1> QED
  BY <1>3, <1>4, <1>5 DEF Kept

LEMMA RecordGoneKeeps ==
  ASSUME IInv, NEW b \in Backends, NEW d \in Channels, RecordGone(b, d) PROVE Kept
<1>1. /\ UNCHANGED <<live, aired, bells>>
      /\ watch[b].pc = "working" /\ watch[b].chan = NoChannel /\ d \in watch[b].gone
      /\ watch[b] \in WatchType /\ Write(b, d, FALSE) /\ started' = started \ {d}
      /\ missed' = missed
  BY NoChannelAssumption DEF RecordGone, Write, In, IInv, Placed, MonitorTypeOK
<1>2. /\ watch'[b].pc = "ending" /\ watch'[b].chan = d
      /\ watch'[b].fresh = watch[b].fresh /\ watch'[b].gone = watch[b].gone \ {d}
      /\ \A k \in Backends \ {b} : watch'[k] = watch[k]
  BY <1>1 DEF RecordGone, Move, IInv, MonitorTypeOK, WatchType
<1>3. \A k \in Backends : Placed(k)'
  BY <1>1, <1>2, NoChannelAssumption DEF IInv, Placed
<1>4. ASSUME NEW c \in Channels, c # d PROVE Agrees(c)'
  <2>1. /\ c \in mistaken' <=> c \in mistaken
        /\ c \in astray' <=> c \in astray
        /\ c \in started' <=> c \in started
    BY <1>1, <1>4 DEF Write
  <2>2. /\ \A k \in Backends : Rings(k, c)' <=> Rings(k, c)
        /\ \A k \in Backends : watch'[k].chan = c <=> watch[k].chan = c
        /\ \A k \in Backends : watch'[k].chan = c => watch'[k] = watch[k]
    BY <1>1, <1>2, <1>4, NoChannelAssumption DEF Rings
  <2>3. (Hushed(c)' <=> Hushed(c)) /\ (Unrung(c)' <=> Unrung(c))
    BY <1>1, <2>2 DEF Hushed, Unrung
  <2>4. (Alone(c) => Alone(c)') /\ (Told(c) => Told(c)')
    BY <1>1, <2>1, <2>2 DEF Alone, Told
  <2>5. Due(c) => \A k \in Backends : DueFrom(k, c)'
    BY <1>1, <1>2, <1>4, <2>1, <2>3 DEF Due, DueFrom
  <2>6. Due(c) => Due(c)'
    BY <1>1, <2>1, <2>2, <2>3, <2>5 DEF Due
  <2> QED
    BY <2>1, <2>4, <2>6 DEF IInv, Agrees
<1>5. Agrees(d)'
  <2>0. Write(b, d, FALSE)
    BY <1>1
  <2>1. ASSUME d \notin mistaken' \/ d \notin astray', NEW k \in Backends \ {b}
        PROVE  /\ d \notin watch[k].fresh /\ d \notin watch[k].gone /\ watch[k].chan # d
               /\ watch[k].pc = "listed" => (d \in watch[k].seen <=> d \in started')
    BY <2>0, <2>1, UncrossedWrite
  <2>2. d \notin astray' \cap mistaken' => Alone(d)'
    BY <1>1, <1>2, <2>1 DEF Alone, Rings
  <2>3. d \notin astray' => Told(d)'
    BY <1>2, <2>1 DEF Told
  <2>4. ASSUME d \notin mistaken' PROVE Due(d)'
    <3>1. d \notin mistaken
      BY <1>1, <2>4 DEF Write
    <3>2. Due(d) /\ (d \in live => Hushed(d)')
      BY <1>1, <3>1 DEF IInv, Agrees, Due, DueFrom, Hushed, Unrung
    <3>3. ASSUME NEW k \in Backends \ {b} PROVE DueFrom(k, d)'
      BY <1>1, <1>2, <2>1, <2>4 DEF DueFrom
    <3>4. DueFrom(b, d)'
      <4>1. d \notin watch[b].fresh
        BY <1>1 DEF IInv, Placed
      <4> QED
        BY <1>2, <4>1 DEF DueFrom
    <3> QED
      BY <1>1, <1>2, <3>2, <3>3, <3>4 DEF Due, Hushed
  <2> QED
    BY <2>2, <2>3, <2>4 DEF Agrees
<1> QED
  BY <1>3, <1>4, <1>5 DEF Kept

LEMMA AirKeeps ==
  ASSUME IInv, NEW b \in Backends, Air(b) PROVE Kept
<1> DEFINE d == watch[b].chan
<1>1. /\ UNCHANGED <<live, started, bells, mistaken, missed, astray>>
      /\ watch[b].pc \in {"airing", "ending"} /\ d # NoChannel
      /\ watch[b] \in WatchType
  BY DEF Air, IInv, Placed, MonitorTypeOK
<1>2. d \in Channels
  BY <1>1 DEF WatchType
<1>3. CASE watch[b].pc = "airing"
  <2>1. /\ watch'[b].pc = "ringing" /\ watch'[b].chan = d /\ watch'[b].left = Followers
        /\ watch'[b].fresh = watch[b].fresh /\ watch'[b].gone = watch[b].gone
        /\ \A k \in Backends \ {b} : watch'[k] = watch[k]
        /\ aired' = aired \cup {d}
    <3> DEFINE w == [watch[b] EXCEPT !.pc = "ringing", !.left = Followers]
    <3>1. Move(b, w) /\ aired' = aired \cup {d}
      BY <1>3 DEF Air
    <3>2. /\ w \in WatchType
          /\ w.pc = "ringing" /\ w.chan = d /\ w.left = Followers
          /\ w.fresh = watch[b].fresh /\ w.gone = watch[b].gone
      BY <1>1 DEF WatchType
    <3> HIDE DEF w
    <3> QED
      BY <3>1, <3>2, MoveTo DEF IInv, MonitorTypeOK
  <2>2. \A k \in Backends : Placed(k)'
    BY <1>1, <2>1 DEF IInv, Placed
  <2>3. ASSUME NEW c \in Channels PROVE Agrees(c)'
    <3>1. /\ \A k \in Backends : Rings(k, c)' <=> Rings(k, c)
          /\ \A k \in Backends : watch'[k].chan = c <=> watch[k].chan = c
      BY <1>3, <2>1 DEF Rings
    <3>2. (Hushed(c)' <=> Hushed(c)) /\ (Unrung(c)' <=> Unrung(c))
      BY <1>1, <3>1 DEF Hushed, Unrung
    <3>3. Alone(c) => Alone(c)'
      BY <1>1, <2>1, <3>1 DEF Alone
    <3>4. Told(c) => Told(c)'
      BY <1>1, <2>1 DEF Told
    <3>5. Due(c) => \A k \in Backends \ {b} : DueFrom(k, c)'
      BY <1>1, <2>1, <3>2 DEF Due, DueFrom
    <3>6. Due(c) => DueFrom(b, c)'
      BY <1>1, <1>3, <2>1, <3>2 DEF Due, DueFrom, Hushed
    <3>7. Due(c) => Due(c)'
      BY <1>1, <3>1, <3>2, <3>5, <3>6 DEF Due
    <3> QED
      BY <1>1, <3>3, <3>4, <3>7 DEF IInv, Agrees
  <2> QED
    BY <2>2, <2>3 DEF Kept
<1>4. CASE watch[b].pc = "ending"
  <2>1. /\ watch'[b].pc \in {"asleep", "working"} /\ watch'[b].chan = NoChannel
        /\ watch'[b].fresh = watch[b].fresh /\ watch'[b].gone = watch[b].gone
        /\ \A k \in Backends \ {b} : watch'[k] = watch[k]
        /\ aired' = aired \ {d}
    <3>1. Move(b, GoOn(watch[b])) /\ aired' = aired \ {d}
      BY <1>4 DEF Air
    <3> QED
      BY <1>1, <3>1, GoOnType, MoveTo DEF IInv, MonitorTypeOK
  <2>2. \A k \in Backends : Placed(k)'
    BY <1>1, <2>1 DEF IInv, Placed
  <2>3. ASSUME NEW c \in Channels PROVE Agrees(c)'
    <3>1. /\ \A k \in Backends : Rings(k, c)' <=> Rings(k, c)
          /\ \A k \in Backends : watch'[k].chan = c => watch'[k] = watch[k]
          /\ watch'[b].chan # c
          /\ c # d => \A k \in Backends : watch'[k].chan = c <=> watch[k].chan = c
      BY <1>4, <2>1, NoChannelAssumption DEF Rings
    <3>2. (Hushed(c)' <=> Hushed(c)) /\ (Unrung(c)' <=> Unrung(c))
      BY <1>1, <3>1 DEF Hushed, Unrung
    <3>3. Alone(c) => Alone(c)'
      BY <1>1, <3>1 DEF Alone
    <3>4. Alone(c) /\ Told(c) => Told(c)'
      BY <1>1, <1>4, <2>1, <3>1 DEF Alone, Told
    <3>5. Due(c) => \A k \in Backends \ {b} : DueFrom(k, c)'
      BY <1>1, <2>1, <3>2 DEF Due, DueFrom
    <3>6. Due(c) => DueFrom(b, c)'
      BY <1>1, <2>1, <3>1, <3>2 DEF Due, DueFrom
    <3>7. Due(c) /\ Alone(c) => Due(c)'
      BY <1>1, <1>4, <3>1, <3>2, <3>5, <3>6 DEF Due, Alone
    <3> QED
      BY <1>1, <3>3, <3>4, <3>7 DEF IInv, Agrees
  <2> QED
    BY <2>2, <2>3 DEF Kept
<1> QED
  BY <1>1, <1>3, <1>4

LEMMA RingKeeps ==
  ASSUME IInv, NEW b \in Backends, NEW f \in Followers, Ring(b, f) PROVE Kept
<1>0. watch[b].pc = "ringing" /\ watch[b] \in WatchType
  BY DEF Ring, IInv, MonitorTypeOK
<1>2. PICK d \in Channels : watch[b].chan = d
  BY <1>0 DEF IInv, Placed, WatchType
<1>1. /\ UNCHANGED <<live, started, aired, mistaken, missed, astray>>
      /\ watch[b].pc = "ringing" /\ watch[b].chan = d /\ d # NoChannel /\ f \in watch[b].left
      /\ watch[b] \in WatchType
  BY <1>0, <1>2, NoChannelAssumption DEF Ring
<1>3. /\ \A c \in Channels \ {d} : bells'[c] = bells[c]
      /\ \A g \in Followers \ {f} : bells'[d][g] = bells[d][g]
      /\ bells'[d][f] = bells[d][f] + 1
  <2>1. bells' = [bells EXCEPT ![d][f] = @ + 1] /\ bells \in [Channels -> [Followers -> Nat]]
    BY <1>1 DEF Ring, IInv, MonitorTypeOK
  <2> QED
    BY <1>2, <2>1
<1>4. /\ watch'[b].fresh = watch[b].fresh /\ watch'[b].gone = watch[b].gone
      /\ \A k \in Backends \ {b} : watch'[k] = watch[k]
      /\ \/ /\ watch'[b].pc \in {"asleep", "working"} /\ watch'[b].chan = NoChannel
            /\ watch[b].left = {f}
         \/ /\ watch'[b].pc = "ringing" /\ watch'[b].chan = d
            /\ watch'[b].left = watch[b].left \ {f}
  <2>1. [watch[b] EXCEPT !.left = @ \ {f}] \in WatchType /\ GoOn(watch[b]) \in WatchType
    BY <1>1, GoOnType DEF WatchType
  <2>2. CASE watch[b].left = {f}
    <3>1. Move(b, GoOn(watch[b]))
      BY <2>2 DEF Ring
    <3> QED
      BY <1>1, <2>1, <2>2, <3>1, GoOnType, MoveTo DEF IInv, MonitorTypeOK
  <2>3. CASE watch[b].left # {f}
    <3>1. Move(b, [watch[b] EXCEPT !.left = @ \ {f}])
      BY <2>3 DEF Ring
    <3>2. watch'[b] = [watch[b] EXCEPT !.left = @ \ {f}] /\ \A k \in Backends \ {b} : watch'[k] = watch[k]
      BY <2>1, <3>1, MoveTo DEF IInv, MonitorTypeOK
    <3> QED
      BY <1>1, <3>2 DEF WatchType
  <2> QED
    BY <2>2, <2>3
<1>5. \A k \in Backends : Placed(k)'
  BY <1>1, <1>4 DEF IInv, Placed
<1>6. ASSUME NEW c \in Channels PROVE Alone(c) => Alone(c)'
  BY <1>1, <1>4, NoChannelAssumption DEF Alone, Rings
<1>7. ASSUME NEW c \in Channels PROVE Alone(c) /\ Told(c) => Told(c)'
  <2>1. c # d => \A k \in Backends : watch'[k].chan = c <=> watch[k].chan = c
    BY <1>1, <1>4, NoChannelAssumption
  <2> QED
    BY <1>1, <1>4, <2>1, NoChannelAssumption DEF Alone, Told, Rings
<1>8. ASSUME NEW c \in Channels, c # d, Due(c) PROVE Due(c)'
  <2>1. /\ \A k \in Backends : Rings(k, c)' <=> Rings(k, c)
        /\ \A k \in Backends : watch'[k].chan = c <=> watch[k].chan = c
    BY <1>1, <1>4, <1>8, NoChannelAssumption DEF Rings
  <2>2. (Hushed(c)' <=> Hushed(c)) /\ (Unrung(c)' <=> Unrung(c))
    BY <1>3, <1>8, <2>1 DEF Hushed, Unrung
  <2>3. \A k \in Backends : DueFrom(k, c)'
    BY <1>1, <1>3, <1>4, <1>8, <2>1, <2>2 DEF Due, DueFrom
  <2> QED
    BY <1>1, <1>3, <1>8, <2>1, <2>2, <2>3 DEF Due
<1>9. ASSUME Due(d), Alone(d) PROVE Due(d)'
  <2>1. /\ Rings(b, d) /\ d \in started
        /\ \A k \in Backends \ {b} : watch[k].chan # d
    BY <1>1, <1>9 DEF Alone, Rings
  <2>2. DueFrom(b, d) /\ \A k \in Backends : DueFrom(k, d)
    BY <1>9 DEF Due
  <2>3. \A g \in Followers : IF g \in watch[b].left \ {f} THEN bells'[d][g] = 0
                             ELSE d \notin missed => bells'[d][g] = 1
    BY <1>1, <1>3, <2>2 DEF DueFrom
  <2>4. \A g \in Followers : bells'[d][g] <= 1
    <3>1. bells[d][f] = 0
      BY <1>1, <2>2 DEF DueFrom
    <3> QED
      BY <1>3, <1>9, <3>1 DEF Due
  <2>5. ASSUME NEW k \in Backends PROVE DueFrom(k, d)'
    <3>1. DueFrom(k, d)
      BY <2>2
    <3>2. /\ d \notin watch[k].fresh
          /\ d \in watch[k].gone => d \notin live
          /\ ~(watch[k].pc = "listed" /\ d \notin watch[k].seen /\ d \in live)
      BY <2>1, <3>1 DEF DueFrom, Unrung
    <3>3. CASE k = b
      BY <1>1, <1>4, <2>1, <2>3, <3>1, <3>2, <3>3 DEF DueFrom
    <3>4. CASE k # b
      BY <1>1, <1>4, <2>1, <3>1, <3>2, <3>4 DEF DueFrom
    <3> QED
      BY <3>3, <3>4
  <2>6. d \in started \ missed /\ (\A k \in Backends : watch'[k].chan # d)
          => \A g \in Followers : bells'[d][g] = 1
    BY <1>4, <2>3
  <2> QED
    BY <1>1, <2>1, <2>4, <2>5, <2>6 DEF Due
<1>10. ASSUME NEW c \in Channels PROVE Agrees(c)'
  BY <1>1, <1>6, <1>7, <1>8, <1>9 DEF IInv, Agrees
<1> QED
  BY <1>5, <1>10 DEF Kept

-----------------------------------------------------------------------------
LEMMA InitHolds == MonitorInit => IInv
<1> SUFFICES ASSUME MonitorInit PROVE IInv
  OBVIOUS
<1>1. MonitorTypeOK
  BY AsleepType DEF MonitorInit, MonitorTypeOK
<1>2. \A b \in Backends : watch[b] = Asleep
  BY DEF MonitorInit
<1>3. \A b \in Backends : Placed(b)
  BY <1>2 DEF Placed, Asleep
<1>4. ASSUME NEW c \in Channels PROVE Agrees(c)
  <2>1. Hushed(c)
    BY DEF MonitorInit, Hushed
  <2> QED
    BY <1>2, <2>1, NoChannelAssumption
    DEF MonitorInit, Asleep, Agrees, Alone, Told, Due, DueFrom, Rings, Hushed
<1> QED
  BY <1>1, <1>3, <1>4 DEF IInv

LEMMA IInvKept == IInv /\ [MonitorNext]_monVars => IInv'
<1> SUFFICES ASSUME IInv, [MonitorNext]_monVars PROVE IInv'
  OBVIOUS
<1>1. MonitorTypeOK'
  BY TypeKept DEF IInv
<1>2. CASE MonitorNext
  <2>1. Kept
    BY <1>2, StreamBeginsKeeps, StreamEndsKeeps, ListKeeps, CompareKeeps, RecordLiveKeeps,
       RecordGoneKeeps, AirKeeps, RingKeeps, CutsKeep
    DEF MonitorNext, WatchStep
  <2> QED
    BY <1>1, <2>1 DEF Kept, IInv
<1>3. CASE UNCHANGED monVars
  BY <1>3 DEF monVars, IInv, MonitorTypeOK, Placed, Agrees, Alone, Told, Due, DueFrom, Unrung,
              Hushed, Rings
<1> QED
  BY <1>2, <1>3

LEMMA Invariant == MonitorSpec => []IInv
  BY InitHolds, IInvKept, PTL DEF MonitorSpec

(* Every hash, task and row counter keeps its type, for any channels,      *)
(* followers and backends.                                                 *)
THEOREM MonitorTypesCorrect == MonitorSpec => []MonitorTypeOK
<1>1. IInv => MonitorTypeOK
  BY DEF IInv
<1> QED
  BY <1>1, Invariant, PTL

(* What a room was told last is what is recorded, for any number of        *)
(* backends that watch, fail and stop.                                     *)
THEOREM RoomAlwaysKnows == MonitorSpec => []AiredIsRecorded
<1>1. IInv => AiredIsRecorded
  BY DEF IInv, Agrees, Told, AiredIsRecorded
<1> QED
  BY <1>1, Invariant, PTL

(* A stream rings no follower's bell twice, and every bell once when its   *)
(* tick was not cut short, for any number of followers and backends.       *)
THEOREM BellsRingOnce == MonitorSpec => []BellOncePerStream
<1>1. IInv => BellOncePerStream
  BY DEF IInv, Agrees, Due, BellOncePerStream
<1> QED
  BY <1>1, Invariant, PTL
=============================================================================
