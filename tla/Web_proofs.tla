---------------------------- MODULE Web_proofs ----------------------------
(***************************************************************************)
(* The web app: the two halves of MCStudio, and the chat of one tab.       *)
(*                                                                         *)
(* UploadClient: what the card shows is what Cancel reaches                *)
(* (ShownIsControlled), and what was cancelled is not published            *)
(* (CancelledStaysAway), for any number of uploads, runs, losses and       *)
(* visits.  Until the first mishap no two runs share a page or a video     *)
(* (Alone), so that control.current is the one run of the page (Reached).  *)
(*                                                                         *)
(* WebCache: what the cache holds of an account is shown to that account   *)
(* only (NothingOfOthers), for any accounts and any number of changes,     *)
(* mutations and losses.  The invariant says it of the request in flight   *)
(* as well, whose answer will be cached.  OwnChangesShown has two halves.  *)
(* The table of WebData: every button of every page refreshes or sets what *)
(* it changes, but for the queries of Gaps (AllPagesGood).  The cache:     *)
(* what is older than a change its user was told of is marked, and asked   *)
(* for while somebody looks (Marked), or it is known why not.              *)
(*                                                                         *)
(* ChatClient: NothingMissed, DeletedGone, StateIsCurrent and              *)
(* OwnMarksAreTrue, for any pages, changes, drops and visits.  Each says   *)
(* of the whole way from the server to the screen what the property says   *)
(* of its end: every message is on the screen, or in an answer or event    *)
(* that will come, or is named by the history variables (EachIsSafe, Told, *)
(* VotesTrue).  Until a break is caught up, what is newer than everything  *)
(* the tab holds (Reach) is counted on to come with the page it will ask   *)
(* for, and the request of the last break is not under way (Unasked), so   *)
(* that asking overwrites nothing.                                         *)
(***************************************************************************)
EXTENDS UploadClient, WebCache, ChatClient, FiniteSetTheorems, WellFoundedInduction, TLAPS

Ats == {"free", "create", "created", "part", "partDone", "wait", "ask", "asked", "finish", "finished", "over"}

Answers == {"none", "ok", "lost", "conflict", "hard"}

RunType ==
  [at : Ats, video : Videos \cup {0}, offset : Nat, failures : Nat, answer : Answers, aborted : BOOLEAN, visit : Nat]

Typed ==
  /\ row \in [Videos -> {"absent", "uploading", "processing", "gone"}]
  /\ held \in [Videos -> Nat] /\ told \in [Videos -> Nat]
  /\ run \in [Runs -> RunType]
  /\ phase \in {"idle", "uploading", "error"} /\ on \in Videos \cup {0} /\ control \in Runs \cup {0}
  /\ visit \in Nat /\ open \in BOOLEAN
  /\ cancelled \subseteq Videos /\ mishap \in {"none", "overlap", "other file", "late cancel"}

(* A run that goes, and one whose file is being sent *)
Goes(x) == x.at \notin {"free", "over"}
Sends(x) == Goes(x) /\ x.at \notin {"create", "created"}

Whose == \A r \in Runs : Goes(run[r]) => run[r].video # 0

Past == \A r \in Runs : run[r].visit <= visit

Closed == ~open => phase = "idle" /\ on = 0 /\ control = 0

(* No two runs of one page, or of one video *)
Alone ==
  mishap = "none" => \A q, r \in Runs : q # r /\ Goes(run[q]) /\ Goes(run[r]) =>
    /\ run[q].video # run[r].video
    /\ ~(run[q].visit = visit /\ run[r].visit = visit)

Reached ==
  mishap = "none" =>
    /\ control # 0 =>
         open /\ Sends(run[control]) /\ run[control].visit = visit /\ phase = "uploading"
    /\ phase = "uploading" => control # 0 /\ run[control].video = on
    /\ open => \A r \in Runs : Sends(run[r]) /\ run[r].visit = visit => control = r
    /\ phase = "error" => \A r \in Runs : Goes(run[r]) => run[r].visit # visit /\ run[r].video # on

(* What is sent, shown or cancelled is on the server. *)
Began(x) == Sends(x) \/ (x.at = "created" /\ x.answer = "ok")

Begun ==
  /\ \A r \in Runs : Began(run[r]) => row[run[r].video] # "absent"
  /\ on # 0 => row[on] # "absent"
  /\ \A v \in cancelled : row[v] # "absent"

Away ==
  mishap = "none" => \A v \in cancelled :
    row[v] # "processing" /\ \A r \in Runs : Goes(run[r]) => run[r].video # v

UInv == Typed /\ Whose /\ Past /\ Closed /\ Alone /\ Reached /\ Begun /\ Away

-----------------------------------------------------------------------------
LEMMA Numbers ==
  /\ 0 \notin Videos /\ 0 \notin Runs /\ Videos \subseteq Nat /\ Runs \subseteq Nat /\ Size \in Nat
BY UploadAssumption

LEMMA NoRunType ==
  /\ NoRun \in RunType /\ ~Goes(NoRun) /\ ~Began(NoRun) /\ NoRun.visit = 0
  /\ Over \in RunType /\ ~Goes(Over) /\ ~Began(Over) /\ Over.visit = 0
<1>1. NoRun \in RunType  BY DEF NoRun, RunType, Ats, Answers
<1>2. NoRun.at = "free" /\ NoRun.visit = 0  BY DEF NoRun
<1>3. Over \in RunType  BY <1>1 DEF Over, RunType, Ats
<1>4. Over.at = "over" /\ Over.visit = 0  BY <1>1, <1>2 DEF Over, RunType
<1> QED  BY <1>1, <1>2, <1>3, <1>4 DEF Goes, Began, Sends

LEMMA InitUInv == UploadInit => UInv
<1> SUFFICES ASSUME UploadInit PROVE UInv  OBVIOUS
<1>1. \A r \in Runs : run[r] = NoRun  BY DEF UploadInit
<1>2. Typed
  <2>1. run \in [Runs -> RunType]  BY NoRunType DEF UploadInit
  <2>2. visit \in Nat /\ cancelled = {} /\ mishap = "none"  BY DEF UploadInit
  <2>3. row \in [Videos -> {"absent", "uploading", "processing", "gone"}]
        /\ held \in [Videos -> Nat] /\ told \in [Videos -> Nat]
    BY DEF UploadInit
  <2> QED  BY <2>1, <2>2, <2>3 DEF UploadInit, Typed
<1>3. Whose /\ Closed /\ Alone  BY <1>1, NoRunType DEF UploadInit, Whose, Closed, Alone
<1>4. Past  BY <1>1, NoRunType DEF UploadInit, Past
<1>5. ~Sends(NoRun)  BY NoRunType DEF Began
<1>6. Reached /\ Begun /\ Away  BY <1>1, <1>5, NoRunType DEF UploadInit, Reached, Begun, Away
<1> QED  BY <1>2, <1>3, <1>4, <1>6 DEF UInv

-----------------------------------------------------------------------------
(* A run goes on with its video: nothing the card shows changes. *)
LEMMA Moves ==
  ASSUME UInv, NEW r \in Runs, NEW x \in RunType,
         run' = [run EXCEPT ![r] = x],
         x.video = run[r].video, x.visit = run[r].visit,
         Goes(run[r]), Goes(x), Sends(x) <=> Sends(run[r]),
         UNCHANGED <<page, cancelled, mishap, control>>,
         UNCHANGED <<phase, on>> \/ (Sends(run[r]) /\ Show(r, "uploading", run[r].video)),
         row' \in [Videos -> {"absent", "uploading", "processing", "gone"}],
         held' \in [Videos -> Nat], told' \in [Videos -> Nat],
         \A v \in Videos : row'[v] # row[v] => v = run[r].video /\ row'[v] # "absent",
         Began(x) => row'[x.video] # "absent"
  PROVE  UInv'
<1> USE DEF UInv
<1>1. run[r] \in RunType /\ run[r].video \in Videos \cup {0}  BY DEF Typed, RunType
<1>2. run[r].video \in Videos  BY <1>1 DEF Whose
<1>3. run'[r] = x /\ \A q \in Runs \ {r} : run'[q] = run[q]  BY DEF Typed
<1>4. mishap = "none" => UNCHANGED hook
  <2>1. CASE UNCHANGED <<phase, on>>  BY <2>1 DEF hook
  <2>2. CASE Sends(run[r]) /\ Show(r, "uploading", run[r].video) /\ Current(r)
    <3>1. mishap = "none" => control = r /\ r # 0  BY <2>2, Numbers DEF Current, Reached
    <3>2. mishap = "none" => phase = "uploading" /\ run[r].video = on  BY <3>1 DEF Reached
    <3>3. phase' = "uploading" /\ on' = run[r].video  BY <2>2 DEF Show
    <3> QED  BY <3>2, <3>3 DEF hook
  <2>3. CASE Show(r, "uploading", run[r].video) /\ ~Current(r)  BY <2>3 DEF hook, Show
  <2> QED  BY <2>1, <2>2, <2>3
<1>5. phase' \in {"idle", "uploading", "error"} /\ on' \in Videos \cup {0} /\ (on' = on \/ (on' = run[r].video /\ Sends(run[r])))
      /\ (UNCHANGED <<phase, on>> \/ open)
  BY <1>2 DEF Show, Typed, Current
<1>6. Typed'
  <2>1. run' \in [Runs -> RunType]  BY DEF Typed
  <2> QED  BY <2>1, <1>5 DEF Typed, page
<1>7. Whose' /\ Past'  BY <1>2, <1>3 DEF Whose, Past, page
<1>8. Closed'  BY <1>5 DEF Closed, page
<1>9. Alone'  BY <1>3 DEF Alone, page
<1>10. Reached'
  <2> SUFFICES ASSUME mishap = "none" PROVE Reached'  BY DEF Reached
  <2>1. UNCHANGED <<phase, on, control, open, visit>>  BY <1>4 DEF hook, page
  <2>2. control \in Runs \cup {0}  BY DEF Typed
  <2>3. control # 0 => open /\ Sends(run'[control]) /\ run'[control].visit = visit /\ phase = "uploading"
    BY <2>2, <1>3 DEF Reached
  <2>4. phase = "uploading" => control # 0 /\ run'[control].video = on  BY <2>2, <1>3 DEF Reached
  <2>5. open => \A q \in Runs : Sends(run'[q]) /\ run'[q].visit = visit => control = q  BY <1>3 DEF Reached
  <2>6. phase = "error" => \A q \in Runs : Goes(run'[q]) => run'[q].visit # visit /\ run'[q].video # on
    BY <1>3 DEF Reached
  <2> QED  BY <2>1, <2>3, <2>4, <2>5, <2>6 DEF Reached
<1>11. Begun'
  <2>1. \A v \in Videos : row[v] # "absent" => row'[v] # "absent"  OBVIOUS
  <2>2. Sends(run[r]) => Began(x)  BY DEF Began
  <2>3. on' # 0 => row'[on'] # "absent"  BY <2>1, <2>2, <1>5 DEF Begun, Typed
  <2>4. \A v \in cancelled' : row'[v] # "absent"  BY <2>1 DEF Begun, Typed
  <2>5. \A q \in Runs : run[q].video \in Videos \cup {0}  BY DEF Typed, RunType
  <2>6. \A q \in Runs : Began(run[q]) => Goes(run[q])  BY DEF Began, Goes, Sends
  <2>7. ASSUME NEW q \in Runs, Began(run'[q]) PROVE row'[run'[q].video] # "absent"
    <3>1. CASE q = r  BY <3>1, <2>7, <1>3
    <3>2. CASE q # r  BY <3>2, <2>1, <2>5, <2>6, <2>7, <1>3 DEF Begun, Whose
    <3> QED  BY <3>1, <3>2
  <2> QED  BY <2>3, <2>4, <2>7 DEF Begun
<1>12. Away'  BY <1>3 DEF Away, Typed
<1> QED  BY <1>6, <1>7, <1>8, <1>9, <1>10, <1>11, <1>12

(* A run of the page ends, and the card shows nothing or the error; or a    *)
(* run of an earlier visit ends.                                            *)
LEMMA Ends ==
  ASSUME UInv, NEW r \in Runs, Goes(run[r]), run' = [run EXCEPT ![r] = Over],
         UNCHANGED <<server, page, cancelled, mishap>>,
         control' = IF Current(r) /\ Sends(run[r]) THEN 0 ELSE control,
         \/ ~Current(r) /\ UNCHANGED <<phase, on>>
         \/ Current(r) /\ phase' = "idle" /\ on' = 0
         \/ Current(r) /\ phase' = "error" /\ on' = IF Sends(run[r]) THEN run[r].video ELSE 0
  PROVE  UInv'
<1> USE DEF UInv
<1>1. run[r] \in RunType /\ run[r].video \in Videos /\ run[r].video # 0  BY Numbers DEF Typed, RunType, Whose
<1>2. run'[r] = Over /\ \A q \in Runs \ {r} : run'[q] = run[q]  BY DEF Typed
<1>3. \A q \in Runs : Goes(run'[q]) => q # r /\ run'[q] = run[q]  BY <1>2, NoRunType
<1>4. \A q \in Runs : Sends(run'[q]) => Goes(run'[q])  BY DEF Sends
<1>5. \A q \in Runs : Began(run'[q]) => Goes(run'[q])  BY DEF Began, Sends, Goes
<1>6. Typed'
  <2>1. run' \in [Runs -> RunType]  BY NoRunType DEF Typed
  <2> QED  BY <2>1, <1>1 DEF Typed, page, server
<1>7. Whose'  BY <1>3 DEF Whose
<1>8. Past'
  <2>1. visit \in Nat /\ Over.visit = 0  BY NoRunType DEF Typed
  <2>2. Over.visit <= visit  BY <2>1
  <2> QED  BY <2>2, <1>2 DEF Past, page
<1>9. Closed'  BY DEF Closed, page, Current
<1>10. Alone'  BY <1>3 DEF Alone, page
<1>11. Reached'
  <2> SUFFICES ASSUME mishap = "none" PROVE Reached'  BY DEF Reached
  <2>1. visit' = visit /\ open' = open  BY DEF page
  <2>2. control \in Runs \cup {0}  BY DEF Typed
  <2>3. CASE Current(r)
    <3>1. \A q \in Runs : Goes(run'[q]) => run[q].visit # visit /\ run[q].video # run[r].video
      BY <2>3, <1>3 DEF Alone, Current
    <3>2. control # 0 => control = r /\ Sends(run[r])
      <4>1. control # 0 => Goes(run[control]) /\ run[control].visit = visit /\ Sends(run[control])
        BY DEF Reached, Sends
      <4> QED  BY <4>1, <2>2, <2>3 DEF Alone, Current
    <3>3. control' = 0  BY <3>2, <2>3
    <3>4. phase' = "idle" \/ (phase' = "error" /\ on' \in {0, run[r].video})  BY <2>3
    <3>5. phase' # "idle" => \A q \in Runs : Goes(run'[q]) => run'[q].visit # visit /\ run'[q].video # on'
      BY <3>1, <3>4, <1>3 DEF Whose
    <3> QED  BY <3>1, <3>3, <3>4, <3>5, <2>1, <1>3, <1>4 DEF Reached
  <2>4. CASE ~Current(r)
    <3>1. control' = control /\ phase' = phase /\ on' = on  BY <2>4
    <3>2. control # r  BY <2>4, Numbers DEF Reached, Current
    <3>3. control # 0 => run'[control] = run[control]  BY <3>2, <2>2, <1>2
    <3> QED  BY <3>1, <3>3, <2>1, <1>3, <1>4 DEF Reached
  <2> QED  BY <2>3, <2>4
<1>12. Begun'
  <2>1. row' = row /\ cancelled' = cancelled  BY DEF server
  <2>2. Sends(run[r]) => row[run[r].video] # "absent"  BY DEF Begun, Began
  <2>3. on' # 0 => row[on'] # "absent"  BY <2>2 DEF Begun
  <2> QED  BY <2>1, <2>3, <1>3, <1>5 DEF Begun
<1>13. Away'  BY <1>3 DEF Away, server
<1> QED  BY <1>6, <1>7, <1>8, <1>9, <1>10, <1>11, <1>12, <1>13

-----------------------------------------------------------------------------
(* A request is handled: its run goes on at a, with an answer. *)
LEMMA AnsweredMoves ==
  ASSUME UInv, NEW r \in Runs, NEW a \in Ats, NEW x \in Answers,
         run' = [run EXCEPT ![r].at = a, ![r].answer = x],
         \/ run[r].at = "create" /\ a = "created"
         \/ run[r].at = "part" /\ a = "partDone"
         \/ run[r].at = "ask" /\ a = "asked"
         \/ run[r].at = "finish" /\ a = "finished",
         UNCHANGED <<hook, page, cancelled, mishap>>,
         row' \in [Videos -> {"absent", "uploading", "processing", "gone"}],
         held' \in [Videos -> Nat], told' \in [Videos -> Nat],
         \A v \in Videos : row'[v] # row[v] => v = run[r].video /\ row'[v] # "absent",
         a = "created" /\ x = "ok" => row'[run[r].video] # "absent"
  PROVE  UInv'
<1>0. Typed  BY DEF UInv
<1>1. PICK y : y = [run[r] EXCEPT !.at = a, !.answer = x]  OBVIOUS
<1>2. /\ y \in RunType /\ y.at = a /\ y.answer = x /\ y.video = run[r].video /\ y.visit = run[r].visit
      /\ run' = [run EXCEPT ![r] = y]
  <2>1. run[r] \in RunType /\ run \in [Runs -> RunType]  BY <1>0 DEF Typed
  <2>2. y \in RunType /\ y.at = a /\ y.answer = x /\ y.video = run[r].video /\ y.visit = run[r].visit
    BY <1>1, <2>1 DEF RunType
  <2>3. run' = [run EXCEPT ![r] = y]  BY <1>1, <2>1
  <2> QED  BY <2>2, <2>3
<1>3. Goes(run[r]) /\ Goes(y) /\ (Sends(y) <=> Sends(run[r]))  BY <1>2 DEF Goes, Sends
<1>4. Sends(run[r]) => row[run[r].video] # "absent"  BY DEF UInv, Begun, Began
<1>5. run[r].video \in Videos  BY <1>0, <1>3, Numbers DEF UInv, Whose, Typed, RunType
<1>6. Began(y) => row'[y.video] # "absent"  BY <1>2, <1>3, <1>4, <1>5 DEF Began
<1> QED  BY <1>2, <1>3, <1>6, Moves DEF hook

LEMMA HandledKeeps == ASSUME UInv, NEW r \in Runs, Handled(r) PROVE UInv'
<1>0. Typed /\ run[r].video \in Videos \cup {0} /\ Size \in Nat  BY Numbers DEF UInv, Typed, RunType
<1>1. ASSUME Goes(run[r]) PROVE run[r].video \in Videos  BY <1>0, <1>1 DEF UInv, Whose
<1>2. CASE CreateHandled(r)
  <2>1. run[r].video \in Videos  BY <1>1, <1>2 DEF CreateHandled, Goes
  <2>2. PICK x \in Answers : run' = [run EXCEPT ![r].at = "created", ![r].answer = x]
                             /\ (x = "ok" => row' = [row EXCEPT ![run[r].video] = "uploading"])
    BY <1>2 DEF CreateHandled, Answered, Unheard, Answers
  <2>3. \/ row' = [row EXCEPT ![run[r].video] = "uploading"] /\ UNCHANGED <<held, told>>
        \/ UNCHANGED server
    BY <1>2 DEF CreateHandled, Unheard
  <2>4. row' \in [Videos -> {"absent", "uploading", "processing", "gone"}]
        /\ held' \in [Videos -> Nat] /\ told' \in [Videos -> Nat]
    BY <2>1, <2>3, <1>0 DEF Typed, server
  <2>5. \A v \in Videos : row'[v] # row[v] => v = run[r].video /\ row'[v] # "absent"
    BY <2>1, <2>3, <1>0 DEF Typed, server
  <2>6. x = "ok" => row'[run[r].video] # "absent"  BY <2>1, <2>2, <1>0 DEF Typed
  <2> QED  BY <1>2, <2>2, <2>4, <2>5, <2>6, AnsweredMoves DEF CreateHandled, Ats
<1>3. CASE PartHandled(r)
  <2>1. run[r].video \in Videos  BY <1>1, <1>3 DEF PartHandled, Goes
  <2>2. PICK x \in Answers : run' = [run EXCEPT ![r].at = "partDone", ![r].answer = x]
    BY <1>3 DEF PartHandled, Answered, Unheard, Answers
  <2>3. row' = row  BY <1>3 DEF PartHandled, Unheard, server
  <2>4. held' \in [Videos -> Nat]
    <3>0. held[run[r].video] \in Nat  BY <2>1, <1>0 DEF Typed
    <3>1. held[run[r].video] + 1 \in Nat  BY <3>0
    <3>2. held' = held \/ held' = [held EXCEPT ![run[r].video] = held[run[r].video] + 1]
      BY <1>3 DEF PartHandled, Unheard, server
    <3> QED  BY <3>1, <3>2, <1>0 DEF Typed
  <2>5. told' \in [Videos -> Nat]
    <3>0. held[run[r].video] \in Nat  BY <2>1, <1>0 DEF Typed
    <3>1. held[run[r].video] + 1 \in Nat  BY <3>0
    <3>2. \/ told' = told \/ told' = [told EXCEPT ![run[r].video] = held[run[r].video] + 1]
          \/ told' = [told EXCEPT ![run[r].video] = held[run[r].video]]
      BY <1>3 DEF PartHandled, Unheard, server
    <3> QED  BY <3>0, <3>1, <3>2, <1>0 DEF Typed
  <2>6. row' \in [Videos -> {"absent", "uploading", "processing", "gone"}]  BY <2>3, <1>0 DEF Typed
  <2> QED  BY <1>3, <2>2, <2>3, <2>4, <2>5, <2>6, AnsweredMoves DEF PartHandled, Ats
<1>4. CASE AskHandled(r)
  <2>2. PICK x \in Answers : run' = [run EXCEPT ![r].at = "asked", ![r].answer = x]
    BY <1>4 DEF AskHandled, Answered, Answers
  <2> QED  BY <1>0, <1>4, <2>2, AnsweredMoves DEF AskHandled, Ats, server, Typed
<1>5. CASE FinishHandled(r)
  <2>1. run[r].video \in Videos  BY <1>1, <1>5 DEF FinishHandled, Goes
  <2>2. PICK x \in Answers : run' = [run EXCEPT ![r].at = "finished", ![r].answer = x]
    BY <1>5 DEF FinishHandled, Answered, Unheard, Answers
  <2>3. \/ row' = [row EXCEPT ![run[r].video] = "processing"] /\ UNCHANGED <<held, told>>
        \/ UNCHANGED server
    BY <1>5 DEF FinishHandled, Unheard
  <2>4. row' \in [Videos -> {"absent", "uploading", "processing", "gone"}]
        /\ held' \in [Videos -> Nat] /\ told' \in [Videos -> Nat]
    BY <2>1, <2>3, <1>0 DEF Typed, server
  <2>5. \A v \in Videos : row'[v] # row[v] => v = run[r].video /\ row'[v] # "absent"
    BY <2>1, <2>3, <1>0 DEF Typed, server
  <2> QED  BY <1>5, <2>2, <2>4, <2>5, AnsweredMoves DEF FinishHandled, Ats
<1> QED  BY <1>2, <1>3, <1>4, <1>5 DEF Handled

-----------------------------------------------------------------------------
LEMMA CreateArrivesKeeps == ASSUME UInv, NEW r \in Runs, CreateArrives(r) PROVE UInv'
<1>0. Typed  BY DEF UInv
<1>1. Goes(run[r]) /\ ~Sends(run[r]) /\ run[r].at = "created"  BY DEF CreateArrives, Goes, Sends
<1>2. run[r].video \in Videos  BY <1>0, <1>1 DEF UInv, Whose, Typed, RunType
<1>3. UNCHANGED <<server, page, cancelled, mishap>>  BY DEF CreateArrives
<1>4. CASE run[r].answer # "ok"
  <2>1. run' = [run EXCEPT ![r] = Over] /\ control' = control /\ Show(r, "error", 0)  BY <1>4 DEF CreateArrives
  <2> QED  BY <2>1, <1>1, <1>3, Ends DEF Show
<1>5. CASE run[r].answer = "ok"
  <2> USE DEF UInv
  <2>1. PICK y : y = [run[r] EXCEPT !.answer = "none", !.at = "part"]  OBVIOUS
  <2>2. run[r] \in RunType /\ run \in [Runs -> RunType]  BY <1>0 DEF Typed
  <2>3. y \in RunType /\ y.at = "part" /\ y.video = run[r].video /\ y.visit = run[r].visit
    BY <2>1, <2>2 DEF RunType, Ats, Answers
  <2>4. run' = [run EXCEPT ![r] = y]  BY <1>5, <2>1, <2>2 DEF CreateArrives
  <2>5. run'[r] = y /\ Goes(y) /\ Sends(y) /\ \A q \in Runs \ {r} : run'[q] = run[q]
    BY <2>2, <2>3, <2>4 DEF Goes, Sends
  <2>6. control' = (IF Current(r) THEN r ELSE control) /\ Show(r, "uploading", run[r].video)
    BY <1>5 DEF CreateArrives
  <2>7. row[run[r].video] # "absent"  BY <1>1, <1>5 DEF Begun, Began
  <2>8. \/ Current(r) /\ phase' = "uploading" /\ on' = run[r].video /\ control' = r
        \/ ~Current(r) /\ UNCHANGED hook
    BY <2>6 DEF Show, hook
  <2>9. Typed'
    <3>1. run' \in [Runs -> RunType]  BY <2>2, <2>3, <2>4
    <3>2. phase' \in {"idle", "uploading", "error"} /\ on' \in Videos \cup {0} /\ control' \in Runs \cup {0}
      BY <2>8, <1>0, <1>2 DEF Typed, hook
    <3> QED  BY <3>1, <3>2, <1>0, <1>3 DEF Typed, page, server
  <2>10. Whose' /\ Past' /\ Alone'  BY <2>3, <2>5, <1>1, <1>3 DEF Whose, Past, Alone, page
  <2>11. Closed'  BY <2>8, <1>3 DEF Closed, page, Current, hook
  <2>12. Reached'
    <3> SUFFICES ASSUME mishap = "none" PROVE Reached'  BY <1>3 DEF Reached
    <3>1. visit' = visit /\ open' = open  BY <1>3 DEF page
    <3>2. CASE Current(r) /\ phase' = "uploading" /\ on' = run[r].video /\ control' = r
      <4>1. \A q \in Runs : q # r /\ Goes(run[q]) => run[q].visit # visit  BY <3>2, <1>1 DEF Alone, Current
      <4>2. \A q \in Runs : Sends(run[q]) => Goes(run[q])  BY DEF Sends
      <4> QED  BY <4>1, <4>2, <3>1, <3>2, <2>3, <2>5, Numbers DEF Reached, Current
    <3>3. CASE ~Current(r) /\ UNCHANGED hook
      <4>1. control # r  BY <1>1, Numbers DEF Reached
      <4>2. control \in Runs \cup {0}  BY <1>0 DEF Typed
      <4>3. control # 0 => run'[control] = run[control]  BY <4>1, <4>2, <2>5
      <4>4. control' = control /\ phase' = phase /\ on' = on  BY <3>3 DEF hook
      <4>5. open => \A q \in Runs : Sends(run'[q]) /\ run'[q].visit = visit => control = q
        BY <3>3, <2>3, <2>5 DEF Reached, Current
      <4>6. phase = "error" => \A q \in Runs : Goes(run'[q]) => run'[q].visit # visit /\ run'[q].video # on
        BY <2>3, <2>5, <1>1 DEF Reached
      <4> QED  BY <4>3, <4>4, <4>5, <4>6, <3>1 DEF Reached
    <3> QED  BY <3>2, <3>3, <2>8
  <2>13. Begun'
    <3>1. row' = row /\ cancelled' = cancelled  BY <1>3 DEF server
    <3>2. on' = on \/ on' = run[r].video  BY <2>8 DEF hook
    <3> QED  BY <3>1, <3>2, <2>3, <2>5, <2>7 DEF Begun
  <2>14. Away'  BY <2>3, <2>5, <1>1, <1>3 DEF Away, server
  <2> QED  BY <2>9, <2>10, <2>11, <2>12, <2>13, <2>14
<1> QED  BY <1>4, <1>5

(* A run that is sending goes on at a. *)
LEMMA SendsOn ==
  ASSUME UInv, NEW r \in Runs, NEW y \in RunType, Sends(run[r]), Sends(y),
         y.video = run[r].video, y.visit = run[r].visit,
         run' = [run EXCEPT ![r] = y],
         UNCHANGED <<server, page, cancelled, mishap, control>>,
         UNCHANGED <<phase, on>> \/ Show(r, "uploading", run[r].video)
  PROVE  UInv'
<1>0. Typed  BY DEF UInv
<1>1. Goes(run[r]) /\ Goes(y) /\ row[run[r].video] # "absent"  BY DEF Sends, UInv, Begun, Began
<1>2. row' = row /\ held' = held /\ told' = told  BY DEF server
<1>3. row' \in [Videos -> {"absent", "uploading", "processing", "gone"}]
      /\ held' \in [Videos -> Nat] /\ told' \in [Videos -> Nat]
  BY <1>0, <1>2 DEF Typed
<1> QED  BY <1>1, <1>2, <1>3, Moves

LEMMA FailsKeeps ==
  ASSUME UInv, NEW r \in Runs, Sends(run[r]), Fails(r),
         UNCHANGED <<server, page, cancelled, mishap>>
  PROVE  UInv'
<1>1. Goes(run[r])  BY DEF Sends
<1> QED  BY <1>1, Ends DEF Fails, Ended, Show

LEMMA ArrivesKeeps == ASSUME UInv, NEW r \in Runs, Arrives(r) PROVE UInv'
<1>0. Typed /\ run[r] \in RunType /\ run \in [Runs -> RunType]  BY DEF UInv, Typed
<1>1. \A n : Onward(n) \in {"part", "finish"}  BY DEF Onward
<1>2. CASE PartArrives(r)
  <2>1. Sends(run[r]) /\ UNCHANGED <<server, page, cancelled, mishap>>  BY <1>2 DEF PartArrives, Sends, Goes
  <2>2. CASE run' = [run EXCEPT ![r].offset = @ + 1, ![r].failures = 0, ![r].answer = "none", ![r].at = Onward(run[r].offset + 1)]
             /\ Show(r, "uploading", run[r].video) /\ UNCHANGED control
    <3>1. PICK a \in {"part", "finish"} : a = Onward(run[r].offset + 1)  BY <1>1
    <3>2. run[r].offset \in Nat  BY <1>0 DEF RunType
    <3>3. PICK n \in Nat : n = run[r].offset + 1  BY <3>2
    <3>4. PICK y : y = [run[r] EXCEPT !.offset = n, !.failures = 0, !.answer = "none", !.at = a]  OBVIOUS
    <3>5. y \in RunType /\ y.at = a /\ y.video = run[r].video /\ y.visit = run[r].visit
      BY <3>4, <1>0 DEF RunType, Ats, Answers
    <3>6. run' = [run EXCEPT ![r] = y]  BY <2>2, <3>1, <3>3, <3>4, <1>0
    <3>7. Sends(y)  BY <3>5 DEF Sends, Goes
    <3> QED  BY <2>1, <2>2, <3>5, <3>6, <3>7, SendsOn
  <2>3. CASE run' = [run EXCEPT ![r].failures = @ + 1, ![r].answer = "none", ![r].at = "wait"] /\ UNCHANGED hook
    <3>1. run[r].failures \in Nat  BY <1>0 DEF RunType
    <3>2. PICK n \in Nat : n = run[r].failures + 1  BY <3>1
    <3>3. PICK y : y = [run[r] EXCEPT !.failures = n, !.answer = "none", !.at = "wait"]  OBVIOUS
    <3>4. y \in RunType /\ y.at = "wait" /\ y.video = run[r].video /\ y.visit = run[r].visit
      BY <3>3, <1>0 DEF RunType, Ats, Answers
    <3>5. run' = [run EXCEPT ![r] = y]  BY <2>3, <3>2, <3>3, <1>0
    <3>6. Sends(y)  BY <3>4 DEF Sends, Goes
    <3> QED  BY <2>1, <2>3, <3>4, <3>5, <3>6, SendsOn DEF hook
  <2>4. CASE Fails(r)  BY <2>1, <2>4, FailsKeeps
  <2> QED  BY <1>2, <2>2, <2>3, <2>4 DEF PartArrives
<1>3. CASE WaitEnds(r)
  <2>1. Sends(run[r]) /\ UNCHANGED <<server, hook, page, cancelled, mishap>>  BY <1>3 DEF WaitEnds, Sends, Goes
  <2>2. PICK y : y = [run[r] EXCEPT !.at = "ask"]  OBVIOUS
  <2>3. y \in RunType /\ y.at = "ask" /\ y.video = run[r].video /\ y.visit = run[r].visit
    BY <2>2, <1>0 DEF RunType, Ats
  <2>4. run' = [run EXCEPT ![r] = y]  BY <1>3, <2>2, <1>0 DEF WaitEnds
  <2>5. Sends(y)  BY <2>3 DEF Sends, Goes
  <2> QED  BY <2>1, <2>3, <2>4, <2>5, SendsOn DEF hook
<1>4. CASE AskArrives(r)
  <2>1. Sends(run[r]) /\ UNCHANGED <<server, page, cancelled, mishap>>  BY <1>4 DEF AskArrives, Sends, Goes
  <2>2. CASE run[r].answer = "ok"
    <3>1. run[r].video \in Videos  BY <2>1, <1>0 DEF UInv, Whose, Typed, RunType, Sends
    <3>2. PICK n \in Nat : n = told[run[r].video]  BY <3>1, <1>0 DEF Typed
    <3>3. PICK a \in {"part", "finish"} : a = Onward(n)  BY <1>1
    <3>4. PICK y : y = [run[r] EXCEPT !.offset = n, !.answer = "none", !.at = a]  OBVIOUS
    <3>5. y \in RunType /\ y.at = a /\ y.video = run[r].video /\ y.visit = run[r].visit
      BY <3>4, <1>0 DEF RunType, Ats, Answers
    <3>6. run' = [run EXCEPT ![r] = y]  BY <1>4, <2>2, <3>2, <3>3, <3>4, <1>0 DEF AskArrives
    <3>7. Sends(y)  BY <3>5 DEF Sends, Goes
    <3>8. Show(r, "uploading", run[r].video) /\ UNCHANGED control  BY <1>4, <2>2 DEF AskArrives
    <3> QED  BY <2>1, <3>5, <3>6, <3>7, <3>8, SendsOn
  <2>3. CASE run[r].answer # "ok"  BY <1>4, <2>1, <2>3, FailsKeeps DEF AskArrives
  <2> QED  BY <2>2, <2>3
<1>5. CASE FinishArrives(r)
  <2>1. Sends(run[r]) /\ Goes(run[r]) /\ UNCHANGED <<server, page, cancelled, mishap>>
    BY <1>5 DEF FinishArrives, Sends, Goes
  <2>2. CASE Fails(r)  BY <2>1, <2>2, FailsKeeps
  <2>3. CASE Ended(r) /\ Show(r, "idle", 0)  BY <2>1, <2>3, Ends DEF Ended, Show
  <2> QED  BY <1>5, <2>2, <2>3 DEF FinishArrives
<1> QED  BY <1>2, <1>3, <1>4, <1>5, CreateArrivesKeeps DEF Arrives

-----------------------------------------------------------------------------
(* A run begins on the page; the story goes on if no other goes there or    *)
(* with its video.                                                          *)
LEMMA Begins ==
  ASSUME UInv, open, NEW r \in Runs, ~Goes(run[r]), NEW v \in Videos, NEW y \in RunType,
         Goes(y), y.video = v, y.visit = visit, run' = [run EXCEPT ![r] = y],
         UNCHANGED <<server, page>>,
         mishap' = "overlap" \/ (mishap' = mishap /\ ~Overlaps(r, v)),
         mishap = "none",
         Began(y) => row[v] # "absent",
         \/ ~Sends(y) /\ phase = "idle" /\ row[v] = "absent" /\ UNCHANGED <<hook, cancelled>>
         \/ Sends(y) /\ phase' = "uploading" /\ on' = v /\ control' = r /\ cancelled' = cancelled \ {v}
  PROVE  UInv'
<1> USE DEF UInv
<1>1. run'[r] = y /\ \A q \in Runs \ {r} : run'[q] = run[q]  BY DEF Typed
<1>2. v # 0 /\ r # 0  BY Numbers
<1>3. Typed'
  <2>1. run' \in [Runs -> RunType]  BY DEF Typed
  <2> QED  BY <2>1 DEF Typed, page, server, hook
<1>4. Whose'  BY <1>1, <1>2 DEF Whose
<1>5. Past'
  <2>1. visit \in Nat /\ visit' = visit  BY DEF Typed, page
  <2>2. visit <= visit  BY <2>1
  <2> QED  BY <1>1, <2>1, <2>2 DEF Past
<1>6. Closed'  BY DEF Closed, page
<1>7. ASSUME mishap' = "none"
      PROVE  \A q \in Runs : q # r /\ Goes(run[q]) => run[q].visit # visit /\ run[q].video # v
  BY <1>7 DEF Overlaps, Going, Goes
<1>8. Alone'  BY <1>1, <1>7 DEF Alone, page
<1>9. Reached'
  <2> SUFFICES ASSUME mishap' = "none" PROVE Reached'  BY DEF Reached
  <2>1. visit' = visit /\ open' = open  BY DEF page
  <2>2. \A q \in Runs : Sends(run'[q]) => Goes(run'[q])  BY DEF Sends
  <2>3. \A q \in Runs : q # r /\ Goes(run'[q]) => run'[q].visit # visit  BY <1>1, <1>7
  <2>4. CASE ~Sends(y) /\ phase = "idle" /\ UNCHANGED hook
    <3>1. control' = 0 /\ phase' = "idle"  BY <2>4 DEF hook, Reached
    <3> QED  BY <3>1, <2>1, <2>2, <2>3, <2>4, <1>1 DEF Reached
  <2>5. CASE Sends(y) /\ phase' = "uploading" /\ on' = v /\ control' = r
    BY <2>5, <2>1, <2>2, <2>3, <1>1, <1>2 DEF Reached
  <2> QED  BY <2>4, <2>5
<1>10. Begun'
  <2>1. row' = row  BY DEF server
  <2>2. on' = on \/ (on' = v /\ Sends(y))  BY DEF hook
  <2>3. Sends(y) => Began(y)  BY DEF Began
  <2>4. cancelled' \subseteq cancelled  OBVIOUS
  <2> QED  BY <2>1, <2>2, <2>3, <2>4, <1>1 DEF Begun
<1>11. Away'
  <2> SUFFICES ASSUME mishap' = "none" PROVE Away'  BY DEF Away
  <2>1. row' = row /\ cancelled' \subseteq cancelled  BY DEF server
  <2>2. v \notin cancelled'  BY DEF Begun
  <2> QED  BY <2>1, <2>2, <1>1 DEF Away
<1> QED  BY <1>3, <1>4, <1>5, <1>6, <1>8, <1>9, <1>10, <1>11

LEMMA StartKeeps == ASSUME UInv, NEW r \in Runs, Start(r) PROVE UInv'
<1>0. Typed /\ open /\ mishap = "none"  BY DEF UInv, Start, Acts
<1>1. PICK v \in Videos :
        /\ Unused(v)
        /\ run' = [run EXCEPT ![r] = [NoRun EXCEPT !.at = "create", !.video = v, !.visit = visit]]
        /\ mishap' = IF Overlaps(r, v) THEN FirstMishap("overlap") ELSE mishap
  BY DEF Start
<1>2. PICK y : y = [NoRun EXCEPT !.at = "create", !.video = v, !.visit = visit]  OBVIOUS
<1>3. y \in RunType /\ y.at = "create" /\ y.video = v /\ y.visit = visit
  BY <1>2, <1>0, NoRunType DEF RunType, Ats, Typed
<1>4. Goes(y) /\ ~Sends(y) /\ ~Began(y)  BY <1>3 DEF Goes, Sends, Began
<1>5. ~Goes(run[r])  BY DEF Start, Next0, Goes
<1>6. phase = "idle" /\ row[v] = "absent" /\ UNCHANGED <<hook, cancelled, server, page>>
  BY <1>1 DEF Start, Unused
<1>7. run' = [run EXCEPT ![r] = y]  BY <1>1, <1>2
<1>8. mishap' = "overlap" \/ (mishap' = mishap /\ ~Overlaps(r, v))  BY <1>0, <1>1 DEF FirstMishap
<1> QED  BY <1>0, <1>3, <1>4, <1>5, <1>6, <1>7, <1>8, Begins

LEMMA ResumeKeeps == ASSUME UInv, NEW r \in Runs, Resume(r) PROVE UInv'
<1>0. Typed /\ open /\ mishap = "none" /\ Size \in Nat  BY Numbers DEF UInv, Resume, Acts
<1>1. PICK v \in Videos, n \in 0..Size :
        /\ Resumable(v)
        /\ run' = [run EXCEPT ![r] = [NoRun EXCEPT !.at = Onward(n), !.video = v, !.offset = n, !.visit = visit]]
        /\ phase' = "uploading" /\ on' = v
        /\ cancelled' = cancelled \ {v}
        /\ mishap' = IF Overlaps(r, v) THEN FirstMishap("overlap") ELSE mishap
  BY DEF Resume
<1>2. PICK a \in {"part", "finish"} : a = Onward(n)  BY DEF Onward
<1>3. PICK y : y = [NoRun EXCEPT !.at = a, !.video = v, !.offset = n, !.visit = visit]  OBVIOUS
<1>4. n \in Nat  BY <1>0
<1>5. y \in RunType /\ y.at = a /\ y.video = v /\ y.visit = visit
  BY <1>3, <1>4, <1>0, NoRunType DEF RunType, Ats, Typed
<1>6. Goes(y) /\ Sends(y)  BY <1>5 DEF Goes, Sends
<1>7. ~Goes(run[r])  BY DEF Resume, Next0, Goes
<1>8. row[v] # "absent"  BY <1>1, Numbers DEF Resumable, UInv, Begun
<1>9. run' = [run EXCEPT ![r] = y]  BY <1>1, <1>2, <1>3
<1>10. mishap' = "overlap" \/ (mishap' = mishap /\ ~Overlaps(r, v))  BY <1>0, <1>1 DEF FirstMishap
<1>11. control' = r /\ UNCHANGED <<server, page>>  BY DEF Resume
<1> QED  BY <1>0, <1>1, <1>5, <1>6, <1>7, <1>8, <1>9, <1>10, <1>11, Begins

(* No run changes, and the card shows nothing new or an error. *)
LEMMA ResumeOtherFileKeeps == ASSUME UInv, ResumeOtherFile PROVE UInv'
<1> USE DEF UInv
<1>0. open /\ mishap = "none" /\ UNCHANGED <<server, run, control, page, cancelled>>  BY DEF ResumeOtherFile, Acts
<1>1. PICK v \in Videos :
        /\ Resumable(v) /\ phase' = "error" /\ on' = v
        /\ mishap' = IF Overlaps(0, v) THEN FirstMishap("other file") ELSE mishap
  BY DEF ResumeOtherFile
<1>2. mishap' = "other file" \/ (mishap' = "none" /\ ~Overlaps(0, v))  BY <1>0, <1>1 DEF FirstMishap
<1>3. row[v] # "absent"  BY <1>1, Numbers DEF Resumable, Begun
<1>4. Typed' /\ Whose' /\ Past' /\ Closed' /\ Alone'
  <2>1. Typed'  BY <1>0, <1>1, <1>2 DEF Typed, server, page
  <2> QED  BY <2>1, <1>0 DEF Whose, Past, Closed, Alone, page
<1>5. Begun' /\ Away'  BY <1>0, <1>1, <1>3 DEF Begun, Away, server
<1>6. Reached'
  <2> SUFFICES ASSUME mishap' = "none" PROVE Reached'  BY DEF Reached
  <2>1. \A q \in Runs : Goes(run[q]) => run[q].visit # visit /\ run[q].video # v
    BY <1>2, Numbers DEF Overlaps, Going, Goes
  <2>2. control = 0
    <3>1. control # 0 => control \in Runs /\ Goes(run[control]) /\ run[control].visit = visit
      BY <1>0 DEF Reached, Typed, Sends
    <3> QED  BY <2>1, <3>1
  <2>3. \A q \in Runs : Sends(run[q]) => Goes(run[q])  BY DEF Sends
  <2> QED  BY <2>1, <2>2, <2>3, <1>0, <1>1 DEF Reached, page
<1> QED  BY <1>4, <1>5, <1>6

LEMMA CancelKeeps == ASSUME UInv, Cancel PROVE UInv'
<1> USE DEF UInv
<1>0. /\ open /\ mishap = "none" /\ UNCHANGED page
      /\ phase \in {"uploading", "error"} /\ phase' = "idle" /\ on' = 0
  BY DEF Cancel, Acts
<1>1. /\ cancelled' \subseteq cancelled \cup {on}
      /\ on \in cancelled' => on \in cancelled \/ (on # 0 /\ row[on] # "processing")
      /\ 0 \notin cancelled'
  <2>1. 0 \notin cancelled  BY Numbers DEF Typed
  <2> QED  BY <2>1 DEF Cancel, Cancelled
<1>2. cancelled' \subseteq Videos  BY <1>1 DEF Typed
<1>3. \A w \in cancelled' : row[w] # "absent" /\ row[w] # "processing"  BY <1>0, <1>1 DEF Begun, Away
<1>4. CASE control = 0
  <2>1. UNCHANGED <<server, run, control, mishap>>  BY <1>4 DEF Cancel
  <2>2. phase = "error"  BY <1>0, <1>4 DEF Reached
  <2>3. \A r \in Runs : Goes(run[r]) => run[r].visit # visit /\ run[r].video # on  BY <1>0, <2>2 DEF Reached
  <2>4. Typed' /\ Whose' /\ Past' /\ Closed' /\ Alone'
    <3>1. Typed'  BY <1>0, <1>2, <2>1 DEF Typed, server, page
    <3> QED  BY <3>1, <1>0, <1>4, <2>1 DEF Whose, Past, Closed, Alone, page
  <2>5. Reached'
    <3>1. \A q \in Runs : Sends(run[q]) => Goes(run[q])  BY DEF Sends
    <3> QED  BY <3>1, <1>0, <1>4, <2>1, <2>3 DEF Reached, page
  <2>6. Begun' /\ Away'  BY <1>0, <1>1, <1>3, <2>1, <2>3 DEF Begun, Away, server
  <2> QED  BY <2>4, <2>5, <2>6
<1>5. CASE control # 0
  <2>1. control \in Runs /\ Sends(run[control]) /\ Goes(run[control]) /\ run[control].visit = visit /\ run[control].video = on
    BY <1>0, <1>5 DEF Reached, Typed, Sends
  <2>2. on \in Videos /\ row' = row /\ held' \in [Videos -> Nat] /\ told' \in [Videos -> Nat]
    <3>1. on \in Videos  BY <2>1 DEF Whose, Typed
    <3>2. held[on] \in Nat  BY <3>1 DEF Typed
    <3>3. PICK n \in Nat : n = held[on] + 1  BY <3>2
    <3>4. row' = row /\ (held' = held \/ held' = [held EXCEPT ![on] = n]) /\ (told' = told \/ told' = [told EXCEPT ![on] = n])
      BY <1>5, <2>1, <3>3 DEF Cancel, server
    <3> QED  BY <3>1, <3>4 DEF Typed
  <2>3. CASE Stoppable(control)
    <3>1. run' = [run EXCEPT ![control] = Over] /\ control' = 0 /\ mishap' = mishap  BY <1>5, <2>3 DEF Cancel
    <3>2. run'[control] = Over /\ \A q \in Runs \ {control} : run'[q] = run[q]  BY <2>1, <3>1 DEF Typed
    <3>3. \A q \in Runs : Goes(run'[q]) => /\ q # control /\ run'[q] = run[q]
                                            /\ run[q].visit # visit /\ run[q].video # on
      BY <3>2, <2>1, <1>0, NoRunType DEF Alone
    <3>4. \A q \in Runs : (Sends(run'[q]) => Goes(run'[q])) /\ (Began(run'[q]) => Goes(run'[q]))
      BY DEF Sends, Began, Goes
    <3>5. Typed'
      <4>1. run' \in [Runs -> RunType]  BY <2>1, <3>1, NoRunType DEF Typed
      <4> QED  BY <4>1, <1>0, <1>2, <2>2, <3>1 DEF Typed, page
    <3>6. Past'
      <4>1. visit \in Nat /\ Over.visit = 0  BY NoRunType DEF Typed
      <4>2. Over.visit <= visit  BY <4>1
      <4> QED  BY <4>2, <3>2, <1>0 DEF Past, page
    <3>7. Whose' /\ Closed' /\ Alone'  BY <3>3, <3>1, <1>0 DEF Whose, Closed, Alone, page
    <3>8. Reached'  BY <3>1, <3>3, <3>4, <1>0 DEF Reached, page
    <3>9. Begun'  BY <3>3, <3>4, <1>0, <1>3, <2>2 DEF Begun
    <3>10. Away'  BY <3>3, <1>0, <1>1, <1>3, <2>2 DEF Away
    <3> QED  BY <3>5, <3>6, <3>7, <3>8, <3>9, <3>10
  <2>4. CASE ~Stoppable(control)
    <3>1. run' = [run EXCEPT ![control].aborted = TRUE] /\ mishap' = "late cancel" /\ control' = control
      BY <1>0, <1>5, <2>4 DEF Cancel, FirstMishap
    <3>2. PICK y : y = [run[control] EXCEPT !.aborted = TRUE]  OBVIOUS
    <3>3. run[control] \in RunType  BY <2>1 DEF Typed
    <3>4. y \in RunType /\ y.at = run[control].at /\ y.answer = run[control].answer
          /\ y.video = run[control].video /\ y.visit = run[control].visit
      BY <3>2, <3>3 DEF RunType
    <3>5. run' = [run EXCEPT ![control] = y]  BY <3>1, <3>2, <2>1 DEF Typed
    <3>6. run'[control] = y /\ \A q \in Runs \ {control} : run'[q] = run[q]  BY <3>5, <2>1 DEF Typed
    <3>7. Typed'
      <4>1. run' \in [Runs -> RunType]  BY <2>1, <3>4, <3>5 DEF Typed
      <4> QED  BY <4>1, <1>0, <1>2, <2>2, <3>1 DEF Typed, page
    <3>8. Whose' /\ Past' /\ Closed'  BY <3>4, <3>6, <1>0, <2>1 DEF Whose, Past, Closed, page
    <3>9. Begun'  BY <3>4, <3>6, <1>0, <1>3, <2>1, <2>2 DEF Begun, Began, Sends
    <3>10. Alone' /\ Reached' /\ Away'  BY <3>1 DEF Alone, Reached, Away
    <3> QED  BY <3>7, <3>8, <3>9, <3>10
  <2> QED  BY <2>3, <2>4
<1> QED  BY <1>4, <1>5

LEMMA LeaveKeeps == ASSUME UInv, Leave PROVE UInv'
<1> USE DEF UInv
<1>1. /\ open' = FALSE /\ phase' = "idle" /\ on' = 0 /\ control' = 0
      /\ UNCHANGED <<server, run, visit, cancelled, mishap>>
  BY DEF Leave
<1>2. Typed'  BY <1>1 DEF Typed, server
<1>3. Whose' /\ Past' /\ Closed' /\ Alone'  BY <1>1 DEF Whose, Past, Closed, Alone
<1>4. Reached' /\ Begun' /\ Away'  BY <1>1 DEF Reached, Begun, Away, server
<1> QED  BY <1>2, <1>3, <1>4

LEMMA ReturnKeeps == ASSUME UInv, Return PROVE UInv'
<1> USE DEF UInv
<1>1. ~open /\ open' = TRUE /\ visit' = visit + 1 /\ UNCHANGED <<server, run, hook, cancelled, mishap>>  BY DEF Return
<1>2. visit \in Nat /\ \A r \in Runs : run[r].visit \in Nat  BY DEF Typed, RunType
<1>3. Typed'
  <2>1. visit' \in Nat  BY <1>1, <1>2
  <2> QED  BY <2>1, <1>1 DEF Typed, server, hook
<1>4. \A r \in Runs : run[r].visit <= visit' /\ run[r].visit # visit'  BY <1>1, <1>2 DEF Past
<1>5. phase' = "idle" /\ on' = 0 /\ control' = 0  BY <1>1 DEF Closed, hook
<1>6. Whose' /\ Past' /\ Closed' /\ Alone'  BY <1>1, <1>4, <1>5 DEF Whose, Past, Closed, Alone
<1>7. Reached' /\ Begun' /\ Away'  BY <1>1, <1>4, <1>5 DEF Reached, Begun, Away, server
<1> QED  BY <1>3, <1>6, <1>7

LEMMA DismissKeeps == ASSUME UInv, Dismiss PROVE UInv'
<1> USE DEF UInv
<1>1. phase = "error" /\ phase' = "idle" /\ UNCHANGED <<server, run, on, control, page, cancelled, mishap>>  BY DEF Dismiss
<1>2. Typed'  BY <1>1 DEF Typed, server, page
<1>3. Whose' /\ Past' /\ Closed' /\ Alone'  BY <1>1 DEF Whose, Past, Closed, Alone, page
<1>4. Reached' /\ Begun' /\ Away'  BY <1>1 DEF Reached, Begun, Away, server, page
<1> QED  BY <1>2, <1>3, <1>4

(* The button of the list is a request; the server deletes whenever it comes. *)
LEMMA DeletionsKeep == ASSUME UInv, NEW v \in Videos, RemoveVideo(v) \/ DeleteHandled(v) PROVE UInv'
<1> USE DEF UInv
<1>1. UNCHANGED <<held, told, run, hook, page, cancelled, mishap>>  BY DEF RemoveVideo, DeleteHandled, server
<1>2. row' = row \/ row' = [row EXCEPT ![v] = "gone"]  BY DEF RemoveVideo, DeleteHandled, server
<1>3. row' \in [Videos -> {"absent", "uploading", "processing", "gone"}]
      /\ \A w \in Videos : row'[w] = row[w] \/ row'[w] = "gone"
  BY <1>2 DEF Typed
<1>4. Typed'  BY <1>1, <1>3 DEF Typed, hook, page
<1>5. Whose' /\ Past' /\ Closed' /\ Alone' /\ Reached'
  BY <1>1 DEF Whose, Past, Closed, Alone, Reached, hook, page
<1>6. Away'  BY <1>1, <1>3 DEF Away, Typed
<1>7. Begun'
  <2>1. \A r \in Runs : Began(run[r]) => run[r].video \in Videos
    BY DEF Began, Sends, Goes, Whose, Typed, RunType
  <2> QED  BY <2>1, <1>1, <1>3 DEF Begun, Typed, hook
<1> QED  BY <1>4, <1>5, <1>6, <1>7

LEMMA UInvNext == ASSUME UInv, [UploadNext]_uploadVars PROVE UInv'
<1>1. CASE UNCHANGED uploadVars
  BY <1>1 DEF UInv, uploadVars, Typed, Whose, Past, Closed, Alone, Reached, Begun, Away, server, hook, page
<1>2. CASE UploadNext
  BY <1>2, StartKeeps, ResumeKeeps, HandledKeeps, ArrivesKeeps, DeletionsKeep, ResumeOtherFileKeeps, CancelKeeps,
     DismissKeeps, LeaveKeeps, ReturnKeeps DEF UploadNext
<1> QED  BY <1>1, <1>2

LEMMA AlwaysUInv == UploadSpec => []UInv
BY InitUInv, UInvNext, PTL DEF UploadSpec

-----------------------------------------------------------------------------
(* What the upload card shows is what its Cancel reaches, and what is sent   *)
(* from this page is shown, for any uploads, runs, losses and visits, until *)
(* one of the mishaps the hook is not made for (use-video-upload.ts).        *)
THEOREM ShownIsReached == UploadSpec => []ShownIsControlled
<1>1. ASSUME UInv PROVE ShownIsControlled
  <2> SUFFICES ASSUME mishap = "none", open PROVE ShownIsControlled  BY DEF ShownIsControlled
  <2>1. ASSUME phase = "uploading" PROVE control \in Going /\ run[control].video = on
    BY <1>1, <2>1 DEF UInv, Reached, Typed, Sends, Goes, Going
  <2>2. ASSUME NEW r \in Going, run[r].visit = visit, run[r].at \notin {"create", "created"}
        PROVE phase = "uploading" /\ control = r
    <3>1. r \in Runs /\ Sends(run[r])  BY <2>2 DEF Going, Sends, Goes
    <3>2. control = r /\ r # 0  BY <3>1, <1>1, <2>2, Numbers DEF UInv, Reached
    <3> QED  BY <3>2, <1>1 DEF UInv, Reached
  <2> QED  BY <2>1, <2>2 DEF ShownIsControlled
<1> QED  BY <1>1, AlwaysUInv, PTL

(* An upload that was cancelled before the server had it whole, and was not *)
(* taken up again, is never published, even when its deletion is lost       *)
(* (cancel, use-video-upload.ts).                                           *)
THEOREM CancelledIsNotPublished == UploadSpec => []CancelledStaysAway
<1>1. UInv => CancelledStaysAway  BY DEF UInv, Away, CancelledStaysAway
<1> QED  BY <1>1, AlwaysUInv, PTL

-----------------------------------------------------------------------------
(* WebCache *)

Shaped ==
  /\ entry = [data |-> entry.data, for |-> entry.for, stale |-> entry.stale]
  /\ fetch = [at |-> fetch.at, version |-> fetch.version, for |-> fetch.for, late |-> fetch.late]

(* An entry, and a request, that may be there while w is signed in *)
Fits(e, w) == e.data # None => e.for \in {w, Guest}
Asks(f, w) == f.at # "idle" => f.for \in {w, Guest}

Own == query \in Personal /\ ~outlived => Fits(entry, who) /\ Asks(fetch, who)

OInv == Shaped /\ Own

ShapeOfEntry(e) == e = [data |-> e.data, for |-> e.for, stale |-> e.stale]
ShapeOfFetch(f) == f = [at |-> f.at, version |-> f.version, for |-> f.for, late |-> f.late]

(* A new request is of whoever is signed in. *)
LEMMA AskedIs ==
  ASSUME NEW w
  PROVE  /\ ShapeOfFetch(Asked(w))
         /\ query \in Personal => Asks(Asked(w), w)
<1>1. Asked(w) = [at |-> "asked", version |-> None, for |-> Asker(w), late |-> "none"]  BY DEF Asked
<1>2. ShapeOfFetch(Asked(w))  BY <1>1 DEF ShapeOfFetch
<1>3. Asked(w).for = Asker(w)  BY <1>1
<1>4. query \in Personal => Asker(w) = w  BY DEF Asker
<1> QED  BY <1>2, <1>3, <1>4 DEF Asks

LEMMA MountedIs ==
  ASSUME NEW e, NEW f, NEW p, NEW w, ShapeOfFetch(f)
  PROVE  /\ ShapeOfFetch(Mounted(e, f, p, w))
         /\ query \in Personal /\ Asks(f, w) => Asks(Mounted(e, f, p, w), w)
<1>1. Mounted(e, f, p, w) = Asked(w) \/ Mounted(e, f, p, w) = f  BY DEF Mounted
<1> QED  BY <1>1, AskedIs

LEMMA RefetchedIs ==
  ASSUME NEW e, NEW f, ShapeOfFetch(f)
  PROVE  /\ ShapeOfFetch(Refetched(e, f))
         /\ query \in Personal /\ Asks(f, who) => Asks(Refetched(e, f), who)
<1>1. CASE Refetched(e, f) = Asked(who)  BY <1>1, AskedIs
<1>2. CASE Refetched(e, f) = f  BY <1>2
<1>3. ASSUME NEW l, Refetched(e, f) = [f EXCEPT !.late = l]
      PROVE  /\ ShapeOfFetch(Refetched(e, f))
             /\ Asks(f, who) => Asks(Refetched(e, f), who)
  BY <1>3 DEF ShapeOfFetch, Asks
<1>4. \/ Refetched(e, f) = Asked(who) \/ Refetched(e, f) = f
      \/ \E l : Refetched(e, f) = [f EXCEPT !.late = l]
  BY DEF Refetched
<1> QED  BY <1>1, <1>2, <1>3, <1>4

LEMMA OvertakenIs ==
  ASSUME NEW r, NEW v, ShapeOfFetch(fetch)
  PROVE  ShapeOfFetch(Overtaken(r, v)) /\ (Asks(fetch, who) => Asks(Overtaken(r, v), who))
BY DEF Overtaken, ShapeOfFetch, Asks

LEMMA InvalidIs ==
  ASSUME NEW e, NEW w, ShapeOfEntry(e)
  PROVE  ShapeOfEntry(Invalid(e)) /\ (Fits(e, w) => Fits(Invalid(e), w))
BY DEF Invalid, ShapeOfEntry, Fits

LEMMA EmptyIs ==
  ASSUME NEW w
  PROVE  ShapeOfEntry(Empty) /\ Fits(Empty, w) /\ ShapeOfFetch(Idle) /\ Asks(Idle, w)
BY DEF Empty, ShapeOfEntry, Fits, Idle, ShapeOfFetch, Asks

LEMMA CachedIs ==
  ASSUME NEW v, NEW w
  PROVE  ShapeOfEntry(Cached(v, w)) /\ Cached(v, w).for = w
BY DEF Cached, ShapeOfEntry

LEMMA InitOwn == WebInit => OInv
<1> SUFFICES ASSUME WebInit PROVE OInv  OBVIOUS
<1>1. entry = Empty /\ fetch = Mounted(Empty, Idle, "home", who)  BY DEF WebInit
<1>2. ShapeOfFetch(fetch) /\ (query \in Personal => Asks(fetch, who))  BY <1>1, EmptyIs, MountedIs
<1>3. ShapeOfEntry(entry) /\ Fits(entry, who)  BY <1>1, EmptyIs
<1> QED  BY <1>2, <1>3 DEF OInv, Own, Shaped, ShapeOfFetch, ShapeOfEntry

(* What every step has to show *)
LEMMA Kept ==
  ASSUME ShapeOfEntry(entry'), ShapeOfFetch(fetch'),
         query' \in Personal /\ ~outlived' => Fits(entry', who') /\ Asks(fetch', who')
  PROVE  OInv'
BY DEF OInv, Own, Shaped, ShapeOfEntry, ShapeOfFetch, Fits, Asks

LEMMA AnswerOwn == ASSUME OInv, NEW j \in jobs, Answer(j) PROVE OInv'
<1> USE DEF OInv
<1>1. ShapeOfEntry(entry) /\ ShapeOfFetch(fetch)  BY DEF Shaped, ShapeOfEntry, ShapeOfFetch
<1>2. who' = who /\ query' = query  BY DEF Answer
<1>3. outlived' = (outlived \/ (j.does.sets /\ j.by # who))  BY DEF Answer
<1>4. CASE j.does.sets
  <2>1. entry' = Cached(j.version, j.by)  BY <1>4 DEF Answer
  <2>2. \E v : fetch' = Overtaken("set", v)  BY <1>4 DEF Answer
  <2>3. ShapeOfEntry(entry') /\ entry'.for = j.by  BY <2>1, CachedIs
  <2>4. ShapeOfFetch(fetch') /\ (Asks(fetch, who) => Asks(fetch', who))  BY <1>1, <2>2, OvertakenIs
  <2>5. ~outlived' => j.by = who  BY <1>3, <1>4
  <2>6. ~outlived' => ~outlived  BY <1>3
  <2> QED  BY <1>2, <2>3, <2>4, <2>5, <2>6, Kept DEF Own, Fits
<1>5. CASE ~j.does.sets
  <2>1. ~outlived' => ~outlived  BY <1>3
  <2>2. CASE j.does.refreshes
    <3>1. entry' = Invalid(entry)  BY <1>5, <2>2 DEF Answer
    <3>2. \E p : fetch' = Mounted(entry', Refetched(entry, fetch), p, who)  BY <1>5, <2>2 DEF Answer
    <3>3. ShapeOfEntry(entry') /\ (Fits(entry, who) => Fits(entry', who))  BY <1>1, <3>1, InvalidIs
    <3>4. /\ ShapeOfFetch(Refetched(entry, fetch))
          /\ query \in Personal /\ Asks(fetch, who) => Asks(Refetched(entry, fetch), who)
      BY <1>1, RefetchedIs
    <3>5. ShapeOfFetch(fetch') /\ (query \in Personal /\ Asks(fetch, who) => Asks(fetch', who))
      BY <3>2, <3>4, MountedIs
    <3> QED  BY <1>2, <2>1, <3>3, <3>5, Kept DEF Own
  <2>3. CASE ~j.does.refreshes
    <3>1. entry' = entry  BY <1>5, <2>3 DEF Answer
    <3>2. \E p, v : fetch' = Mounted(entry, Overtaken("gap", v), p, who)  BY <1>5, <2>3 DEF Answer
    <3>3. PICK p, v : fetch' = Mounted(entry, Overtaken("gap", v), p, who)  BY <3>2
    <3>4. /\ ShapeOfFetch(Overtaken("gap", v))
          /\ Asks(fetch, who) => Asks(Overtaken("gap", v), who)
      BY <1>1, OvertakenIs
    <3>5. ShapeOfFetch(fetch') /\ (query \in Personal /\ Asks(fetch, who) => Asks(fetch', who))
      BY <3>3, <3>4, MountedIs
    <3> QED  BY <1>1, <1>2, <2>1, <3>1, <3>5, Kept DEF Own
  <2> QED  BY <2>2, <2>3
<1> QED  BY <1>4, <1>5

LEMMA NextOwn == ASSUME OInv, [WebNext]_webVars PROVE OInv'
<1> USE DEF OInv
<1>1. ShapeOfEntry(entry) /\ ShapeOfFetch(fetch)  BY DEF Shaped, ShapeOfEntry, ShapeOfFetch
<1>2. ASSUME NEW p, Visit(p) PROVE OInv'
  <2>1. fetch' = Mounted(entry, fetch, p, who)  BY <1>2 DEF Visit
  <2>2. query' = query /\ outlived' = outlived /\ entry' = entry /\ who' = who  BY <1>2 DEF Visit
  <2> QED  BY <1>1, <2>1, <2>2, MountedIs, Kept DEF Own
<1>3. CASE \/ \E e \in Effects[query][place] : Press(e)
           \/ \E j \in jobs : Serve(j)
           \/ Elsewhere
           \/ UNCHANGED webVars
  <2>1. UNCHANGED <<query, who, entry, fetch, outlived>>  BY <1>3 DEF Press, Serve, Elsewhere, webVars
  <2> QED  BY <1>1, <2>1, Kept DEF Own
<1>4. CASE \E j \in jobs : Answer(j)  BY <1>4, AnswerOwn
<1>5. CASE Read
  <2>1. query' = query /\ outlived' = outlived /\ entry' = entry /\ who' = who  BY <1>5 DEF Read
  <2>2. fetch' = [fetch EXCEPT !.at = "read", !.version = truth] /\ fetch.at # "idle"  BY <1>5 DEF Read
  <2>3. ShapeOfFetch(fetch') /\ (Asks(fetch, who) => Asks(fetch', who))  BY <1>1, <2>2 DEF ShapeOfFetch, Asks
  <2> QED  BY <1>1, <2>1, <2>3, Kept DEF Own
<1>6. CASE FetchArrives
  <2>1. query' = query /\ outlived' = outlived /\ who' = who  BY <1>6 DEF FetchArrives
  <2>2. entry' = Cached(fetch.version, fetch.for) /\ fetch' = Idle /\ fetch.at # "idle"  BY <1>6 DEF FetchArrives
  <2>3. ShapeOfEntry(entry') /\ entry'.for = fetch.for  BY <2>2, CachedIs
  <2>4. Asks(fetch, who) => Fits(entry', who)  BY <2>2, <2>3 DEF Asks, Fits
  <2> QED  BY <2>1, <2>2, <2>3, <2>4, EmptyIs, Kept DEF Own
<1>7. CASE FetchFails
  <2>1. query' = query /\ outlived' = outlived /\ who' = who  BY <1>7 DEF FetchFails
  <2>2. entry' = Invalid(entry) /\ fetch' = Idle  BY <1>7 DEF FetchFails
  <2> QED  BY <1>1, <2>1, <2>2, InvalidIs, EmptyIs, Kept DEF Own
<1>8. CASE Ages
  <2>1. query' = query /\ outlived' = outlived /\ who' = who /\ fetch' = fetch  BY <1>8 DEF Ages
  <2>2. entry' = Invalid(entry)  BY <1>8 DEF Ages
  <2> QED  BY <1>1, <2>1, <2>2, InvalidIs, Kept DEF Own
<1>9. CASE Collected
  <2>1. query' = query /\ outlived' = outlived /\ who' = who /\ fetch' = fetch  BY <1>9 DEF Collected
  <2>2. entry' = Empty  BY <1>9 DEF Collected
  <2> QED  BY <1>1, <2>1, <2>2, EmptyIs, Kept DEF Own
<1>10. CASE Poll
  <2>1. query' = query /\ outlived' = outlived /\ who' = who /\ entry' = entry  BY <1>10 DEF Poll
  <2>2. fetch' = Asked(who)  BY <1>10 DEF Poll
  <2> QED  BY <1>1, <2>1, <2>2, AskedIs, Kept DEF Own
<1>11. CASE Hears
  <2>1. query' = query /\ outlived' = outlived /\ who' = who  BY <1>11 DEF Hears
  <2>2. \/ entry' = Invalid(entry) /\ fetch' = Refetched(entry, fetch)
        \/ entry' = entry /\ fetch' = fetch
    BY <1>11 DEF Hears
  <2>3. ShapeOfEntry(entry') /\ (Fits(entry, who) => Fits(entry', who))  BY <1>1, <2>2, InvalidIs
  <2>4. ShapeOfFetch(fetch') /\ (query \in Personal /\ Asks(fetch, who) => Asks(fetch', who))
    BY <1>1, <2>2, RefetchedIs
  <2> QED  BY <2>1, <2>3, <2>4, Kept DEF Own
<1>12. ASSUME NEW a, SignedIn(a), ShapeOfEntry(entry'), entry' = entry \/ entry'.for = a,
              fetch' = Mounted(entry', fetch, "home", a)
       PROVE  OInv'
  <2>1. query' = query /\ outlived' = outlived /\ who = Guest /\ who' = a  BY <1>12 DEF SignedIn
  <2>2. Asks(fetch, who) => Asks(fetch, a)  BY <2>1 DEF Asks
  <2>3. ShapeOfFetch(fetch') /\ (query \in Personal /\ Asks(fetch, who) => Asks(fetch', a))
    BY <1>1, <1>12, <2>2, MountedIs
  <2>4. Fits(entry, who) => Fits(entry', a)  BY <1>12, <2>1 DEF Fits
  <2> QED  BY <1>12, <2>1, <2>3, <2>4, Kept DEF Own
<1>13. ASSUME NEW a, LogsIn(a) \/ Registers(a) PROVE OInv'
  <2>1. SignedIn(a) /\ fetch' = Mounted(entry', fetch, "home", a)  BY <1>13 DEF LogsIn, Registers
  <2>2. entry' = entry \/ entry' = Cached(truth, a)  BY <1>13 DEF LogsIn, Registers
  <2>3. ShapeOfEntry(entry') /\ (entry' = entry \/ entry'.for = a)  BY <1>1, <2>2, CachedIs
  <2> QED  BY <1>12, <2>1, <2>3
<1>14. CASE SignOut
  <2>1. query' = query /\ who' = Guest  BY <1>14 DEF SignOut
  <2>2. entry' = Empty \/ entry' = Cached(truth, Guest)  BY <1>14 DEF SignOut
  <2>3. ShapeOfEntry(entry') /\ Fits(entry', Guest)  BY <2>2, EmptyIs, CachedIs DEF Fits
  <2>4. fetch' = Mounted(Empty, Idle, "home", Guest)  BY <1>14 DEF SignOut
  <2>5. ShapeOfFetch(fetch') /\ (query \in Personal => Asks(fetch', Guest))  BY <2>4, EmptyIs, MountedIs
  <2> QED  BY <2>1, <2>3, <2>5, Kept
<1>15. CASE SessionEnds
  <2>1. outlived' = TRUE /\ entry' = entry /\ fetch' = fetch  BY <1>15 DEF SessionEnds
  <2> QED  BY <1>1, <2>1, Kept
<1> QED
  BY <1>2, <1>3, <1>4, <1>5, <1>6, <1>7, <1>8, <1>9, <1>10, <1>11, <1>13, <1>14, <1>15 DEF WebNext

(* Signing out leaves nothing of an account for the next one: whatever was   *)
(* asked, answered, marked or pressed before, in any order, the cache shows  *)
(* nobody else's data, unless the session was lost or an answer came late.   *)
THEOREM OthersNeverShown == WebSpec => []NothingOfOthers
<1>1. OInv => NothingOfOthers  BY DEF OInv, Own, Fits, NothingOfOthers
<1> QED  BY <1>1, InitOwn, NextOwn, PTL DEF WebSpec

-----------------------------------------------------------------------------
(* WebCache: OwnChangesShown *)

(* The table of WebData: what button b changes, its answer refreshes or      *)
(* sets, but for the queries of Gaps; and it leads to a page.                *)
Good(b) ==
  /\ b.leads \in {"same", "setup", "channel"}
  /\ \A q \in Queries \ Gaps : Shows[q] \cap b.changes # {} => q \in b.sets \cup b.refreshes

AllGood(c) == \A b \in c.buttons : Good(b)

(* Each fact, and the queries that may show it *)
Showing(q, s) ==
  /\ "key" \in s => q = "streamKey"
  /\ "poll" \in s \/ "pinned" \in s \/ "settings" \in s => q = "chatState"
  /\ "mods" \in s => q = "moderators"
  /\ "bans" \in s => q = "bans"
  /\ "actions" \in s => q = "modActions"
  /\ "emotes" \in s => q \in {"chatState", "emotes"}
  /\ "announcements" \in s => q = "announcements"
  /\ "videos" \in s => q \in {"videos", "video", "allVideos", "search"}
  /\ "account" \in s => q = "me"
  /\ "prefs" \in s => q = "prefs"
  /\ "notices" \in s => q = "notifications"
  /\ "follows" \in s => q \in {"follow", "followed", "followers", "discover", "channels", "prefs"}
  /\ "comments" \in s => q \in {"byTime", "newest"}
  /\ "recordings" \in s => q \in {"recordings", "allRecordings", "search"}

Refreshing(changed, queries) == \A q \in Queries \ Gaps : Shows[q] \cap changed # {} => q \in queries

LEMMA ShowingBeside ==
  ASSUME NEW f, NEW g, \A q \in DOMAIN f : Showing(q, f[q]), \A q \in DOMAIN g : Showing(q, g[q])
  PROVE  \A q \in DOMAIN Beside(f, g) : Showing(q, Beside(f, g)[q])
BY DEF Beside

LEMMA ShowingIs == \A q \in Queries : Showing(q, Shows[q])
<1>1. \A q \in DOMAIN CommunitiesApi : Showing(q, CommunitiesApi[q])
  BY DEF CommunitiesApi, Showing
<1>2. \A q \in DOMAIN StreamingApi : Showing(q, StreamingApi[q])
  BY DEF StreamingApi, Showing
<1>3. \A q \in DOMAIN BrowseApi : Showing(q, BrowseApi[q])
  BY DEF BrowseApi, Showing
<1>4. \A q \in DOMAIN VideosApi : Showing(q, VideosApi[q])
  BY DEF VideosApi, Showing
<1>5. \A q \in DOMAIN RecordingsApi : Showing(q, RecordingsApi[q])
  BY DEF RecordingsApi, Showing
<1>6. \A q \in DOMAIN ChatApi : Showing(q, ChatApi[q])
  BY DEF ChatApi, Showing
<1>7. \A q \in DOMAIN AccountApi : Showing(q, AccountApi[q])
  BY DEF AccountApi, Showing
<1>8. \A q \in DOMAIN Shows : Showing(q, Shows[q])
  BY <1>1, <1>2, <1>3, <1>4, <1>5, <1>6, <1>7, ShowingBeside DEF Shows
<1> QED  BY <1>8 DEF Queries

LEMMA ReadingGood == ASSUME NEW q PROVE AllGood(Reading(q))
BY DEF Reading, Component, AllGood

LEMMA ButtonIs ==
  ASSUME NEW n, NEW changed, NEW queries, NEW more
  PROVE  /\ Button(n, changed, queries)
              = [name |-> n, needs |-> {}, changes |-> changed, refreshes |-> queries, sets |-> {},
                 leads |-> "same"]
         /\ Needing(Button(n, changed, queries), more)
              = [name |-> n, needs |-> more, changes |-> changed, refreshes |-> queries, sets |-> {},
                 leads |-> "same"]
         /\ Leading(Button(n, changed, queries), more)
              = [name |-> n, needs |-> {}, changes |-> changed, refreshes |-> queries, sets |-> {},
                 leads |-> more]
         /\ Setting(n, changed, queries)
              = [name |-> n, needs |-> {}, changes |-> changed, refreshes |-> {}, sets |-> queries,
                 leads |-> "same"]
BY DEF Button, Needing, Leading, Setting

(* A button that refreshes every query *)
LEMMA GoodAll ==
  ASSUME NEW n, NEW changed, NEW more, NEW p \in {"setup", "channel"}
  PROVE  /\ Good(Button(n, changed, Queries)) /\ Good(Needing(Button(n, changed, Queries), more))
         /\ Good(Leading(Button(n, changed, Queries), p))
BY ButtonIs DEF Good

LEMMA GoodSome ==
  ASSUME NEW n, NEW changed, NEW queries, NEW more, NEW p \in {"setup", "channel"},
         Refreshing(changed, queries)
  PROVE  /\ Good(Button(n, changed, queries)) /\ Good(Needing(Button(n, changed, queries), more))
         /\ Good(Leading(Button(n, changed, queries), p)) /\ Good(Setting(n, changed, queries))
BY ButtonIs DEF Good, Refreshing

LEMMA RefreshingIs ==
  /\ Refreshing({"key"}, {"streamKey"}) /\ Refreshing({"account"}, {"me"})
  /\ Refreshing({"poll", "actions"}, ChatQueries) /\ Refreshing({"pinned", "actions"}, ChatQueries)
  /\ Refreshing({"settings", "actions"}, ChatQueries)
  /\ Refreshing({"mods"}, {"moderators"})
  /\ Refreshing({"bans", "actions"}, {"bans"}) /\ Refreshing({"bans", "actions"}, {})
  /\ Refreshing({"emotes"}, {"emotes", "chatState"})
  /\ Refreshing({"announcements"}, {"announcements"})
  /\ Refreshing({"videos"}, {"videos"}) /\ Refreshing({"videos"}, {"videos", "video"})
  /\ Refreshing({"prefs"}, {"prefs"}) /\ Refreshing({"notices"}, {"notifications"})
  /\ Refreshing({"follows"}, {"follow", "followed", "discover"})
  /\ Refreshing({"comments"}, {"byTime", "newest"})
  /\ Refreshing({"recordings", "comments"}, {"recordings"})
BY ShowingIs DEF Refreshing, Showing, Gaps, ChatQueries

ReadingOnly ==
  {StudioFrame, StepsPanel, LivePage, VideosPanel, ChannelView, RecordingsSection, VideosSection,
   AnnouncementsList, FollowersList, RecordingWatch, VideoWatch, TopBar, GlobalSearch, HomeClient, HomeRail,
   FollowingStrip, FollowingView, ChannelBrowser, VideoBrowser, RecordingBrowser, SearchPage, AuthPreview,
   NotFoundContent}

RefreshingAll == {StudioStatus, ChannelDetailsForm, LinksEditor, BannerCard, DeleteChannel, CreateChannelForm}

RefreshingSome ==
  {SetupPanel, PollForm, PinnedCard, ChatModerationCard, ModeratorsPanel, AddModerator, BansPanel,
   EmoteUpload, EmoteGrid, AnnouncementsCard, VideoUploadCard, VideoRow, VideoEditForm, ProfileForm,
   AvatarEditor, StatusCard, IdentitySection, NotificationPrefsForm, FollowButton, ChatPanel,
   RecordingComments, DeleteRecordingButton, NotificationBell}

LEMMA ComponentsGood ==
  \A c \in ReadingOnly \cup RefreshingAll \cup RefreshingSome : AllGood(c)
<1>1. \A c \in ReadingOnly : AllGood(c)
  BY ReadingGood DEF ReadingOnly, StudioFrame, StepsPanel, LivePage, VideosPanel, ChannelView,
     RecordingsSection, VideosSection, AnnouncementsList, FollowersList, RecordingWatch, VideoWatch, TopBar,
     GlobalSearch, HomeClient, HomeRail, FollowingStrip, FollowingView, ChannelBrowser, VideoBrowser,
     RecordingBrowser, SearchPage, AuthPreview, NotFoundContent
<1>2. \A c \in RefreshingAll : AllGood(c)
  <2>1. AllGood(StudioStatus)  BY GoodAll DEF StudioStatus, AllGood, Component
  <2>2. AllGood(ChannelDetailsForm)  BY GoodAll DEF ChannelDetailsForm, AllGood, Component
  <2>3. AllGood(LinksEditor)  BY GoodAll DEF LinksEditor, AllGood, Component
  <2>4. AllGood(BannerCard)  BY GoodAll DEF BannerCard, AllGood, Component
  <2>5. AllGood(DeleteChannel)  BY GoodAll DEF DeleteChannel, AllGood, Component
  <2>6. AllGood(CreateChannelForm)  BY GoodAll DEF CreateChannelForm, AllGood, Component
  <2> QED  BY <2>1, <2>2, <2>3, <2>4, <2>5, <2>6 DEF RefreshingAll
<1>3. \A c \in RefreshingSome : AllGood(c)
  <2>1. AllGood(SetupPanel)  BY RefreshingIs, GoodSome DEF SetupPanel, AllGood, Component
  <2>2. AllGood(PollForm)  BY RefreshingIs, GoodSome DEF PollForm, AllGood, Component
  <2>3. AllGood(PinnedCard)  BY RefreshingIs, GoodSome DEF PinnedCard, AllGood, Component
  <2>4. AllGood(ChatModerationCard)  BY RefreshingIs, GoodSome DEF ChatModerationCard, AllGood, Component
  <2>5. AllGood(ModeratorsPanel)
    <3>1. Good(Needing(Button("remove moderator", {"mods"}, {"moderators"}), {"moderators"}))
      BY RefreshingIs, GoodSome
    <3> QED  BY <3>1 DEF ModeratorsPanel, AllGood, Component
  <2>6. AllGood(AddModerator)
    <3>1. Good(Needing(Button("add moderator", {"mods"}, {"moderators"}), {"followers"}))
      BY RefreshingIs, GoodSome
    <3> QED  BY <3>1 DEF AddModerator, AllGood, Component
  <2>7. AllGood(BansPanel)  BY RefreshingIs, GoodSome DEF BansPanel, AllGood, Component
  <2>8. AllGood(EmoteUpload)  BY RefreshingIs, GoodSome DEF EmoteUpload, AllGood, Component
  <2>9. AllGood(EmoteGrid)
    <3>1. Good(Needing(Button("remove emote", {"emotes"}, {"emotes", "chatState"}), {"emotes"}))
      BY RefreshingIs, GoodSome
    <3> QED  BY <3>1 DEF EmoteGrid, AllGood, Component
  <2>10. AllGood(AnnouncementsCard)  BY RefreshingIs, GoodSome DEF AnnouncementsCard, AllGood, Component
  <2>11. AllGood(VideoUploadCard)  BY RefreshingIs, GoodSome DEF VideoUploadCard, AllGood, Component
  <2>12. AllGood(VideoRow)  BY RefreshingIs, GoodSome DEF VideoRow, AllGood, Component
  <2>13. AllGood(VideoEditForm)
    <3>1. Good(Needing(Button("edit video", {"videos"}, {"videos", "video"}), {"videos"}))
      BY RefreshingIs, GoodSome
    <3> QED  BY <3>1 DEF VideoEditForm, AllGood, Component
  <2>14. AllGood(ProfileForm)  BY RefreshingIs, GoodSome DEF ProfileForm, AllGood, Component
  <2>15. AllGood(AvatarEditor)  BY RefreshingIs, GoodSome DEF AvatarEditor, AllGood, Component
  <2>16. AllGood(StatusCard)  BY RefreshingIs, GoodSome DEF StatusCard, AllGood, Component
  <2>17. AllGood(IdentitySection)  BY RefreshingIs, GoodSome DEF IdentitySection, AllGood, Component
  <2>18. AllGood(NotificationPrefsForm)  BY RefreshingIs, GoodSome DEF NotificationPrefsForm, AllGood, Component
  <2>19. AllGood(FollowButton)  BY RefreshingIs, GoodSome DEF FollowButton, SetFollowed, AllGood, Component
  <2>20. AllGood(ChatPanel)  BY RefreshingIs, GoodSome DEF ChatPanel, AllGood, Component
  <2>21. AllGood(RecordingComments)  BY RefreshingIs, GoodSome DEF RecordingComments, AllGood, Component
  <2>22. AllGood(DeleteRecordingButton)  BY RefreshingIs, GoodSome DEF DeleteRecordingButton, AllGood, Component
  <2>23. AllGood(NotificationBell)
    <3>1. Good(Needing(Button("mark read", {"notices"}, {"notifications"}), {"notifications"}))
      BY RefreshingIs, GoodSome
    <3> QED  BY <3>1 DEF NotificationBell, AllGood, Component
  <2> QED
    BY <2>1, <2>2, <2>3, <2>4, <2>5, <2>6, <2>7, <2>8, <2>9, <2>10, <2>11, <2>12, <2>13, <2>14, <2>15,
       <2>16, <2>17, <2>18, <2>19, <2>20, <2>21, <2>22, <2>23 DEF RefreshingSome
<1> QED  BY <1>1, <1>2, <1>3

PagesGood(f) == \A p \in DOMAIN f : \A c \in f[p] : AllGood(c)

LEMMA PagesBeside ==
  ASSUME NEW f, NEW g, PagesGood(f), PagesGood(g)
  PROVE  PagesGood(Beside(f, g))
BY DEF Beside, PagesGood

LEMMA AllPagesGood == PagesGood(Components) /\ {"home", "setup", "channel"} \subseteq Places
<1>1. \A c \in AppShell : AllGood(c)
  BY ComponentsGood DEF ReadingOnly, RefreshingSome, AppShell
<1>2. PagesGood(StudioPages)
  BY <1>1, ComponentsGood DEF PagesGood, StudioPages, Studio, ReadingOnly, RefreshingAll, RefreshingSome
<1>3. PagesGood(SettingsPages)
  BY <1>1, ComponentsGood DEF PagesGood, SettingsPages, ReadingOnly, RefreshingAll, RefreshingSome
<1>4. PagesGood(ChannelPages)
  BY <1>1, ComponentsGood DEF PagesGood, ChannelPages, ReadingOnly, RefreshingAll, RefreshingSome
<1>5. PagesGood(OtherPages)
  BY <1>1, ComponentsGood DEF PagesGood, OtherPages, ReadingOnly, RefreshingAll, RefreshingSome
<1>6. PagesGood(Components)
  BY <1>2, <1>3, <1>4, <1>5, PagesBeside DEF Components
<1>7. "home" \in DOMAIN OtherPages /\ "setup" \in DOMAIN StudioPages /\ "channel" \in DOMAIN ChannelPages
  BY DEF OtherPages, StudioPages, ChannelPages
<1>8. {"home", "setup", "channel"} \subseteq Places
  BY <1>7 DEF Places, Components, Beside
<1> QED  BY <1>6, <1>8

(* Only the queries of Gaps have a button that changes what they show and    *)
(* leaves them as they are.                                                  *)
LEMMA OnlyGaps ==
  ASSUME NEW q \in Queries, NEW p \in Places, NEW e \in Effects[q][p]
  PROVE  /\ e.sets \/ e.refreshes \/ (e.touches /\ q \in Gaps)
         /\ e.leads = "same" \/ e.leads \in Places
<1>1. Effects[q][p] = {x \in {Effect(q, b) : b \in Buttons[p]} : x.touches \/ x.refreshes \/ x.sets}
  BY DEF Effects
<1>2. PICK b \in Buttons[p] : e = Effect(q, b)
  BY <1>1
<1>3. PICK c \in Components[p] : b \in c.buttons
  BY DEF Buttons
<1>4. Good(b)
  BY <1>3, AllPagesGood DEF PagesGood, AllGood, Places
<1>5. /\ e.leads = b.leads /\ e.sets = (q \in b.sets) /\ e.refreshes = (q \in b.refreshes)
      /\ e.touches = (Shows[q] \cap b.changes # {})
  BY <1>2 DEF Effect
<1>6. e.touches \/ e.refreshes \/ e.sets
  BY <1>1
<1>7. b.leads = "same" \/ b.leads \in Places
  BY <1>4, AllPagesGood DEF Good
<1>8. e.sets \/ e.refreshes \/ (e.touches /\ q \in Gaps)
  BY <1>4, <1>5, <1>6 DEF Good
<1> QED  BY <1>5, <1>7, <1>8

Reasons == {"none", "first load", "hidden", "set", "order", "failed", "gap"}

(* A request f may be under way while the user has seen w, and the server is *)
(* at t: what it has read is that new, or it is known why not.               *)
RequestOk(f, w, t) ==
  /\ f.late \in Reasons \ {"order", "failed"} /\ (f.late = "gap" => query \in Gaps)
  /\ f.at = "read" => f.version \in Nat /\ f.version <= t /\ (f.late = "none" => f.version >= w)

(* A mutation under way, with the server at t *)
JobOk(j, t) ==
  /\ j = [id |-> j.id, does |-> j.does, at |-> j.at, version |-> j.version, by |-> j.by]
  /\ j.at = "done" => j.version \in Nat /\ j.version <= t
  /\ j.does.sets \/ j.does.refreshes \/ (j.does.touches /\ query \in Gaps)
  /\ j.does.leads = "same" \/ j.does.leads \in Places

Numbered ==
  /\ truth \in Nat /\ written \in Nat /\ written <= truth
  /\ entry.data \in Nat \cup {None}
  /\ \A j \in jobs : JobOk(j, truth)
  /\ why \in Reasons /\ (why = "gap" => query \in Gaps)
  /\ query \in Queries /\ place \in Places

(* What is older than the user's own change is marked, and asked for as soon *)
(* as somebody looks.                                                        *)
Marked(e, f, p, w, seen, reason) ==
  e.data # None /\ e.data < seen /\ reason = "none"
    => e.stale /\ (f.at # "idle" \/ ~Observed(p, w))

CInv ==
  /\ Shaped /\ Numbered
  /\ RequestOk(fetch, written, truth)
  /\ Marked(entry, fetch, place, who, written, why)

LEMMA AskedOk ==
  ASSUME NEW w, NEW n, NEW t
  PROVE  RequestOk(Asked(w), n, t) /\ Asked(w).at = "asked"
<1>1. Asked(w) = [at |-> "asked", version |-> None, for |-> Asker(w), late |-> "none"]  BY DEF Asked
<1>2. Asked(w).at = "asked" /\ Asked(w).late = "none"  BY <1>1
<1> QED  BY <1>2 DEF RequestOk, Reasons

LEMMA MountedOk ==
  ASSUME NEW e, NEW f, NEW p, NEW w, NEW n, NEW t, RequestOk(f, n, t)
  PROVE  /\ RequestOk(Mounted(e, f, p, w), n, t)
         /\ e.stale => Mounted(e, f, p, w).at # "idle" \/ ~Observed(p, w)
         /\ f.at # "idle" => Mounted(e, f, p, w).at # "idle"
<1>1. CASE Observed(p, w) /\ Stale(e) /\ f.at = "idle"
  <2>1. Mounted(e, f, p, w) = Asked(w)  BY <1>1 DEF Mounted
  <2> QED  BY <2>1, AskedOk
<1>2. CASE ~(Observed(p, w) /\ Stale(e) /\ f.at = "idle")
  <2>1. Mounted(e, f, p, w) = f  BY <1>2 DEF Mounted
  <2> QED  BY <1>2, <2>1 DEF Stale
<1> QED  BY <1>1, <1>2

(* An invalidation answers for a change that was just seen. *)
LEMMA RefetchedOk ==
  ASSUME Shaped, RequestOk(fetch, written, truth), NEW seen \in Nat, seen <= truth, truth \in Nat, written \in Nat,
         fetch.at # "read" \/ fetch.version < seen \/ fetch.version >= seen
  PROVE  /\ RequestOk(Refetched(entry, fetch), seen, truth)
         /\ entry.data # None => Refetched(entry, fetch).at # "idle" \/ ~Observed(place, who)
<1>1. CASE Observed(place, who) /\ (fetch.at = "idle" \/ entry.data # None)
  <2>1. Refetched(entry, fetch) = Asked(who)  BY <1>1 DEF Refetched
  <2> QED  BY <2>1, AskedOk
<1>2. CASE ~(Observed(place, who) /\ (fetch.at = "idle" \/ entry.data # None)) /\ fetch.at = "read"
  <2> DEFINE l == IF entry.data = None THEN "first load" ELSE "hidden"
  <2>1. Refetched(entry, fetch) = [fetch EXCEPT !.late = l]  BY <1>2 DEF Refetched
  <2>2. l \in {"first load", "hidden"}  OBVIOUS
  <2> HIDE DEF l
  <2>3. PICK f : f = [fetch EXCEPT !.late = l]  OBVIOUS
  <2>4. f.at = fetch.at /\ f.version = fetch.version /\ f.late = l  BY <2>3 DEF Shaped
  <2> QED  BY <1>2, <2>1, <2>2, <2>3, <2>4 DEF RequestOk, Reasons
<1>3. CASE ~(Observed(place, who) /\ (fetch.at = "idle" \/ entry.data # None)) /\ fetch.at # "read"
  <2>1. Refetched(entry, fetch) = fetch  BY <1>3 DEF Refetched
  <2> QED  BY <1>3, <2>1 DEF RequestOk
<1> QED  BY <1>1, <1>2, <1>3

LEMMA OvertakenOk ==
  ASSUME Shaped, RequestOk(fetch, written, truth), NEW seen \in Nat,
         NEW r \in {"set", "gap"}, r = "gap" => query \in Gaps
  PROVE  /\ RequestOk(Overtaken(r, seen), seen, truth)
         /\ Overtaken(r, seen).at = fetch.at
<1>1. CASE fetch.at = "read" /\ fetch.version < seen
  <2>1. Overtaken(r, seen) = [fetch EXCEPT !.late = r]  BY <1>1 DEF Overtaken
  <2>2. PICK f : f = [fetch EXCEPT !.late = r]  OBVIOUS
  <2>3. f.at = fetch.at /\ f.version = fetch.version /\ f.late = r  BY <2>2 DEF Shaped
  <2> QED  BY <1>1, <2>1, <2>2, <2>3 DEF RequestOk, Reasons
<1>2. CASE ~(fetch.at = "read" /\ fetch.version < seen)
  <2>1. Overtaken(r, seen) = fetch  BY <1>2 DEF Overtaken
  <2> QED  BY <1>2, <2>1 DEF RequestOk
<1> QED  BY <1>1, <1>2

LEMMA InvalidMarks ==
  ASSUME Shaped
  PROVE  /\ Invalid(entry).data = entry.data
         /\ entry.data # None => Invalid(entry).stale
         /\ ShapeOfEntry(Invalid(entry))
BY DEF Invalid, Shaped, ShapeOfEntry

LEMMA CachedData ==
  ASSUME NEW v, NEW w
  PROVE  ShapeOfEntry(Cached(v, w)) /\ Cached(v, w).data = v /\ ~Cached(v, w).stale
BY DEF Cached, ShapeOfEntry

LEMMA EmptyData ==
  ShapeOfEntry(Empty) /\ Empty.data = None /\ ShapeOfFetch(Idle) /\ Idle.at = "idle" /\ Idle.late = "none"
BY DEF Empty, ShapeOfEntry, Idle, ShapeOfFetch

(* The reason is the one given, or there is nothing to explain. *)
LEMMA BecauseIs ==
  ASSUME NEW r, NEW e, NEW seen \in Nat, e.data \in Nat \cup {None}
  PROVE  /\ Because(r, e, seen) \in {r, "none"}
         /\ e.data # None /\ e.data < seen => Because(r, e, seen) = r
BY DEF Because, None

LEMMA CInvInit == WebInit => CInv
<1> SUFFICES ASSUME WebInit PROVE CInv
  OBVIOUS
<1>1. Shaped
  <2>1. entry = Empty /\ fetch = Mounted(Empty, Idle, "home", who)
    BY DEF WebInit
  <2>2. fetch = Idle \/ fetch = Asked(who)
    BY <2>1 DEF Mounted
  <2> QED  BY <2>1, <2>2 DEF Shaped, Empty, Idle, Asked
<1>2. RequestOk(Idle, 0, 0)
  BY EmptyData DEF RequestOk, Reasons
<1>3. RequestOk(fetch, written, truth)
  BY <1>2, MountedOk DEF WebInit
<1>4. Numbered
  BY EmptyData, AllPagesGood DEF WebInit, Numbered, Reasons
<1>5. Marked(entry, fetch, place, who, written, why)
  BY EmptyData DEF WebInit, Marked
<1> QED  BY <1>1, <1>3, <1>4, <1>5 DEF CInv

LEMMA AnswerCInv == ASSUME CInv, NEW j \in jobs, Answer(j) PROVE CInv'
<1> DEFINE b == j.does
           seen == IF b.touches /\ j.by = who /\ j.version > written THEN j.version ELSE written
<1>0. /\ UNCHANGED <<query, who, truth>> /\ jobs' = jobs \ {j} /\ written' = seen
      /\ place' = IF b.leads = "same" \/ who = Guest THEN place ELSE b.leads
      /\ j.at = "done" /\ JobOk(j, truth)
  BY DEF Answer, CInv, Numbered
<1>1. seen \in Nat /\ seen <= truth /\ truth \in Nat /\ written \in Nat /\ j.version \in Nat
  BY <1>0 DEF CInv, Numbered, JobOk
<1>2. place' \in Places /\ query' \in Queries /\ \A k \in jobs' : JobOk(k, truth)'
  BY <1>0 DEF CInv, Numbered, JobOk
<1>3. Shaped /\ RequestOk(fetch, written, truth) /\ entry.data \in Nat \cup {None} /\ why \in Reasons
      /\ (why = "gap" => query \in Gaps)
  BY DEF CInv, Numbered
<1>4. fetch.at # "read" \/ fetch.version < seen \/ fetch.version >= seen
  BY <1>1, <1>3 DEF RequestOk
<1>5. CASE b.sets
  <2>1. /\ entry' = Cached(j.version, j.by) /\ fetch' = Overtaken("set", seen)
        /\ why' = Because("order", entry', seen)
    BY <1>0, <1>5 DEF Answer
  <2>2. ShapeOfEntry(entry') /\ entry'.data = j.version
    BY <2>1, CachedData
  <2>3. ShapeOfFetch(fetch')
    BY <1>3, <2>1, OvertakenIs DEF Shaped, ShapeOfFetch
  <2>4. RequestOk(fetch', seen, truth)
    BY <1>1, <1>3, <2>1, OvertakenOk
  <2>5. why' \in {"order", "none"} /\ (entry'.data # None /\ entry'.data < seen => why' = "order")
    BY <1>1, <2>1, <2>2, BecauseIs
  <2> HIDE DEF seen
  <2> QED
    BY <1>0, <1>1, <1>2, <2>2, <2>3, <2>4, <2>5
    DEF CInv, Numbered, Marked, RequestOk, Reasons, Shaped, ShapeOfEntry, ShapeOfFetch
<1>6. CASE ~b.sets /\ b.refreshes
  <2>1. /\ entry' = Invalid(entry) /\ fetch' = Mounted(entry', Refetched(entry, fetch), place', who)
        /\ why' = Because(why, entry, seen)
    BY <1>0, <1>6 DEF Answer
  <2>2. entry'.data = entry.data /\ (entry.data # None => entry'.stale) /\ ShapeOfEntry(entry')
    BY <1>3, <2>1, InvalidMarks
  <2>3. ShapeOfFetch(fetch')
    BY <1>3, <2>1, RefetchedIs, MountedIs DEF Shaped, ShapeOfFetch
  <2>4. RequestOk(Refetched(entry, fetch), seen, truth)
    BY <1>1, <1>3, <1>4, RefetchedOk
  <2>5. RequestOk(fetch', seen, truth) /\ (entry'.stale => fetch'.at # "idle" \/ ~Observed(place', who))
    BY <2>1, <2>4, MountedOk
  <2>6. why' \in {why, "none"}
    BY <1>1, <1>3, <2>1, BecauseIs
  <2> HIDE DEF seen
  <2> QED
    BY <1>0, <1>1, <1>2, <1>3, <2>2, <2>3, <2>5, <2>6
    DEF CInv, Numbered, Marked, RequestOk, Reasons, Shaped, ShapeOfEntry, ShapeOfFetch, Observed, Enabled
<1>7. CASE ~b.sets /\ ~b.refreshes
  <2>1. /\ entry' = entry /\ fetch' = Mounted(entry, Overtaken("gap", seen), place', who)
        /\ why' = Because("gap", entry, seen)
    BY <1>0, <1>7 DEF Answer
  <2>2. query \in Gaps
    BY <1>0, <1>7 DEF JobOk
  <2>3. ShapeOfFetch(fetch')
    BY <1>3, <2>1, OvertakenIs, MountedIs DEF Shaped, ShapeOfFetch
  <2>4. RequestOk(Overtaken("gap", seen), seen, truth)
    BY <1>1, <1>3, <2>2, OvertakenOk
  <2>5. RequestOk(fetch', seen, truth)
    BY <2>1, <2>4, MountedOk
  <2>6. why' \in {"gap", "none"} /\ (entry'.data # None /\ entry'.data < seen => why' = "gap")
    BY <1>1, <1>3, <2>1, BecauseIs
  <2> HIDE DEF seen
  <2> QED
    BY <1>0, <1>1, <1>2, <1>3, <2>1, <2>2, <2>3, <2>5, <2>6
    DEF CInv, Numbered, Marked, RequestOk, Reasons, Shaped, ShapeOfEntry, ShapeOfFetch
<1> QED  BY <1>5, <1>6, <1>7

(* The reason and what the user has seen stay, and what is cached changes at *)
(* most by being marked.                                                     *)
LEMMA RestsCInv ==
  ASSUME CInv, UNCHANGED <<query, truth, written, why>>, place' \in Places,
         \A k \in jobs' : k \in jobs \/ JobOk(k, truth),
         ShapeOfEntry(entry'), entry'.data = entry.data, entry.data # None /\ entry.stale => entry'.stale,
         ShapeOfFetch(fetch'), RequestOk(fetch', written, truth),
         entry.stale /\ (fetch.at # "idle" \/ ~Observed(place, who)) => fetch'.at # "idle" \/ ~Observed(place', who')
  PROVE  CInv'
<1>1. Numbered'
  BY DEF CInv, Numbered, JobOk
<1>2. Marked(entry', fetch', place', who', written', why')
  BY DEF CInv, Marked
<1> QED
  BY <1>1, <1>2 DEF CInv, Shaped, ShapeOfEntry, ShapeOfFetch, RequestOk, Marked, Observed, Enabled

LEMMA NextCInv == ASSUME CInv, [WebNext]_webVars PROVE CInv'
<1>0. /\ Shaped /\ RequestOk(fetch, written, truth) /\ place \in Places /\ query \in Queries
      /\ ShapeOfEntry(entry) /\ ShapeOfFetch(fetch)
      /\ truth \in Nat /\ written \in Nat /\ written <= truth
  BY DEF CInv, Numbered, Shaped, ShapeOfEntry, ShapeOfFetch
<1>1. CASE UNCHANGED webVars
  BY <1>1 DEF webVars, CInv, Shaped, Numbered, JobOk, RequestOk, Marked, Observed, Enabled
<1>2. ASSUME NEW p \in Stops[query], Visit(p)
      PROVE  CInv'
  <2>1. p \in Places
    <3>1. PICK r \in Places : p = IF View(query, r) = View(query, "home") THEN "home"
                                  ELSE CHOOSE x \in Places : View(query, r) = View(query, x)
      BY <1>0 DEF Stops
    <3> QED
      BY <3>1, AllPagesGood
  <2>2. /\ UNCHANGED <<query, who, truth, entry, jobs, written, why>> /\ place' = p
        /\ fetch' = Mounted(entry, fetch, p, who)
    BY <1>2 DEF Visit
  <2>3. ShapeOfFetch(fetch') /\ RequestOk(fetch', written, truth)
        /\ (entry.stale => fetch'.at # "idle" \/ ~Observed(p, who))
    BY <1>0, <2>2, MountedIs, MountedOk
  <2> QED
    BY <1>0, <2>1, <2>2, <2>3, RestsCInv DEF Observed, Enabled
<1>3. ASSUME NEW e \in Effects[query][place], Press(e)
      PROVE  CInv'
  <2>1. /\ UNCHANGED <<query, who, truth, entry, fetch, written, why, place>>
        /\ jobs' = jobs \cup {[id |-> spent', does |-> e, at |-> "sent", version |-> None, by |-> who]}
    BY <1>3 DEF Press
  <2>2. JobOk([id |-> spent', does |-> e, at |-> "sent", version |-> None, by |-> who], truth)
    BY <1>0, OnlyGaps DEF JobOk
  <2> QED
    BY <1>0, <2>1, <2>2, RestsCInv DEF Observed, Enabled, CInv
<1>4. ASSUME NEW j \in jobs, Serve(j)
      PROVE  CInv'
  <2>1. /\ UNCHANGED <<query, who, entry, fetch, written, why, place>>
        /\ truth' = truth \/ truth' = truth + 1
        /\ \/ jobs' = (jobs \ {j}) \cup {[j EXCEPT !.at = "done", !.version = truth']}
           \/ jobs' = jobs \ {j}
    BY <1>4 DEF Serve, Changes
  <2>2. truth' \in Nat /\ truth <= truth'
    BY <1>0, <2>1
  <2>3. \A k \in jobs : JobOk(k, truth) /\ JobOk(k, truth')
    BY <1>0, <2>2 DEF CInv, Numbered, JobOk
  <2>4. PICK d : d = [j EXCEPT !.at = "done", !.version = truth']
    OBVIOUS
  <2>5. JobOk(d, truth')
    <3>1. j = [id |-> j.id, does |-> j.does, at |-> j.at, version |-> j.version, by |-> j.by]
      BY <2>3 DEF JobOk
    <3>2. d = [id |-> j.id, does |-> j.does, at |-> "done", version |-> truth', by |-> j.by]
      BY <2>4, <3>1
    <3> QED
      BY <2>2, <2>3, <3>2 DEF JobOk
  <2>6. \A k \in jobs' : JobOk(k, truth')
    BY <2>1, <2>3, <2>4, <2>5
  <2>7. RequestOk(fetch, written, truth')
    BY <1>0, <2>2 DEF RequestOk
  <2>8. written <= truth'
    BY <1>0, <2>2
  <2> QED
    BY <2>1, <2>2, <2>6, <2>7, <2>8 DEF CInv, Shaped, Numbered, JobOk, RequestOk, Marked, Observed, Enabled
<1>5. CASE Elsewhere
  <2>1. /\ UNCHANGED <<query, who, entry, fetch, jobs, written, why, place>> /\ truth' = truth + 1
    BY <1>5 DEF Elsewhere, Changes
  <2>2. truth' \in Nat /\ truth <= truth' /\ written <= truth'
    BY <1>0, <2>1
  <2>3. \A k \in jobs : JobOk(k, truth')
    BY <1>0, <2>2 DEF CInv, Numbered, JobOk
  <2>4. RequestOk(fetch, written, truth')
    BY <1>0, <2>2 DEF RequestOk
  <2> QED
    BY <2>1, <2>2, <2>3, <2>4 DEF CInv, Shaped, Numbered, JobOk, RequestOk, Marked, Observed, Enabled
<1>6. CASE Read
  <2>1. /\ UNCHANGED <<query, who, truth, entry, jobs, written, why, place>>
        /\ fetch.at = "asked" /\ fetch' = [fetch EXCEPT !.at = "read", !.version = truth]
    BY <1>6 DEF Read
  <2>2. fetch' = [at |-> "read", version |-> truth, for |-> fetch.for, late |-> fetch.late]
    BY <1>0, <2>1 DEF ShapeOfFetch
  <2>3. ShapeOfFetch(fetch') /\ RequestOk(fetch', written, truth) /\ fetch'.at = "read"
    BY <1>0, <2>2 DEF ShapeOfFetch, RequestOk
  <2> QED
    BY <1>0, <2>1, <2>3, RestsCInv DEF Observed, Enabled, CInv
<1>7. CASE FetchArrives
  <2>1. /\ UNCHANGED <<query, who, truth, jobs, written, place>>
        /\ fetch.at = "read" /\ fetch' = Idle /\ entry' = Cached(fetch.version, fetch.for)
        /\ why' = Because(IF fetch.late # "none" THEN fetch.late ELSE why, entry', written)
    BY <1>7 DEF FetchArrives
  <2>2. /\ fetch.version \in Nat /\ (fetch.late = "none" => fetch.version >= written)
        /\ fetch.late \in Reasons /\ (fetch.late = "gap" => query \in Gaps)
    BY <1>0, <2>1 DEF RequestOk
  <2>3. ShapeOfEntry(entry') /\ entry'.data = fetch.version
    BY <2>1, CachedData
  <2> DEFINE r == IF fetch.late # "none" THEN fetch.late ELSE why
  <2>4. r \in Reasons /\ (r = "gap" => query \in Gaps) /\ (fetch.version < written => r # "none")
    BY <1>0, <2>2 DEF CInv, Numbered
  <2> HIDE DEF r
  <2>5. why' \in {r, "none"} /\ (entry'.data < written => why' = r)
    BY <1>0, <2>1, <2>2, <2>3, BecauseIs DEF None, r
  <2>6. RequestOk(fetch', written, truth) /\ ShapeOfFetch(fetch')
    BY <2>1, EmptyData DEF RequestOk, Reasons
  <2> QED
    BY <1>0, <2>1, <2>2, <2>3, <2>4, <2>5, <2>6
    DEF CInv, Numbered, JobOk, Marked, RequestOk, Reasons, Shaped, ShapeOfEntry, ShapeOfFetch
<1>8. CASE FetchFails
  <2>1. /\ UNCHANGED <<query, who, truth, jobs, written, place>>
        /\ fetch' = Idle /\ entry' = Invalid(entry) /\ why' = Because("failed", entry, written)
    BY <1>8 DEF FetchFails
  <2>2. ShapeOfEntry(entry') /\ entry'.data = entry.data /\ entry.data \in Nat \cup {None}
    BY <1>0, <2>1, InvalidMarks DEF CInv, Numbered
  <2>3. why' \in {"failed", "none"} /\ (entry'.data # None /\ entry'.data < written => why' = "failed")
    BY <1>0, <2>1, <2>2, BecauseIs
  <2>4. RequestOk(fetch', written, truth) /\ ShapeOfFetch(fetch')
    BY <2>1, EmptyData DEF RequestOk, Reasons
  <2> QED
    BY <1>0, <2>1, <2>2, <2>3, <2>4
    DEF CInv, Numbered, JobOk, Marked, RequestOk, Reasons, Shaped, ShapeOfEntry, ShapeOfFetch
<1>9. ASSUME NEW j \in jobs, Answer(j)
      PROVE  CInv'
  BY <1>9, AnswerCInv
<1>10. CASE Ages
  <2>1. /\ UNCHANGED <<query, who, truth, jobs, written, place, why, fetch>> /\ entry' = Invalid(entry)
        /\ ~Stale(entry)
    BY <1>10 DEF Ages
  <2>2. ShapeOfEntry(entry') /\ entry'.data = entry.data /\ ~entry.stale
    BY <1>0, <2>1, InvalidMarks DEF Stale
  <2> QED
    BY <1>0, <2>1, <2>2, RestsCInv DEF CInv, Numbered
<1>11. CASE Collected
  <2>1. /\ UNCHANGED <<query, who, truth, jobs, written, place, fetch>> /\ entry' = Empty /\ why' = "none"
    BY <1>11 DEF Collected
  <2> QED
    BY <1>0, <2>1, EmptyData DEF CInv, Numbered, JobOk, Marked, RequestOk, Reasons, Shaped, ShapeOfEntry, ShapeOfFetch
<1>12. CASE Poll
  <2>1. /\ UNCHANGED <<query, who, truth, jobs, written, place, why, entry>> /\ fetch' = Asked(who)
    BY <1>12 DEF Poll
  <2>2. ShapeOfFetch(fetch') /\ RequestOk(fetch', written, truth) /\ fetch'.at = "asked"
    BY <2>1, AskedIs, AskedOk
  <2> QED
    BY <1>0, <2>1, <2>2, RestsCInv DEF CInv, Numbered
<1>13. CASE Hears
  <2>1. /\ UNCHANGED <<query, who, truth, jobs, written, place, why>>
        /\ \/ entry' = Invalid(entry) /\ fetch' = Refetched(entry, fetch)
           \/ UNCHANGED <<entry, fetch>>
    BY <1>13 DEF Hears
  <2>2. CASE entry' = Invalid(entry) /\ fetch' = Refetched(entry, fetch)
    <3>1. ShapeOfEntry(entry') /\ entry'.data = entry.data /\ (entry.data # None => entry'.stale)
      BY <1>0, <2>2, InvalidMarks
    <3>2. fetch.at # "read" \/ fetch.version < written \/ fetch.version >= written
      BY <1>0 DEF RequestOk
    <3>3. /\ ShapeOfFetch(fetch') /\ RequestOk(fetch', written, truth)
          /\ entry.data # None => fetch'.at # "idle" \/ ~Observed(place, who)
      BY <1>0, <2>2, <3>2, RefetchedIs, RefetchedOk
    <3>4. Numbered'
      BY <2>1, <3>1 DEF CInv, Numbered, JobOk
    <3>5. Marked(entry', fetch', place', who', written', why')
      BY <2>1, <3>1, <3>3 DEF Marked
    <3> QED
      BY <2>1, <3>1, <3>3, <3>4, <3>5
      DEF CInv, RequestOk, Shaped, ShapeOfEntry, ShapeOfFetch, Marked, Observed, Enabled
  <2>3. CASE UNCHANGED <<entry, fetch>>
    BY <1>0, <2>1, <2>3, RestsCInv DEF CInv, Numbered
  <2> QED
    BY <2>1, <2>2, <2>3
<1>14. CASE (\E a \in Users : LogsIn(a) \/ Registers(a)) \/ SignOut \/ SessionEnds
  <2>1. /\ UNCHANGED <<query, truth, jobs>> /\ written' = 0 /\ place' \in Places
        /\ why' \in {why, "none"}
    BY <1>0, <1>14, AllPagesGood DEF LogsIn, Registers, SignedIn, SignOut, SessionEnds
  <2>2. \/ UNCHANGED entry
        \/ entry' = Empty
        \/ \E w : entry' = Cached(truth, w)
    BY <1>14 DEF LogsIn, Registers, SignOut, SessionEnds
  <2>3. ShapeOfEntry(entry') /\ entry'.data \in Nat \cup {None}
    BY <1>0, <2>2, EmptyData, CachedData DEF CInv, Numbered
  <2>4. \/ UNCHANGED fetch
        \/ \E e, p, w : fetch' = Mounted(e, fetch, p, w) \/ fetch' = Mounted(e, Idle, p, w)
    BY <1>14 DEF LogsIn, Registers, SignOut, SessionEnds
  <2>5. RequestOk(fetch, 0, truth) /\ RequestOk(Idle, 0, truth) /\ ShapeOfFetch(Idle)
    <3>1. \A n \in Nat : n >= 0
      OBVIOUS
    <3>2. RequestOk(fetch, 0, truth)
      BY <1>0, <3>1 DEF RequestOk
    <3>3. RequestOk(Idle, 0, truth)
      BY EmptyData DEF RequestOk, Reasons
    <3> QED
      BY <3>2, <3>3, EmptyData
  <2>6. RequestOk(fetch', 0, truth) /\ ShapeOfFetch(fetch')
    BY <1>0, <2>4, <2>5, MountedIs, MountedOk
  <2>7. Numbered'
    <3>1. why' \in Reasons /\ (why' = "gap" => query \in Gaps)
      BY <2>1 DEF CInv, Numbered, Reasons
    <3>2. written' \in Nat /\ written' <= truth
      BY <1>0, <2>1
    <3>3. \A k \in jobs' : JobOk(k, truth)'
      BY <2>1 DEF CInv, Numbered, JobOk
    <3> QED
      BY <1>0, <2>1, <2>3, <3>1, <3>2, <3>3 DEF Numbered
  <2>8. Marked(entry', fetch', place', who', written', why')
    BY <2>1, <2>3 DEF Marked, None
  <2> QED
    BY <2>1, <2>3, <2>6, <2>7, <2>8 DEF CInv, RequestOk, Shaped, ShapeOfEntry, ShapeOfFetch, Marked, Observed, Enabled
<1> QED
  BY <1>1, <1>2, <1>3, <1>4, <1>5, <1>6, <1>7, <1>8, <1>9, <1>10, <1>11, <1>12, <1>13, <1>14 DEF WebNext

LEMMA AlwaysCInv == WebSpec => []CInv
BY CInvInit, NextCInv, PTL DEF WebSpec

(* What a user has done, and been answered, is on the screen and in what the *)
(* cache takes for fresh, but for five races of old answers and the queries  *)
(* that some button forgets (invalidateQueries and setQueryData of every     *)
(* component).                                                               *)
THEOREM OwnChangesAlwaysShown == WebSpec => []OwnChangesShown
<1>1. CInv => OwnChangesShown
  BY DEF CInv, Numbered, Marked, Reasons, OwnChangesShown, Stale
<1> QED  BY <1>1, AlwaysCInv, PTL

-----------------------------------------------------------------------------
(* Some messages have a newest one. *)
LEMMA NewestExists ==
  ASSUME NEW n \in Nat, NEW S \in SUBSET (0..n), S # {}
  PROVE  /\ Max(S) \in S
         /\ \A k \in S : k <= Max(S)
<1> DEFINE T == {n - s : s \in S}
<1>1. T \subseteq Nat /\ T # {}
  <2>1. \A s \in S : n - s \in Nat
    OBVIOUS
  <2> QED
    BY <2>1
<1>2. PICK t \in T : \A u \in T : ~(<<u, t>> \in OpToRel(<, Nat))
  BY <1>1, NatLessThanWellFounded, WFMin
<1>3. \A u \in T : t <= u
  <2>1. ASSUME NEW u \in T
        PROVE  ~(u < t)
    BY <1>1, <1>2, Zenon DEF OpToRel
  <2> QED
    BY <1>1, <2>1
<1>4. PICK x \in S : t = n - x
  OBVIOUS
<1>5. \A k \in S : x >= k
  BY <1>3, <1>4
<1> QED
  BY <1>5 DEF Max

(* Those that a page of n leaves out have newer ones in it. *)
LEMMA PageHoldsNewer ==
  ASSUME NEW p \in Nat, NEW S \in SUBSET (1..p), NEW n \in Nat \ {0}, NEW m \in S \ LastOf(n, S)
  PROVE  \E k \in LastOf(n, S) : m < k
<1> DEFINE x == Max(S)
<1>1. x \in S /\ \A k \in S : k <= x
  <2>1. S \subseteq 0..p /\ S # {}
    OBVIOUS
  <2> QED
    BY <2>1, NewestExists
<1> HIDE DEF x
<1>2. {k \in S : k > x} = {}
  <2>1. ASSUME NEW k \in S
        PROVE  ~(k > x)
    <3>1. k \in Nat /\ x \in Nat /\ k <= x
      BY <1>1
    <3> QED
      BY <3>1
  <2> QED
    BY <2>1
<1>3. x \in LastOf(n, S)
  BY <1>1, <1>2, FS_EmptySet DEF LastOf
<1> QED
  BY <1>1, <1>3

(* What is left out has n newer ones in every larger set. *)
LEMMA LeftOutIsOld ==
  ASSUME NEW p \in Nat, NEW S \in SUBSET (1..p), NEW n \in Nat, NEW m \in S \ LastOf(n, S)
  PROVE  Cardinality({k \in 1..p : k > m}) >= n
<1>1. IsFiniteSet({k \in 1..p : k > m}) /\ {k \in S : k > m} \subseteq {k \in 1..p : k > m}
  <2>1. IsFiniteSet(1..p)
    BY FS_Interval
  <2> QED
    BY <2>1, FS_Subset
<1>2. /\ Cardinality({k \in S : k > m}) \in Nat
      /\ Cardinality({k \in S : k > m}) <= Cardinality({k \in 1..p : k > m})
      /\ Cardinality({k \in 1..p : k > m}) \in Nat
  BY <1>1, FS_Subset, FS_CardinalityType
<1>3. ~(Cardinality({k \in S : k > m}) < n)
  BY DEF LastOf
<1> QED
  BY <1>2, <1>3

LEMMA OlderStaysOld ==
  ASSUME NEW p \in Nat, NEW m \in Nat, NEW n \in Nat, Cardinality({k \in 1..p : k > m}) >= n
  PROVE  Cardinality({k \in 1..(p + 1) : k > m}) >= n
<1>1. IsFiniteSet(1..(p + 1))
  BY FS_Interval
<1>2. /\ {k \in 1..p : k > m} \subseteq {k \in 1..(p + 1) : k > m}
      /\ IsFiniteSet({k \in 1..(p + 1) : k > m})
  BY <1>1, FS_Subset
<1>3. /\ Cardinality({k \in 1..p : k > m}) \in Nat
      /\ Cardinality({k \in 1..p : k > m}) <= Cardinality({k \in 1..(p + 1) : k > m})
      /\ Cardinality({k \in 1..(p + 1) : k > m}) \in Nat
  BY <1>2, FS_Subset, FS_CardinalityType
<1> QED
  BY <1>3

LEMMA QueuedIs ==
  ASSUME NEW S, NEW q \in Seq(S), NEW e \in S
  PROVE  /\ Append(q, e) \in Seq(S)
         /\ ToSet(Append(q, e)) = ToSet(q) \cup {e}
<1>1. Append(q, e) \in Seq(S) /\ DOMAIN Append(q, e) = 1..(Len(q) + 1) /\ DOMAIN q = 1..Len(q) /\ Len(q) \in Nat
  OBVIOUS
<1>2. /\ \A i \in 1..Len(q) : Append(q, e)[i] = q[i]
      /\ Append(q, e)[Len(q) + 1] = e
  OBVIOUS
<1>3. 1..(Len(q) + 1) = 1..Len(q) \cup {Len(q) + 1}
  BY <1>1
<1> QED
  BY <1>1, <1>2, <1>3 DEF ToSet

LEMMA TakenIs ==
  ASSUME NEW S, NEW q \in Seq(S), q # <<>>
  PROVE  /\ Tail(q) \in Seq(S) /\ Head(q) \in S
         /\ ToSet(q) = {Head(q)} \cup ToSet(Tail(q))
<1>1. /\ Tail(q) \in Seq(S) /\ Head(q) \in S /\ Head(q) = q[1]
      /\ Len(q) \in Nat \ {0} /\ DOMAIN q = 1..Len(q) /\ DOMAIN Tail(q) = 1..(Len(q) - 1)
      /\ \A i \in 1..(Len(q) - 1) : Tail(q)[i] = q[i + 1]
  OBVIOUS
<1>2. ASSUME NEW i \in 1..Len(q), i # 1
      PROVE  q[i] \in ToSet(Tail(q))
  <2>1. i - 1 \in 1..(Len(q) - 1) /\ q[i] = Tail(q)[i - 1]
    BY <1>1, <1>2
  <2> QED
    BY <1>1, <2>1 DEF ToSet
<1>3. ToSet(q) \subseteq {Head(q)} \cup ToSet(Tail(q))
  BY <1>1, <1>2 DEF ToSet
<1>4. ASSUME NEW i \in 1..(Len(q) - 1)
      PROVE  Tail(q)[i] \in ToSet(q)
  <2>1. i + 1 \in 1..Len(q) /\ Tail(q)[i] = q[i + 1]
    BY <1>1
  <2> QED
    BY <1>1, <2>1 DEF ToSet
<1>5. {Head(q)} \cup ToSet(Tail(q)) \subseteq ToSet(q)
  BY <1>1, <1>4 DEF ToSet
<1> QED
  BY <1>1, <1>3, <1>5

LEMMA NoneQueued ==
  ToSet(<<>>) = {} /\ \A S : \A q \in Seq(S) : ToSet(q) \subseteq S
BY DEF ToSet

-----------------------------------------------------------------------------
(* Types *)

Rows == [id : 1..posted, quotes : 0..posted, mine : BOOLEAN, counted : BOOLEAN]

(* What is told, or on its way: a deletion only after the fact *)
ChatEvents ==
  [type : {"chat_message"}, row : Rows]
    \cup [type : {"message_deleted"}, deleted : gone]
    \cup [type : {"patch"}, field : Fields, n : Nat, mine : BOOLEAN]
    \cup [type : {"moderation"}, action : {"none"} \cup Sanctions]
    \cup [type : {"reaction_update"}, liked : Nat]
    \cup [type : {"counts"}, of : Nat, counted : BOOLEAN]

PageType == [stage : {"idle", "asked", "read"}, after : Nat, found : SUBSET Rows]

FetchType == [stage : {"idle", "asked", "read"}, at : [Fields -> Nat], voted : SUBSET Nat]

RoomTyped ==
  /\ posted \in Nat /\ changes \in Nat /\ posted <= changes /\ changes <= MaxRoomChanges
  /\ gone \subseteq 1..posted
  /\ quote \in [Msgs -> 0..posted]
  /\ facts \in [Fields -> Nat] /\ cast \subseteq Nat
  /\ outbox \subseteq ChatEvents

LinkTyped ==
  /\ link \in {"down", "open", "heard", "lost"}
  /\ queue \in Seq(ChatEvents)
  /\ drops \in 0..MaxDrops

TabTyped ==
  /\ here \in BOOLEAN /\ wasDown \in BOOLEAN
  /\ shown \subseteq Rows
  /\ pages \in [0..MaxDrops -> PageType]
  /\ \A f \in 0..MaxDrops : /\ pages[f].stage = "idle" => pages[f] = NoPage
                            /\ pages[f].stage = "asked" => pages[f].found = {}

StateTyped ==
  /\ cache \in [have : BOOLEAN, at : [Fields -> Nat], vote : BOOLEAN]
  /\ stateFetch \in FetchType

ClientTyped == RoomTyped /\ LinkTyped /\ TabTyped /\ StateTyped

LEMMA RowsStay ==
  ASSUME posted \in Nat, posted' \in Nat, posted <= posted', gone \subseteq gone'
  PROVE  /\ Rows \subseteq Rows' /\ PageType \subseteq PageType'
         /\ ChatEvents \subseteq ChatEvents'
         /\ \A q \in Seq(ChatEvents) : q \in Seq(ChatEvents')
<1>1. 1..posted \subseteq 1..posted' /\ 0..posted \subseteq 0..posted'
  OBVIOUS
<1>2. Rows \subseteq Rows'
  BY <1>1 DEF Rows
<1>3. PageType \subseteq PageType'
  BY <1>2 DEF PageType
<1>4. ChatEvents \subseteq ChatEvents'
  BY <1>2 DEF ChatEvents
<1> QED
  BY <1>2, <1>3, <1>4

LEMMA RoomRests ==
  ASSUME UNCHANGED <<posted, gone>>
  PROVE  Rows' = Rows /\ ChatEvents' = ChatEvents /\ PageType' = PageType
BY DEF Rows, ChatEvents, PageType

(* What a row or an event is *)
LEMMA EventIs ==
  ASSUME NEW e \in ChatEvents
  PROVE  /\ e.type = "chat_message" => e.row \in Rows
         /\ e.type = "message_deleted" => e.deleted \in gone
         /\ e.type = "patch" => e.field \in Fields /\ e.n \in Nat /\ e.mine \in BOOLEAN
         /\ e.type = "reaction_update" => e.liked \in Nat
         /\ e.type = "counts" => e.of \in Nat /\ e.counted \in BOOLEAN
BY DEF ChatEvents

LEMMA EventMade ==
  /\ \A r \in Rows : [type |-> "chat_message", row |-> r] \in ChatEvents
  /\ \A m \in gone : [type |-> "message_deleted", deleted |-> m] \in ChatEvents
  /\ \A f \in Fields, n \in Nat, b \in BOOLEAN :
       [type |-> "patch", field |-> f, n |-> n, mine |-> b] \in ChatEvents
  /\ \A s \in {"none"} \cup Sanctions : [type |-> "moderation", action |-> s] \in ChatEvents
  /\ \A m \in Nat : [type |-> "reaction_update", liked |-> m] \in ChatEvents
  /\ \A m \in Nat, b \in BOOLEAN : [type |-> "counts", of |-> m, counted |-> b] \in ChatEvents
BY DEF ChatEvents

LEMMA RowIs ==
  ASSUME NEW r \in Rows
  PROVE  r.id \in 1..posted /\ r.quotes \in 0..posted /\ r.mine \in BOOLEAN /\ r.counted \in BOOLEAN
BY DEF Rows

LEMMA RowMade ==
  ASSUME ClientTyped, NEW m \in 1..posted
  PROVE  Row(m) \in Rows /\ Row(m).id = m /\ Row(m).mine = (m \in reacted)
<1>1. m \in Msgs /\ quote[m] \in 0..posted /\ 0 \in 0..posted
  BY ChatClientAssumption DEF ClientTyped, RoomTyped, Msgs
<1> QED
  BY <1>1 DEF Row, Rows

LEMMA MergeIs ==
  ASSUME NEW prev \in SUBSET Rows, NEW batch \in SUBSET Rows
  PROVE  /\ Merge(prev, batch) \subseteq Rows
         /\ Merge(prev, batch) \subseteq prev \cup batch
         /\ \A r \in Merge(prev, batch) : r \in prev \/ (r \in batch /\ r.id \notin Ids(prev))
BY DEF Merge

LEMMA ClientTypedInit ==
  ASSUME Init
  PROVE  ClientTyped
<1>1. RoomTyped
  <2>1. /\ posted = 0 /\ changes = 0 /\ gone = {} /\ quote = [m \in Msgs |-> 0]
        /\ facts = [f \in Fields |-> 0] /\ cast = {} /\ outbox = {}
    BY DEF Init, NoFacts
  <2> QED
    BY <2>1, ChatClientAssumption DEF RoomTyped
<1>2. LinkTyped
  BY ChatClientAssumption DEF Init, LinkTyped
<1>3. TabTyped
  BY DEF Init, TabTyped, PageType, NoPage
<1>4. StateTyped
  BY DEF Init, StateTyped, FetchType, NoFetch, NoFacts
<1> QED
  BY <1>1, <1>2, <1>3, <1>4 DEF ClientTyped

(* The room changes, and the tab with its queue does not. *)
LEMMA RoomGoesOn ==
  ASSUME ClientTyped, RoomTyped', posted <= posted', gone \subseteq gone',
         UNCHANGED <<link, queue, drops, tab, state>>
  PROVE  ClientTyped'
<1>1. /\ Rows \subseteq Rows' /\ PageType \subseteq PageType'
      /\ \A q \in Seq(ChatEvents) : q \in Seq(ChatEvents')
  BY RowsStay DEF ClientTyped, RoomTyped
<1>2. LinkTyped'
  BY <1>1 DEF ClientTyped, LinkTyped
<1>3. TabTyped'
  <2>1. shown' \subseteq Rows' /\ pages' \in [0..MaxDrops -> PageType'] /\ UNCHANGED <<here, wasDown, pages>>
    BY <1>1 DEF ClientTyped, TabTyped, tab
  <2> QED
    BY <2>1 DEF ClientTyped, TabTyped, NoPage
<1>4. StateTyped'
  BY DEF ClientTyped, StateTyped, FetchType, state
<1> QED
  BY <1>2, <1>3, <1>4 DEF ClientTyped

(* A change of the room, as far as Bounded goes *)
LEMMA BoundedIs ==
  ASSUME ClientTyped, Bounded
  PROVE  /\ changes \in Nat /\ changes < MaxRoomChanges /\ changes' = changes + 1
         /\ changes' \in Nat /\ changes' <= MaxRoomChanges
         /\ posted \in Nat /\ posted <= changes /\ posted <= changes' /\ posted + 1 <= changes'
         /\ MaxRoomChanges \in Nat
BY ChatClientAssumption DEF ClientTyped, RoomTyped, Bounded

LEMMA PostIs ==
  ASSUME ClientTyped, NEW q \in 0..posted, q \notin gone, Post(q)
  PROVE  /\ RoomTyped' /\ posted' = posted + 1 /\ posted <= posted' /\ gone' = gone
         /\ \E e \in ChatEvents' : /\ e.type = "chat_message" /\ e.row.id = posted + 1 /\ e.row.quotes = q
                                   /\ e.row.mine = FALSE
                                   /\ outbox' = outbox \cup {e}
<1>1. /\ posted \in Nat /\ posted' = posted + 1 /\ gone' = gone /\ facts' = facts /\ cast' = cast
      /\ quote' = [quote EXCEPT ![posted + 1] = q]
      /\ 1..posted \subseteq 1..posted' /\ 0..posted \subseteq 0..posted' /\ posted <= posted'
      /\ posted + 1 \in 1..posted'
  BY DEF Post, ClientTyped, RoomTyped
<1>2. changes' \in Nat /\ changes' <= MaxRoomChanges /\ posted' <= changes'
  BY <1>1, BoundedIs DEF Post
<1>3. quote' \in [Msgs -> 0..posted']
  BY <1>1 DEF ClientTyped, RoomTyped
<1>4. PICK r \in Rows' : r = [id |-> posted + 1, quotes |-> q, mine |-> FALSE, counted |-> FALSE]
  BY <1>1 DEF Rows
<1>5. PICK e \in ChatEvents' : e = [type |-> "chat_message", row |-> r]
  BY <1>4 DEF ChatEvents
<1>6. outbox' = outbox \cup {e}
  BY <1>4, <1>5 DEF Post, Tell
<1>7. ChatEvents \subseteq ChatEvents'
  BY <1>1, RowsStay
<1>8. RoomTyped'
  BY <1>1, <1>2, <1>3, <1>6, <1>7 DEF RoomTyped, ClientTyped
<1> QED
  BY <1>1, <1>4, <1>5, <1>6, <1>8

LEMMA TakenFromQueue ==
  ASSUME ClientTyped, NEW t, Next1(t)
  PROVE  /\ here /\ Head(queue) \in ChatEvents /\ Head(queue).type = t
         /\ queue' \in Seq(ChatEvents) /\ ToSet(queue) = {Head(queue)} \cup ToSet(queue')
<1>1. queue \in Seq(ChatEvents) /\ queue # <<>> /\ queue' = Tail(queue)
  BY DEF ClientTyped, LinkTyped, Next1
<1> QED
  BY <1>1, TakenIs DEF Next1

(* What an action leaves alone keeps its type. *)
LEMMA Untouched ==
  ASSUME ClientTyped, UNCHANGED <<posted, gone>>
  PROVE  /\ UNCHANGED <<quote, facts, cast, changes, outbox>> => RoomTyped'
         /\ UNCHANGED <<link, queue, drops>> => LinkTyped'
         /\ UNCHANGED <<here, wasDown, shown, pages>> => TabTyped'
         /\ UNCHANGED state => StateTyped'
<1>1. Rows' = Rows /\ ChatEvents' = ChatEvents /\ PageType' = PageType
  BY RoomRests
<1>2. UNCHANGED <<quote, facts, cast, changes, outbox>> => RoomTyped'
  BY <1>1 DEF ClientTyped, RoomTyped
<1>3. UNCHANGED <<link, queue, drops>> => LinkTyped'
  BY <1>1 DEF ClientTyped, LinkTyped
<1>4. UNCHANGED <<here, wasDown, shown, pages>> => TabTyped'
  BY <1>1 DEF ClientTyped, TabTyped, NoPage
<1>5. UNCHANGED state => StateTyped'
  BY DEF ClientTyped, StateTyped, FetchType, state
<1> QED
  BY <1>2, <1>3, <1>4, <1>5

(* An event is taken off the queue. *)
LEMMA TakenKeepsTypes ==
  ASSUME ClientTyped, NEW t, Next1(t), UNCHANGED <<room, outbox, link, drops>>
  PROVE  RoomTyped' /\ LinkTyped' /\ Rows' = Rows
<1>1. queue' \in Seq(ChatEvents) /\ Rows' = Rows /\ ChatEvents' = ChatEvents
  BY TakenFromQueue, RoomRests DEF room
<1>2. RoomTyped'
  BY Untouched DEF room
<1>3. LinkTyped'
  BY <1>1 DEF ClientTyped, LinkTyped
<1> QED
  BY <1>1, <1>2, <1>3

LEMMA ClientTypedStep ==
  ASSUME ClientTyped, [Next]_vars
  PROVE  ClientTyped'
<1> USE DEF room, tab, state
<1>1. CASE PostedByOthers
  <2>1. PICK q \in 0..posted : q \notin gone /\ Post(q)
    BY <1>1 DEF PostedByOthers
  <2>2. RoomTyped' /\ posted <= posted' /\ gone \subseteq gone'
    BY <2>1, PostIs
  <2> QED
    BY <1>1, <2>2, RoomGoesOn DEF PostedByOthers
<1>2. CASE Submit
  <2>1. CASE UNCHANGED <<room, outbox>>
    BY <1>2, <2>1, Untouched DEF Submit, ClientTyped
  <2>2. CASE \E q \in {0} \cup Ids(shown) : q \notin gone /\ Post(q)
    <3>1. PICK q \in {0} \cup Ids(shown) : q \notin gone /\ Post(q)
      BY <2>2
    <3>2. q \in 0..posted
      BY <3>1, RowIs DEF ClientTyped, TabTyped, RoomTyped, Ids
    <3>3. RoomTyped' /\ posted <= posted' /\ gone \subseteq gone'
      BY <3>1, <3>2, PostIs
    <3> QED
      BY <1>2, <3>3, RoomGoesOn DEF Submit
  <2> QED
    BY <1>2, <2>1, <2>2 DEF Submit
<1>3. ASSUME NEW m \in Msgs, Delete(m)
      PROVE  ClientTyped'
  <2>1. /\ m \in 1..posted /\ gone' = gone \cup {m} /\ posted' = posted /\ UNCHANGED <<quote, facts, cast>>
        /\ outbox' = outbox \cup {[type |-> "message_deleted", deleted |-> m]}
    BY <1>3 DEF Delete, Tell
  <2>2. ChatEvents \subseteq ChatEvents' /\ [type |-> "message_deleted", deleted |-> m] \in ChatEvents'
    <3>1. posted \in Nat
      BY DEF ClientTyped, RoomTyped
    <3> QED
      BY <2>1, <3>1, RowsStay DEF ChatEvents
  <2>3. changes' \in Nat /\ changes' <= MaxRoomChanges /\ posted' <= changes'
    BY <1>3, <2>1, BoundedIs DEF Delete
  <2>4. RoomTyped'
    BY <2>1, <2>2, <2>3 DEF ClientTyped, RoomTyped
  <2>5. posted <= posted' /\ gone \subseteq gone'
    BY <2>1 DEF ClientTyped, RoomTyped
  <2> QED
    BY <1>3, <2>4, <2>5, RoomGoesOn DEF Delete
<1>4. ASSUME NEW m \in Msgs, React(m)
      PROVE  ClientTyped'
  <2>1. PICK r \in shown : \E turned \in Chip(r) \cup Picker :
          /\ shown' = (shown \ {r}) \cup {[r EXCEPT !.mine = turned, !.counted = turned]}
          /\ outbox' \subseteq outbox \cup {[type |-> "reaction_update", liked |-> m]}
    BY <1>4 DEF React, Tell
  <2>2. PICK turned \in BOOLEAN :
          shown' = (shown \ {r}) \cup {[r EXCEPT !.mine = turned, !.counted = turned]}
    BY <2>1 DEF Chip, Picker, ClientTyped, TabTyped, Rows
  <2>3. [r EXCEPT !.mine = turned, !.counted = turned] \in Rows
    BY <2>1, <2>2 DEF ClientTyped, TabTyped, Rows
  <2>4. m \in Nat
    BY DEF Msgs
  <2>5. Rows' = Rows /\ ChatEvents' = ChatEvents /\ PageType' = PageType
    BY <1>4, RoomRests DEF React
  <2>6. outbox' \subseteq ChatEvents
    BY <2>1, <2>4, EventMade DEF ClientTyped, RoomTyped
  <2>7. changes' \in Nat /\ changes' <= MaxRoomChanges /\ posted' <= changes'
    BY <1>4, BoundedIs DEF React
  <2>8. RoomTyped'
    BY <1>4, <2>5, <2>6, <2>7 DEF React, ClientTyped, RoomTyped
  <2>9. TabTyped'
    BY <1>4, <2>2, <2>3, <2>5 DEF React, ClientTyped, TabTyped, NoPage
  <2> QED
    BY <1>4, <2>8, <2>9, Untouched DEF React, ClientTyped
<1>30. ASSUME NEW m \in Msgs, ReactedElsewhere(m)
       PROVE  ClientTyped'
  <2>1. UNCHANGED <<posted, gone, quote, facts, cast>>
    BY <1>30 DEF ReactedElsewhere
  <2>2. m \in Nat /\ outbox' = outbox \cup {[type |-> "reaction_update", liked |-> m]}
    BY <1>30 DEF ReactedElsewhere, Tell, Msgs
  <2>3. outbox' \subseteq ChatEvents /\ ChatEvents' = ChatEvents
    BY <2>1, <2>2, EventMade, RoomRests DEF ClientTyped, RoomTyped
  <2>4. changes' \in Nat /\ changes' <= MaxRoomChanges /\ posted' <= changes'
    BY <1>30, <2>1, BoundedIs DEF ReactedElsewhere
  <2>5. RoomTyped'
    BY <2>1, <2>3, <2>4 DEF ClientTyped, RoomTyped
  <2>6. posted <= posted' /\ gone \subseteq gone'
    BY <2>1 DEF ClientTyped, RoomTyped
  <2> QED
    BY <1>30, <2>5, <2>6, RoomGoesOn DEF ReactedElsewhere
<1>31. CASE VotedElsewhere
  <2>1. UNCHANGED <<posted, gone, quote, facts>> /\ facts["poll"] \in Nat
    BY <1>31, ChatClientAssumption DEF VotedElsewhere, ClientTyped, RoomTyped
  <2>2. cast' \subseteq Nat
    <3>1. PollOf(facts["poll"]) \in Nat
      BY <2>1 DEF PollOf
    <3>2. cast' = cast \cup {PollOf(facts["poll"])}
      BY <1>31 DEF VotedElsewhere
    <3> QED
      BY <3>1, <3>2 DEF ClientTyped, RoomTyped
  <2>3. outbox' = outbox \cup {[type |-> "patch", field |-> "poll", n |-> facts["poll"], mine |-> FALSE]}
    BY <1>31 DEF VotedElsewhere, Tell
  <2>4. outbox' \subseteq ChatEvents /\ ChatEvents' = ChatEvents
    BY <2>1, <2>3, EventMade, RoomRests, ChatClientAssumption DEF ClientTyped, RoomTyped
  <2>5. changes' \in Nat /\ changes' <= MaxRoomChanges /\ posted' <= changes'
    BY <1>31, <2>1, BoundedIs DEF VotedElsewhere
  <2>6. RoomTyped'
    BY <2>1, <2>2, <2>4, <2>5 DEF ClientTyped, RoomTyped
  <2>7. posted <= posted' /\ gone \subseteq gone'
    BY <2>1 DEF ClientTyped, RoomTyped
  <2> QED
    BY <1>31, <2>6, <2>7, RoomGoesOn DEF VotedElsewhere
<1>5. ASSUME NEW f \in Fields, Change(f)
      PROVE  ClientTyped'
  <2>1. /\ facts' = [facts EXCEPT ![f] = @ + 1] /\ UNCHANGED <<posted, gone, quote, cast>>
        /\ outbox' = outbox \cup {[type |-> "patch", field |-> f, n |-> facts[f] + 1, mine |-> FALSE]}
    BY <1>5 DEF Change, Tell
  <2>2. facts[f] + 1 \in Nat /\ facts' \in [Fields -> Nat]
    BY <2>1 DEF ClientTyped, RoomTyped
  <2>3. outbox' \subseteq ChatEvents /\ ChatEvents' = ChatEvents
    BY <2>1, <2>2, EventMade, RoomRests DEF ClientTyped, RoomTyped
  <2>4. changes' \in Nat /\ changes' <= MaxRoomChanges /\ posted' <= changes'
    BY <1>5, BoundedIs DEF Change
  <2>5. RoomTyped'
    BY <2>1, <2>2, <2>3, <2>4 DEF ClientTyped, RoomTyped
  <2> QED
    BY <1>5, <2>1, <2>5, Untouched DEF Change, ClientTyped
<1>6. ASSUME NEW s \in {"none"} \cup Sanctions, Sanction(s)
      PROVE  ClientTyped'
  <2>1. UNCHANGED <<posted, gone, quote, facts, cast, outbox>> /\ ChatEvents' = ChatEvents
    BY <1>6, RoomRests DEF Sanction
  <2>2. changes' \in Nat /\ changes' <= MaxRoomChanges /\ posted' <= changes'
    BY <1>6, BoundedIs DEF Sanction
  <2>3. RoomTyped'
    BY <2>1, <2>2 DEF ClientTyped, RoomTyped
  <2>4. queue' \in Seq(ChatEvents)
    <3>1. queue \in Seq(ChatEvents) /\ [type |-> "moderation", action |-> s] \in ChatEvents
      BY EventMade DEF ClientTyped, LinkTyped
    <3> QED
      BY <1>6, <3>1, QueuedIs DEF Sanction
  <2>5. LinkTyped'
    BY <1>6, <2>1, <2>4 DEF Sanction, ClientTyped, LinkTyped
  <2> QED
    BY <1>6, <2>3, <2>5, Untouched DEF Sanction, ClientTyped
<1>7. ASSUME NEW e \in outbox, Publish(e)
      PROVE  ClientTyped'
  <2>1. e \in ChatEvents /\ queue \in Seq(ChatEvents) /\ outbox' \subseteq ChatEvents /\ ChatEvents' = ChatEvents
    BY <1>7, RoomRests DEF Publish, ClientTyped, RoomTyped, LinkTyped
  <2>2. e.type = "reaction_update" =>
          [type |-> "counts", of |-> e.liked, counted |-> e.liked \in reacted] \in ChatEvents
    <3>1. e.type = "reaction_update" => e.liked \in Nat
      BY <2>1, EventIs
    <3> QED
      BY <3>1 DEF ChatEvents
  <2>3. queue' \in Seq(ChatEvents)
    BY <1>7, <2>1, <2>2, QueuedIs DEF Publish
  <2>4. LinkTyped'
    BY <1>7, <2>1, <2>3 DEF Publish, ClientTyped, LinkTyped
  <2>5. RoomTyped'
    BY <1>7, <2>1 DEF Publish, ClientTyped, RoomTyped
  <2> QED
    BY <1>7, <2>4, <2>5, Untouched DEF Publish, ClientTyped
<1>8. CASE Lost
  <2>1. LinkTyped'
    BY <1>8, ChatClientAssumption DEF Lost, ClientTyped, LinkTyped
  <2> QED
    BY <1>8, <2>1, Untouched DEF Lost, ClientTyped
<1>9. CASE Down
  <2>1. LinkTyped' /\ TabTyped'
    BY <1>9, RoomRests DEF Down, ClientTyped, LinkTyped, TabTyped, NoPage
  <2> QED
    BY <1>9, <2>1, Untouched DEF Down, ClientTyped
<1>10. CASE Up
  <2>1. Rows' = Rows /\ ChatEvents' = ChatEvents /\ PageType' = PageType
    BY <1>10, RoomRests DEF Up
  <2>2. LinkTyped'
    BY <1>10, <2>1 DEF Up, ClientTyped, LinkTyped
  <2>3. Newest \in Nat
    <3>1. CASE shown = {}
      BY <3>1 DEF Newest
    <3>2. CASE shown # {}
      <4>1. posted \in Nat /\ Ids(shown) \subseteq 0..posted /\ Ids(shown) # {}
        BY <3>2, RowIs DEF ClientTyped, TabTyped, RoomTyped, Ids
      <4>2. Max(Ids(shown)) \in Ids(shown)
        BY <4>1, NewestExists
      <4> QED
        BY <3>2, <4>1, <4>2 DEF Newest
    <3> QED
      BY <3>1, <3>2
  <2>4. [stage |-> "asked", after |-> Newest, found |-> {}] \in PageType
    BY <2>3 DEF PageType
  <2>5. TabTyped'
    <3>1. shown' \subseteq Rows /\ here' \in BOOLEAN /\ wasDown' \in BOOLEAN
      BY <1>10 DEF Up, ClientTyped, TabTyped
    <3>2. CASE pages' = pages
      BY <2>1, <3>1, <3>2 DEF ClientTyped, TabTyped, NoPage
    <3>3. CASE pages' = [pages EXCEPT ![drops] = [stage |-> "asked", after |-> Newest, found |-> {}]]
      <4>1. drops \in 0..MaxDrops
        BY DEF ClientTyped, LinkTyped
      <4> QED
        BY <2>1, <2>4, <3>1, <3>3, <4>1 DEF ClientTyped, TabTyped, NoPage
    <3> QED
      BY <1>10, <3>2, <3>3 DEF Up
  <2>6. StateTyped'
    <3>1. stateFetch' \in FetchType
      BY <1>10 DEF Up, Refetch, NoFetch, NoFacts, FetchType, ClientTyped, StateTyped
    <3> QED
      BY <1>10, <3>1 DEF Up, ClientTyped, StateTyped, FetchType
  <2> QED
    BY <1>10, <2>2, <2>5, <2>6, Untouched DEF Up, ClientTyped
<1>11. CASE Subscribed
  <2>1. LinkTyped'
    BY <1>11, RoomRests DEF Subscribed, ClientTyped, LinkTyped
  <2> QED
    BY <1>11, <2>1, Untouched DEF Subscribed, ClientTyped
<1>12. ASSUME NEW young \in BOOLEAN, Enter(young)
       PROVE  ClientTyped'
  <2>1. TabTyped'
    <3>1. NoPage \in PageType /\ [NoPage EXCEPT !.stage = "asked"] \in PageType
      BY DEF NoPage, PageType
    <3>2. pages' \in [0..MaxDrops -> PageType']
      BY <1>12, <3>1, RoomRests DEF Enter
    <3> QED
      BY <1>12, <3>2, RoomRests DEF Enter, ClientTyped, TabTyped, NoPage
  <2>2. StateTyped'
    <3>1. stateFetch' \in FetchType
      <4>1. [NoFetch EXCEPT !.stage = "asked"] \in FetchType /\ stateFetch \in FetchType
        BY DEF NoFetch, NoFacts, FetchType, ClientTyped, StateTyped
      <4>2. stateFetch' = stateFetch \/ stateFetch' = [NoFetch EXCEPT !.stage = "asked"]
        BY <1>12 DEF Enter
      <4> QED
        BY <4>1, <4>2
    <3> QED
      BY <1>12, <3>1 DEF Enter, ClientTyped, StateTyped, FetchType
  <2> QED
    BY <1>12, <2>1, <2>2, Untouched DEF Enter, ClientTyped
<1>13. CASE LeavePage
  <2>1. TabTyped'
    BY <1>13, RoomRests DEF LeavePage, ClientTyped, TabTyped, NoPage, PageType
  <2>2. LinkTyped'
    BY <1>13, RoomRests DEF LeavePage, ClientTyped, LinkTyped
  <2> QED
    BY <1>13, <2>1, <2>2, Untouched DEF LeavePage, ClientTyped
<1>14. ASSUME NEW f \in DOMAIN pages, PageRead(f)
       PROVE  ClientTyped'
  <2>1. Rows' = Rows /\ PageType' = PageType
    BY <1>14, RoomRests DEF PageRead
  <2>2. f \in 0..MaxDrops
    BY DEF ClientTyped, TabTyped
  <2>3. PICK found \in SUBSET Rows : pages' = [pages EXCEPT ![f].stage = "read", ![f].found = found]
    <3>1. PICK batch \in SUBSET (1..posted) :
            pages' = [pages EXCEPT ![f].stage = "read", ![f].found = {Row(m) : m \in batch}]
      BY <1>14 DEF PageRead, LastOf
    <3>2. {Row(m) : m \in batch} \in SUBSET Rows
      BY <3>1, RowMade
    <3> QED
      BY <3>1, <3>2
  <2>4. TabTyped'
    <3>1. pages[f] \in PageType /\ pages \in [0..MaxDrops -> PageType]
      BY <2>2 DEF ClientTyped, TabTyped
    <3>2. PICK p \in PageType : p = [pages[f] EXCEPT !.stage = "read", !.found = found]
      BY <2>3, <3>1 DEF PageType
    <3>3. pages' = [pages EXCEPT ![f] = p] /\ p.stage = "read"
      BY <2>2, <2>3, <3>1, <3>2 DEF PageType
    <3>4. UNCHANGED <<here, wasDown, shown>>
      BY <1>14 DEF PageRead
    <3> QED
      BY <2>1, <2>2, <3>1, <3>2, <3>3, <3>4 DEF ClientTyped, TabTyped, NoPage
  <2> QED
    BY <1>14, <2>4, Untouched DEF PageRead, ClientTyped
<1>15. ASSUME NEW f \in DOMAIN pages, PageArrives(f)
       PROVE  ClientTyped'
  <2>1. Rows' = Rows /\ PageType' = PageType
    BY <1>15, RoomRests DEF PageArrives
  <2>2. f \in 0..MaxDrops /\ shown \subseteq Rows /\ pages[f].found \subseteq Rows
    BY DEF ClientTyped, TabTyped, PageType
  <2>3. Merge(shown, pages[f].found) \subseteq Rows
    BY <2>2, MergeIs
  <2>4. TabTyped'
    BY <1>15, <2>1, <2>2, <2>3 DEF PageArrives, ClientTyped, TabTyped, PageType, NoPage
  <2> QED
    BY <1>15, <2>4, Untouched DEF PageArrives, ClientTyped
<1>16. ASSUME NEW f \in DOMAIN pages, PageFails(f)
       PROVE  ClientTyped'
  <2>1. TabTyped'
    BY <1>16, RoomRests DEF PageFails, ClientTyped, TabTyped, PageType, NoPage
  <2> QED
    BY <1>16, <2>1, Untouched DEF PageFails, ClientTyped
<1>17. CASE StateRead
  <2>1. StateTyped'
    BY <1>17 DEF StateRead, ClientTyped, StateTyped, RoomTyped, FetchType
  <2> QED
    BY <1>17, <2>1, Untouched DEF StateRead, ClientTyped
<1>18. CASE StateArrives
  <2>1. StateTyped'
    BY <1>18 DEF StateArrives, ClientTyped, StateTyped, FetchType, NoFetch, NoFacts
  <2> QED
    BY <1>18, <2>1, Untouched DEF StateArrives, ClientTyped
<1>19. CASE StateFails
  <2>1. StateTyped'
    BY <1>19 DEF StateFails, ClientTyped, StateTyped, FetchType, NoFetch, NoFacts
  <2> QED
    BY <1>19, <2>1, Untouched DEF StateFails, ClientTyped
<1>20. CASE ChatMessage
  <2>1. RoomTyped' /\ LinkTyped' /\ Rows' = Rows
    BY <1>20, TakenKeepsTypes DEF ChatMessage
  <2>2. Head(queue).row \in Rows /\ shown \subseteq Rows
    BY <1>20, TakenFromQueue, EventIs DEF ChatMessage, ClientTyped, TabTyped
  <2>3. Merge(shown, {Head(queue).row}) \subseteq Rows
    BY <2>2, MergeIs
  <2>4. TabTyped'
    BY <1>20, <2>1, <2>3, RoomRests DEF ChatMessage, ClientTyped, TabTyped, NoPage
  <2> QED
    BY <1>20, <2>1, <2>4, Untouched DEF ChatMessage, ClientTyped
<1>21. CASE MessageDeleted
  <2>1. RoomTyped' /\ LinkTyped' /\ Rows' = Rows
    BY <1>21, TakenKeepsTypes DEF MessageDeleted
  <2>2. \A r \in Rows : [r EXCEPT !.quotes = 0] \in Rows
    BY DEF Rows, ClientTyped, RoomTyped
  <2>3. TabTyped'
    BY <1>21, <2>1, <2>2, RoomRests DEF MessageDeleted, ClientTyped, TabTyped, NoPage
  <2> QED
    BY <1>21, <2>1, <2>3, Untouched DEF MessageDeleted, ClientTyped
<1>22. CASE ReactionUpdate
  <2>1. RoomTyped' /\ LinkTyped' /\ Rows' = Rows
    BY <1>22, TakenKeepsTypes DEF ReactionUpdate
  <2>2. Head(queue).counted \in BOOLEAN
    BY <1>22, TakenFromQueue, EventIs DEF ReactionUpdate
  <2>3. \A r \in Rows : [r EXCEPT !.counted = Head(queue).counted] \in Rows
    BY <2>2 DEF Rows
  <2>4. TabTyped'
    BY <1>22, <2>1, <2>3, RoomRests DEF ReactionUpdate, ClientTyped, TabTyped, NoPage
  <2> QED
    BY <1>22, <2>1, <2>4, Untouched DEF ReactionUpdate, ClientTyped
<1>23. CASE PatchState
  <2>1. RoomTyped' /\ LinkTyped' /\ Rows' = Rows
    BY <1>23, TakenKeepsTypes DEF PatchState
  <2>2. PICK e \in ChatEvents : e = Head(queue) /\ e.field \in Fields /\ e.n \in Nat /\ e.mine \in BOOLEAN
    BY <1>23, TakenFromQueue, EventIs DEF PatchState
  <2>3. cache.have \in BOOLEAN /\ cache.at \in [Fields -> Nat] /\ cache.vote \in BOOLEAN
    BY DEF ClientTyped, StateTyped
  <2>4. cache' \in [have : BOOLEAN, at : [Fields -> Nat], vote : BOOLEAN]
    BY <1>23, <2>2, <2>3 DEF PatchState, ClientTyped, StateTyped
  <2>5. StateTyped'
    BY <1>23, <2>4 DEF PatchState, ClientTyped, StateTyped, FetchType
  <2> QED
    BY <1>23, <2>1, <2>5, Untouched DEF PatchState, ClientTyped
<1>24. CASE Moderation
  <2>1. RoomTyped' /\ LinkTyped' /\ Rows' = Rows
    BY <1>24, TakenKeepsTypes DEF Moderation
  <2> QED
    BY <1>24, <2>1, Untouched DEF Moderation, ClientTyped
<1>25. CASE TimeoutEnds
  BY <1>25, Untouched DEF TimeoutEnds, ClientTyped
<1>26. CASE Vote
  <2>1. UNCHANGED <<posted, gone, quote, facts, changes>> /\ ChatEvents' = ChatEvents
    BY <1>26, RoomRests DEF Vote
  <2>2. facts["poll"] \in Nat /\ cache.at["poll"] \in Nat
    BY ChatClientAssumption DEF ClientTyped, RoomTyped, StateTyped
  <2>3. PollOf(cache.at["poll"]) \in Nat
    BY <2>2 DEF PollOf
  <2>4. \A b \in BOOLEAN : [type |-> "patch", field |-> "poll", n |-> facts["poll"], mine |-> b] \in ChatEvents
    BY <2>2, EventMade, ChatClientAssumption
  <2>5. CASE UNCHANGED <<cast, outbox, queue>>
    BY <1>26, <2>1, <2>5, Untouched DEF Vote, ClientTyped
  <2>6. CASE /\ cast' = cast \cup {PollOf(cache.at["poll"])}
             /\ outbox' = outbox \cup {[type |-> "patch", field |-> "poll", n |-> facts["poll"], mine |-> FALSE]}
             /\ queue' = Append(queue, [type |-> "patch", field |-> "poll", n |-> facts["poll"], mine |-> TRUE])
    <3>1. cast' \subseteq Nat /\ outbox' \subseteq ChatEvents
      BY <2>3, <2>4, <2>6 DEF ClientTyped, RoomTyped
    <3>2. queue' \in Seq(ChatEvents)
      BY <2>4, <2>6, QueuedIs DEF ClientTyped, LinkTyped
    <3>3. RoomTyped' /\ LinkTyped'
      BY <1>26, <2>1, <3>1, <3>2 DEF Vote, ClientTyped, RoomTyped, LinkTyped
    <3> QED
      BY <1>26, <3>3, Untouched DEF Vote, ClientTyped
  <2> QED
    BY <1>26, <2>5, <2>6 DEF Vote, Tell
<1>27. CASE UNCHANGED vars
  BY <1>27, Untouched DEF vars, ClientTyped
<1> QED
  BY <1>1, <1>2, <1>3, <1>4, <1>5, <1>6, <1>7, <1>8, <1>9, <1>10, <1>11, <1>12, <1>13, <1>14, <1>15, <1>16,
     <1>17, <1>18, <1>19, <1>20, <1>21, <1>22, <1>23, <1>24, <1>25, <1>26, <1>27, <1>30, <1>31 DEF Next

-----------------------------------------------------------------------------
(* The connection and the answers that are awaited *)

(* A page that is left shows nothing and awaits nothing. *)
LeftEmpty == ~here => shown = {} /\ queue = <<>> /\ \A f \in 0..MaxDrops : pages[f] = NoPage

(* Nothing comes over a broken connection. *)
Broken == link \in {"lost", "down"} => queue = <<>>

(* The catch-up of the last break is not under way before it is asked for. *)
Unasked ==
  /\ \A f \in 0..MaxDrops : f > drops => pages[f] = NoPage
  /\ link = "lost" => drops > 0
  /\ here /\ WillCatchUp => drops > 0 /\ pages[drops] = NoPage

Wired == LeftEmpty /\ Broken /\ Unasked

LEMMA WiredRests ==
  ASSUME Wired, UNCHANGED <<here, shown, queue, pages, link, drops, wasDown>>
  PROVE  Wired'
BY DEF Wired, LeftEmpty, Broken, Unasked, WillCatchUp

(* An event is taken off the queue, while the page is shown. *)
LEMMA WiredTakes ==
  ASSUME ClientTyped, Wired, NEW t, Next1(t), UNCHANGED <<here, pages, link, drops, wasDown>>
  PROVE  Wired'
BY DEF Wired, LeftEmpty, Broken, Unasked, WillCatchUp, Next1

(* A page goes on that was asked for. *)
LEMMA WiredReads ==
  ASSUME ClientTyped, Wired, NEW f \in 0..MaxDrops, pages[f].stage # "idle", NEW p,
         pages' = [pages EXCEPT ![f] = p], UNCHANGED <<here, queue, link, drops, wasDown>>
  PROVE  Wired'
<1>1. pages[f] # NoPage
  BY DEF NoPage
<1>2. here /\ ~(f > drops) /\ ~(WillCatchUp /\ f = drops)
  BY <1>1 DEF Wired, LeftEmpty, Unasked
<1>3. \A g \in 0..MaxDrops : g # f => pages'[g] = pages[g]
  BY DEF ClientTyped, TabTyped
<1>4. drops \in 0..MaxDrops
  BY DEF ClientTyped, LinkTyped
<1> QED
  BY <1>2, <1>3, <1>4 DEF Wired, LeftEmpty, Broken, Unasked, WillCatchUp

LEMMA WiredStep ==
  ASSUME ClientTyped, Wired, [Next]_vars
  PROVE  Wired'
<1> USE DEF room, tab, state
<1>1. CASE \/ PostedByOthers \/ Submit \/ StateRead \/ StateArrives \/ StateFails \/ TimeoutEnds
           \/ UNCHANGED vars
           \/ VotedElsewhere
           \/ \E m \in Msgs : Delete(m) \/ ReactedElsewhere(m)
           \/ \E f \in Fields : Change(f)
  BY <1>1, WiredRests
     DEF VotedElsewhere, ReactedElsewhere, PostedByOthers, Submit, StateRead, StateArrives, StateFails, TimeoutEnds, vars, Delete, Change
<1>2. ASSUME NEW m \in Msgs, React(m)
      PROVE  Wired'
  BY <1>2 DEF React, CanReact, Wired, LeftEmpty, Broken, Unasked, WillCatchUp
<1>3. ASSUME NEW s \in {"none"} \cup Sanctions, Sanction(s)
      PROVE  Wired'
  BY <1>3 DEF Sanction, Wired, LeftEmpty, Broken, Unasked, WillCatchUp
<1>4. ASSUME NEW e \in outbox, Publish(e)
      PROVE  Wired'
  BY <1>4 DEF Publish, Wired, LeftEmpty, Broken, Unasked, WillCatchUp
<1>5. CASE Lost
  <2>1. /\ link' = "lost" /\ queue' = <<>> /\ drops' = drops + 1 /\ UNCHANGED <<here, shown, pages, wasDown>>
        /\ drops \in 0..MaxDrops /\ drops < MaxDrops
    BY <1>5 DEF Lost, ClientTyped, LinkTyped
  <2>2. drops' \in 0..MaxDrops /\ drops' > drops /\ drops' > 0 /\ \A f \in 0..MaxDrops : f > drops' => f > drops
    <3>1. MaxDrops \in Nat /\ drops \in Nat
      BY <2>1, ChatClientAssumption
    <3> QED
      BY <2>1, <3>1
  <2> QED
    BY <2>1, <2>2 DEF Wired, LeftEmpty, Broken, Unasked, WillCatchUp
<1>6. CASE Down
  BY <1>6 DEF Down, Wired, LeftEmpty, Broken, Unasked, WillCatchUp
<1>7. CASE Up
  <2>1. /\ link = "down" /\ link' = "open" /\ UNCHANGED <<here, shown, queue, drops>>
        /\ pages' = pages \/ \E p : here /\ wasDown /\ pages' = [pages EXCEPT ![drops] = p]
    BY <1>7 DEF Up
  <2>2. drops \in 0..MaxDrops /\ pages \in [0..MaxDrops -> PageType]
    BY DEF ClientTyped, LinkTyped, TabTyped
  <2>3. \A f \in 0..MaxDrops : f # drops => pages'[f] = pages[f]
    <3>1. CASE \E p : pages' = [pages EXCEPT ![drops] = p]
      BY <2>2, <3>1
    <3> QED
      BY <2>1, <3>1
  <2>4. \A f \in 0..MaxDrops : f > drops => f # drops
    BY <2>2
  <2> QED
    BY <2>1, <2>3, <2>4 DEF Wired, LeftEmpty, Broken, Unasked, WillCatchUp
<1>8. CASE Subscribed
  BY <1>8 DEF Subscribed, Wired, LeftEmpty, Broken, Unasked, WillCatchUp
<1>9. ASSUME NEW young \in BOOLEAN, Enter(young)
      PROVE  Wired'
  <2>1. /\ here' /\ ~wasDown' /\ UNCHANGED <<link, queue, drops>>
        /\ \A f \in 0..MaxDrops : f > 0 => pages'[f] = NoPage
    BY <1>9 DEF Enter
  <2>2. drops \in 0..MaxDrops
    BY DEF ClientTyped, LinkTyped
  <2> QED
    BY <2>1, <2>2 DEF Wired, LeftEmpty, Broken, Unasked, WillCatchUp
<1>10. CASE LeavePage
  BY <1>10 DEF LeavePage, Wired, LeftEmpty, Broken, Unasked, WillCatchUp
<1>11. ASSUME NEW f \in DOMAIN pages, PageRead(f) \/ PageArrives(f) \/ PageFails(f)
       PROVE  Wired'
  <2>1. f \in 0..MaxDrops /\ pages[f].stage # "idle"
    BY <1>11 DEF PageRead, PageArrives, PageFails, ClientTyped, TabTyped
  <2>2. \E p : pages' = [pages EXCEPT ![f] = p]
    BY <1>11 DEF PageRead, PageArrives, PageFails
  <2>3. UNCHANGED <<here, queue, link, drops, wasDown>>
    BY <1>11 DEF PageRead, PageArrives, PageFails
  <2> QED
    BY <2>1, <2>2, <2>3, WiredReads
<1>12. CASE ChatMessage \/ MessageDeleted \/ ReactionUpdate \/ PatchState \/ Moderation
  BY <1>12, WiredTakes DEF ChatMessage, MessageDeleted, ReactionUpdate, PatchState, Moderation
<1>13. CASE Vote
  BY <1>13 DEF Vote, Choosing, CanReact, Wired, LeftEmpty, Broken, Unasked, WillCatchUp
<1> QED
  BY <1>1, <1>2, <1>3, <1>4, <1>5, <1>6, <1>7, <1>8, <1>9, <1>10, <1>11, <1>12, <1>13 DEF Next

-----------------------------------------------------------------------------
(* What is told and not yet received *)

News == outbox \cup ToSet(queue)

(* Taking an event of another type changes nothing for the rest. *)
LEMMA TakenNews ==
  ASSUME ClientTyped, NEW t, Next1(t), UNCHANGED outbox
  PROVE  /\ Head(queue) \in News /\ Head(queue) \in ChatEvents /\ Head(queue).type = t
         /\ News' \subseteq News
         /\ \A e \in News : e \in News' \/ e = Head(queue)
BY TakenFromQueue DEF News

(* The events that E holds are lost to the tab. *)
LEMMA NewsIsTyped ==
  ASSUME ClientTyped
  PROVE  News \subseteq ChatEvents
BY NoneQueued DEF ClientTyped, RoomTyped, LinkTyped, News

LEMMA PostNews ==
  ASSUME NEW q, Post(q), UNCHANGED queue
  PROVE  /\ News \subseteq News'
         /\ \A e \in News' : e \in News \/ e.type = "chat_message"
BY DEF Post, Tell, News

LEMMA SanctionNews ==
  ASSUME ClientTyped, NEW s \in {"none"} \cup Sanctions, Sanction(s)
  PROVE  News \subseteq News' /\ \A e \in News' : e \in News \/ e.type = "moderation"
<1>1. queue \in Seq(ChatEvents) /\ [type |-> "moderation", action |-> s] \in ChatEvents
  BY EventMade DEF ClientTyped, LinkTyped
<1> QED
  BY <1>1, QueuedIs DEF Sanction, News

(* An event that is published goes to the tab, or nowhere. *)
LEMMA PublishNews ==
  ASSUME ClientTyped, NEW e \in outbox, Publish(e)
  PROVE  /\ \A x \in News' : x \in News \/ x.type = "counts"
         /\ \A x \in News : x \in News' \/ x = e
         /\ here /\ link = "heard" /\ e.type # "reaction_update" => e \in News'
<1>1. queue \in Seq(ChatEvents) /\ e \in ChatEvents /\ outbox' = outbox \ {e}
  BY DEF Publish, ClientTyped, LinkTyped, RoomTyped
<1>2. CASE here /\ link = "heard"
  <2>1. PICK n \in ChatEvents : /\ queue' = Append(queue, n)
                                /\ IF e.type # "reaction_update" THEN n = e ELSE n.type = "counts"
    <3>1. CASE e.type # "reaction_update"
      BY <1>1, <1>2, <3>1 DEF Publish
    <3>2. CASE e.type = "reaction_update"
      <4>1. [type |-> "counts", of |-> e.liked, counted |-> e.liked \in reacted] \in ChatEvents
        BY <1>1, <3>2, EventIs DEF ChatEvents
      <4> QED
        BY <1>2, <3>2, <4>1 DEF Publish
    <3> QED
      BY <3>1, <3>2
  <2>2. ToSet(queue') = ToSet(queue) \cup {n}
    BY <1>1, <2>1, QueuedIs
  <2> QED
    BY <1>1, <2>1, <2>2 DEF News
<1>3. CASE ~(here /\ link = "heard")
  BY <1>1, <1>3 DEF Publish, News
<1> QED
  BY <1>2, <1>3

LEMMA VoteNews ==
  ASSUME ClientTyped, Vote
  PROVE  /\ News \subseteq News'
         /\ \A e \in News' : e \in News \/ (e.type = "patch" /\ e.field = "poll" /\ e.n = facts["poll"])
<1>1. facts["poll"] \in Nat /\ queue \in Seq(ChatEvents)
  BY ChatClientAssumption DEF ClientTyped, RoomTyped, LinkTyped
<1>2. PICK sent \in ChatEvents :
        sent = [type |-> "patch", field |-> "poll", n |-> facts["poll"], mine |-> FALSE]
  BY <1>1, EventMade, ChatClientAssumption
<1>3. PICK mine \in ChatEvents :
        mine = [type |-> "patch", field |-> "poll", n |-> facts["poll"], mine |-> TRUE]
  BY <1>1, EventMade, ChatClientAssumption
<1>4. UNCHANGED <<outbox, queue>> \/ (outbox' = outbox \cup {sent} /\ queue' = Append(queue, mine))
  BY <1>2, <1>3 DEF Vote, Tell
<1>5. ToSet(Append(queue, mine)) = ToSet(queue) \cup {mine}
  BY <1>1, QueuedIs
<1>6. sent.type = "patch" /\ sent.field = "poll" /\ sent.n = facts["poll"]
  BY <1>2
<1>7. mine.type = "patch" /\ mine.field = "poll" /\ mine.n = facts["poll"]
  BY <1>3
<1> QED
  BY <1>4, <1>5, <1>6, <1>7 DEF News

-----------------------------------------------------------------------------
(* Own marks: OwnMarksAreTrue *)

OneEach(rows) == \A r \in rows, q \in rows : r.id = q.id => r = q

(* What tells of an own vote is right. *)
VotesTrue ==
  /\ \A e \in News : e.type = "patch" /\ e.mine => e.field = "poll" /\ PollOf(e.n) \in cast
  /\ stateFetch.voted \subseteq cast
  /\ cache.vote => PollOf(cache.at["poll"]) \in cast

RowsTrue ==
  /\ OneEach(shown) /\ \A f \in 0..MaxDrops : OneEach(pages[f].found)
  /\ \A r \in shown : r.id \notin unkept \cup gone => r.mine = (r.id \in reacted)

Marks == VotesTrue /\ RowsTrue

(* Nothing new tells of a vote. *)
LEMMA VotesRest ==
  ASSUME VotesTrue, cast \subseteq cast', UNCHANGED state,
         \A e \in News' : e.type = "patch" /\ e.mine => e \in News
  PROVE  VotesTrue'
BY DEF VotesTrue, state

LEMMA RowsRest ==
  ASSUME RowsTrue, UNCHANGED <<shown, pages, reacted>>, unkept \subseteq unkept', gone \subseteq gone'
  PROVE  RowsTrue'
BY DEF RowsTrue, OneEach

LEMMA MergeKeepsMarks ==
  ASSUME ClientTyped, RowsTrue, NEW batch \in SUBSET Rows, OneEach(batch),
         shown' = Merge(shown, batch), unkept' = unkept \cup Misremembered(batch),
         UNCHANGED <<gone, reacted>>,
         \A f \in 0..MaxDrops : OneEach(pages'[f].found)
  PROVE  RowsTrue'
<1>1. /\ shown' \subseteq Rows
      /\ \A r \in shown' : r \in shown \/ (r \in batch /\ r.id \notin Ids(shown))
  BY MergeIs DEF ClientTyped, TabTyped
<1>2. OneEach(shown')
  BY <1>1 DEF OneEach, RowsTrue, Ids
<1>3. ASSUME NEW r \in shown', r.id \notin unkept' \cup gone'
      PROVE  r.mine = (r.id \in reacted')
  <2>1. CASE r \in shown
    BY <1>3, <2>1 DEF RowsTrue
  <2>2. CASE r \in batch /\ r.id \notin Ids(shown)
    <3>1. r.id \notin {x.id : x \in {y \in batch : y.mine # (y.id \in reacted)}}
      BY <1>3, <2>2 DEF Misremembered
    <3> QED
      BY <2>2, <3>1
  <2> QED
    BY <1>1, <2>1, <2>2
<1> QED
  BY <1>2, <1>3 DEF RowsTrue

LEMMA VotesStep ==
  ASSUME ClientTyped, Wired, VotesTrue, [Next]_vars
  PROVE  VotesTrue'
<1> USE DEF room, tab
<1>1. CASE UNCHANGED <<outbox, queue, cast, state>>
  BY <1>1, VotesRest DEF News
<1>2. ASSUME NEW q, Post(q), UNCHANGED <<queue, state>>
      PROVE  VotesTrue'
  BY <1>2, VotesRest DEF Post, Tell, News
<1>3. ASSUME NEW m \in Msgs, Delete(m)
      PROVE  VotesTrue'
  BY <1>3, VotesRest DEF Delete, Tell, News
<1>4. ASSUME NEW m \in Msgs, React(m)
      PROVE  VotesTrue'
  BY <1>4, VotesRest DEF React, Tell, News
<1>20. ASSUME NEW m \in Msgs, ReactedElsewhere(m)
       PROVE  VotesTrue'
  BY <1>20, VotesRest DEF ReactedElsewhere, Tell, News
<1>21. CASE VotedElsewhere
  BY <1>21, VotesRest DEF VotedElsewhere, Tell, News
<1>5. ASSUME NEW f \in Fields, Change(f)
      PROVE  VotesTrue'
  BY <1>5, VotesRest DEF Change, Tell, News
<1>6. ASSUME NEW s \in {"none"} \cup Sanctions, Sanction(s)
      PROVE  VotesTrue'
  <2>1. queue \in Seq(ChatEvents) /\ [type |-> "moderation", action |-> s] \in ChatEvents
    BY EventMade DEF ClientTyped, LinkTyped
  <2>2. ToSet(queue') \subseteq ToSet(queue) \cup {[type |-> "moderation", action |-> s]}
    BY <1>6, <2>1, QueuedIs DEF Sanction
  <2> QED
    BY <1>6, <2>2, VotesRest DEF Sanction, News
<1>7. ASSUME NEW e \in outbox, Publish(e)
      PROVE  VotesTrue'
  <2>1. queue \in Seq(ChatEvents) /\ e \in ChatEvents
    BY DEF ClientTyped, LinkTyped, RoomTyped
  <2>2. CASE UNCHANGED queue
    BY <1>7, <2>2, VotesRest DEF Publish, News
  <2>3. CASE e.type # "reaction_update" /\ queue' = Append(queue, e)
    BY <1>7, <2>1, <2>3, QueuedIs, VotesRest DEF Publish, News
  <2>4. CASE /\ e.type = "reaction_update"
             /\ queue' = Append(queue, [type |-> "counts", of |-> e.liked, counted |-> e.liked \in reacted])
    <3>1. [type |-> "counts", of |-> e.liked, counted |-> e.liked \in reacted] \in ChatEvents
      BY <2>1, <2>4, EventIs DEF ChatEvents
    <3>2. ToSet(queue') = ToSet(queue) \cup {[type |-> "counts", of |-> e.liked, counted |-> e.liked \in reacted]}
      BY <2>1, <2>4, <3>1, QueuedIs
    <3> QED
      BY <1>7, <3>2, VotesRest DEF Publish, News
  <2> QED
    BY <1>7, <2>2, <2>3, <2>4 DEF Publish
<1>8. CASE (Lost \/ LeavePage) /\ queue' = <<>>
  BY <1>8, NoneQueued, VotesRest DEF Lost, LeavePage, News
<1>9. CASE Up
  <2>1. stateFetch'.voted \subseteq cast'
    BY <1>9 DEF Up, Refetch, NoFetch, VotesTrue
  <2> QED
    BY <1>9, <2>1 DEF Up, VotesTrue, News
<1>10. ASSUME NEW young \in BOOLEAN, Enter(young)
       PROVE  VotesTrue'
  <2>1. stateFetch'.voted \subseteq cast'
    BY <1>10 DEF Enter, NoFetch, VotesTrue
  <2> QED
    BY <1>10, <2>1 DEF Enter, VotesTrue, News
<1>11. CASE StateRead
  BY <1>11 DEF StateRead, VotesTrue, News
<1>12. CASE StateArrives
  <2>1. cache'.vote => PollOf(cache'.at["poll"]) \in cast'
    BY <1>12 DEF StateArrives, VotesTrue
  <2> QED
    BY <1>12, <2>1 DEF StateArrives, VotesTrue, News, NoFetch
<1>13. CASE StateFails
  BY <1>13 DEF StateFails, VotesTrue, News, NoFetch
<1>14. CASE PatchState
  <2>1. News' \subseteq News /\ Head(queue) \in News /\ Head(queue).type = "patch" /\ Head(queue) \in ChatEvents
    BY <1>14, TakenNews DEF PatchState
  <2>2. Head(queue).field \in Fields /\ "poll" \in Fields
    BY <2>1, EventIs, ChatClientAssumption
  <2>3. cache \in [have : BOOLEAN, at : [Fields -> Nat], vote : BOOLEAN]
    BY DEF ClientTyped, StateTyped
  <2>4. cache'.vote => PollOf(cache'.at["poll"]) \in cast
    <3>1. CASE Head(queue).field = "poll"
      <4>1. PollOf(Head(queue).n) \in cast \/ ~Head(queue).mine
        BY <2>1 DEF VotesTrue
      <4>2. CASE cache.have
        <5>1. cache'.at["poll"] = Head(queue).n
          BY <1>14, <2>2, <2>3, <3>1, <4>2 DEF PatchState
        <5>2. cache'.vote => \/ Head(queue).mine
                             \/ (PollOf(Head(queue).n) = PollOf(cache.at["poll"]) /\ cache.vote)
          BY <1>14, <2>2, <2>3, <3>1, <4>2 DEF PatchState
        <5> QED
          BY <4>1, <5>1, <5>2 DEF VotesTrue
      <4> QED
        BY <1>14, <4>2 DEF PatchState, VotesTrue
    <3>2. CASE Head(queue).field # "poll"
      <4>1. cache'.vote = cache.vote /\ cache'.at["poll"] = cache.at["poll"]
        BY <1>14, <2>2, <2>3, <3>2 DEF PatchState
      <4> QED
        BY <4>1 DEF VotesTrue
    <3> QED
      BY <3>1, <3>2
  <2> QED
    BY <1>14, <2>1, <2>4 DEF PatchState, VotesTrue
<1>15. CASE ChatMessage \/ MessageDeleted \/ ReactionUpdate \/ Moderation
  <2>1. News' \subseteq News /\ UNCHANGED <<cast, state>>
    BY <1>15, TakenNews DEF ChatMessage, MessageDeleted, ReactionUpdate, Moderation
  <2> QED
    BY <2>1, VotesRest
<1>16. CASE Vote
  <2>1. cast \subseteq cast' /\ UNCHANGED state
    BY <1>16 DEF Vote
  <2>2. CASE UNCHANGED <<outbox, queue>>
    BY <2>1, <2>2, VotesRest DEF News
  <2>3. CASE /\ facts["poll"] \in Nat /\ PollOf(facts["poll"]) \in cast'
             /\ outbox' = outbox \cup {[type |-> "patch", field |-> "poll", n |-> facts["poll"], mine |-> FALSE]}
             /\ queue' = Append(queue, [type |-> "patch", field |-> "poll", n |-> facts["poll"], mine |-> TRUE])
    <3>1. PICK sent \in ChatEvents :
            sent = [type |-> "patch", field |-> "poll", n |-> facts["poll"], mine |-> FALSE]
      BY <2>3, EventMade, ChatClientAssumption
    <3>2. PICK mine \in ChatEvents :
            mine = [type |-> "patch", field |-> "poll", n |-> facts["poll"], mine |-> TRUE]
      BY <2>3, EventMade, ChatClientAssumption
    <3>3. ~sent.mine /\ mine.field = "poll" /\ PollOf(mine.n) \in cast'
      BY <2>3, <3>1, <3>2
    <3>4. queue \in Seq(ChatEvents)
      BY DEF ClientTyped, LinkTyped
    <3>5. ToSet(queue') = ToSet(queue) \cup {mine}
      <4>1. queue' = Append(queue, mine)
        BY <2>3, <3>2
      <4> QED
        BY <3>4, <4>1, QueuedIs
    <3>6. \A e \in News' : e.type = "patch" /\ e.mine => e = mine \/ e \in News
      BY <2>3, <3>1, <3>3, <3>5 DEF News
    <3>7. \A e \in News' : e.type = "patch" /\ e.mine => e.field = "poll" /\ PollOf(e.n) \in cast'
      BY <2>1, <3>3, <3>6 DEF VotesTrue
    <3> QED
      BY <2>1, <3>7 DEF VotesTrue, state
  <2>4. facts["poll"] \in Nat
    BY ChatClientAssumption DEF ClientTyped, RoomTyped
  <2> QED
    BY <1>16, <2>2, <2>3, <2>4 DEF Vote, Tell
<1>17. CASE PostedByOthers \/ Submit
  <2>1. (\E q : Post(q)) \/ UNCHANGED <<outbox, cast>>
    BY <1>17 DEF PostedByOthers, Submit
  <2> QED
    BY <1>1, <1>2, <1>17, <2>1 DEF PostedByOthers, Submit
<1>18. CASE \/ Down \/ Subscribed \/ TimeoutEnds \/ UNCHANGED vars
            \/ \E f \in DOMAIN pages : PageRead(f) \/ PageArrives(f) \/ PageFails(f)
  BY <1>1, <1>18 DEF Down, Subscribed, TimeoutEnds, vars, PageRead, PageArrives, PageFails
<1>19. CASE Lost \/ LeavePage
  BY <1>8, <1>19 DEF Lost, LeavePage
<1> QED
  BY <1>3, <1>4, <1>5, <1>6, <1>7, <1>9, <1>10, <1>11, <1>12, <1>13, <1>14, <1>15, <1>16,
     <1>17, <1>18, <1>19, <1>20, <1>21 DEF Next

LEMMA RowsStep ==
  ASSUME ClientTyped, Wired, RowsTrue, [Next]_vars
  PROVE  RowsTrue'
<1> USE DEF room, tab, state
<1>1. CASE \/ PostedByOthers \/ Submit
  <2>1. UNCHANGED <<shown, pages, gone, reacted, unkept>>
    BY <1>1 DEF PostedByOthers, Submit, Post, history
  <2> QED
    BY <2>1, RowsRest
<1>2. CASE \/ Down \/ Subscribed \/ StateRead \/ StateArrives \/ StateFails \/ TimeoutEnds \/ Vote
           \/ PatchState \/ Moderation \/ UNCHANGED vars \/ VotedElsewhere
           \/ \E m \in Msgs : Delete(m)
           \/ \E f \in Fields : Change(f)
           \/ \E s \in {"none"} \cup Sanctions : Sanction(s)
  BY <1>2, RowsRest
     DEF VotedElsewhere, Down, Subscribed, StateRead, StateArrives, StateFails, TimeoutEnds, Vote, PatchState, Moderation, vars,
         Delete, Change, Sanction, history
<1>3. CASE (\E e \in outbox : Publish(e)) \/ Lost
  BY <1>3, RowsRest DEF Publish, Lost, Missed, history
<1>4. ASSUME NEW m \in Msgs, React(m)
      PROVE  RowsTrue'
  <2>1. PICK r \in shown : r.id = m /\ \E turned \in Chip(r) \cup Picker :
          /\ shown' = (shown \ {r}) \cup {[r EXCEPT !.mine = turned, !.counted = turned]}
          /\ \/ reacted' = (IF turned THEN reacted \cup {m} ELSE reacted \ {m}) /\ unkept' = unkept \ {m}
             \/ unkept' = unkept \cup {m} /\ UNCHANGED reacted
    BY <1>4 DEF React
  <2>2. PICK turned \in BOOLEAN :
          /\ shown' = (shown \ {r}) \cup {[r EXCEPT !.mine = turned, !.counted = turned]}
          /\ \/ reacted' = (IF turned THEN reacted \cup {m} ELSE reacted \ {m}) /\ unkept' = unkept \ {m}
             \/ unkept' = unkept \cup {m} /\ UNCHANGED reacted
    BY <2>1 DEF Chip, Picker, ClientTyped, TabTyped, Rows
  <2>3. r \in Rows
    BY <2>1 DEF ClientTyped, TabTyped
  <2>4. PICK new \in Rows : /\ new = [r EXCEPT !.mine = turned, !.counted = turned]
                            /\ new.id = m /\ new.mine = turned
    <3>1. [r EXCEPT !.mine = turned, !.counted = turned] \in Rows
      BY <2>3 DEF Rows
    <3>2. [r EXCEPT !.mine = turned, !.counted = turned].id = m /\ [r EXCEPT !.mine = turned, !.counted = turned].mine = turned
      BY <2>1, <2>3 DEF Rows
    <3> QED
      BY <3>1, <3>2
  <2>5. shown' = (shown \ {r}) \cup {new}
    BY <2>2, <2>4
  <2>6. \A q \in shown \ {r} : q.id # m
    BY <2>1 DEF RowsTrue, OneEach
  <2>7. OneEach(shown')
    BY <2>4, <2>5, <2>6 DEF RowsTrue, OneEach
  <2>8. UNCHANGED <<pages, gone>>
    BY <1>4 DEF React
  <2>9. ASSUME NEW q \in shown', q.id \notin unkept' \cup gone'
        PROVE  q.mine = (q.id \in reacted')
    <3>1. CASE q = new
      BY <2>2, <2>3, <2>4, <2>9, <3>1
    <3>2. CASE q \in shown \ {r}
      <4>1. q.id # m /\ q.id \notin unkept \cup gone
        BY <2>2, <2>6, <2>8, <2>9, <3>2
      <4>2. q.mine = (q.id \in reacted)
        BY <3>2, <4>1 DEF RowsTrue
      <4> QED
        BY <2>2, <4>1, <4>2
    <3> QED
      BY <2>5, <3>1, <3>2
  <2> QED
    BY <2>7, <2>8, <2>9 DEF RowsTrue
<1>14. ASSUME NEW m \in Msgs, ReactedElsewhere(m)
       PROVE  RowsTrue'
  <2>1. /\ UNCHANGED <<shown, pages, gone>>
        /\ reacted' = (reacted \ {m}) \cup ({m} \ reacted)
        /\ unkept' = unkept \cup ({m} \cap Ids(shown))
    BY <1>14 DEF ReactedElsewhere, SymDiff
  <2>2. ASSUME NEW q \in shown', q.id \notin unkept' \cup gone'
        PROVE  q.mine = (q.id \in reacted')
    <3>1. q \in shown /\ q.id \in Ids(shown) /\ q.id \notin unkept \cup gone
      BY <2>1, <2>2 DEF Ids
    <3>2. q.id # m
      BY <2>1, <2>2, <3>1
    <3>3. q.mine = (q.id \in reacted)
      BY <3>1 DEF RowsTrue
    <3> QED
      BY <2>1, <3>2, <3>3
  <2> QED
    BY <2>1, <2>2 DEF RowsTrue, OneEach
<1>5. CASE Up
  <2>1. drops \in 0..MaxDrops /\ pages \in [0..MaxDrops -> PageType]
    BY DEF ClientTyped, LinkTyped, TabTyped
  <2>2. \A f \in 0..MaxDrops : pages'[f].found = pages[f].found \/ pages'[f].found = {}
    <3>1. \/ pages' = pages
          \/ pages' = [pages EXCEPT ![drops] = [stage |-> "asked", after |-> Newest, found |-> {}]]
      BY <1>5 DEF Up
    <3>2. \A f \in 0..MaxDrops : \/ pages'[f] = pages[f]
                               \/ pages'[f] = [stage |-> "asked", after |-> Newest, found |-> {}]
      BY <2>1, <3>1
    <3>3. [stage |-> "asked", after |-> Newest, found |-> {}].found = {}
      OBVIOUS
    <3> QED
      BY <3>2, <3>3
  <2> QED
    BY <1>5, <2>2 DEF Up, RowsTrue, OneEach
<1>6. ASSUME NEW young \in BOOLEAN, Enter(young)
      PROVE  RowsTrue'
  BY <1>6 DEF Enter, NoPage, RowsTrue, OneEach
<1>7. CASE LeavePage
  BY <1>7 DEF LeavePage, NoPage, RowsTrue, OneEach
<1>8. ASSUME NEW f \in DOMAIN pages, PageRead(f)
      PROVE  RowsTrue'
  <2>1. f \in 0..MaxDrops /\ pages \in [0..MaxDrops -> PageType]
    BY DEF ClientTyped, TabTyped
  <2>2. PICK batch \in SUBSET (1..posted) :
          pages' = [pages EXCEPT ![f].stage = "read", ![f].found = {Row(m) : m \in batch}]
    BY <1>8 DEF PageRead, LastOf
  <2>3. OneEach({Row(m) : m \in batch})
    <3>1. \A m \in batch : Row(m).id = m
      BY <2>2, RowMade
    <3> QED
      BY <3>1 DEF OneEach
  <2>4. /\ pages'[f].found = {Row(m) : m \in batch}
        /\ \A g \in 0..MaxDrops \ {f} : pages'[g] = pages[g]
    BY <2>1, <2>2 DEF PageType
  <2> QED
    BY <1>8, <2>3, <2>4 DEF PageRead, RowsTrue, OneEach
<1>9. ASSUME NEW f \in DOMAIN pages, PageArrives(f)
      PROVE  RowsTrue'
  <2>1. f \in 0..MaxDrops /\ pages \in [0..MaxDrops -> PageType] /\ pages[f].found \in SUBSET Rows
    BY DEF ClientTyped, TabTyped, PageType
  <2>2. OneEach(pages[f].found) /\ \A g \in 0..MaxDrops : OneEach(pages'[g].found)
    BY <1>9, <2>1 DEF PageArrives, RowsTrue, NoPage, OneEach
  <2> QED
    BY <1>9, <2>1, <2>2, MergeKeepsMarks DEF PageArrives
<1>10. ASSUME NEW f \in DOMAIN pages, PageFails(f)
       PROVE  RowsTrue'
  <2>1. f \in 0..MaxDrops /\ pages \in [0..MaxDrops -> PageType]
    BY DEF ClientTyped, TabTyped
  <2>2. \A g \in 0..MaxDrops : OneEach(pages'[g].found)
    BY <1>10, <2>1 DEF PageFails, RowsTrue, NoPage, OneEach
  <2> QED
    BY <1>10, <2>2 DEF PageFails, RowsTrue
<1>11. CASE ChatMessage
  <2>1. Head(queue).row \in Rows
    BY <1>11, TakenFromQueue, EventIs DEF ChatMessage
  <2>2. OneEach({Head(queue).row}) /\ \A g \in 0..MaxDrops : OneEach(pages'[g].found)
    BY <1>11 DEF ChatMessage, RowsTrue, OneEach
  <2> QED
    BY <1>11, <2>1, <2>2, MergeKeepsMarks DEF ChatMessage
<1>12. CASE MessageDeleted
  <2> DEFINE Turned(r) == IF r.quotes = Head(queue).deleted THEN [r EXCEPT !.quotes = 0] ELSE r
  <2>1. \A q \in shown' : \E r \in shown : q.id = r.id /\ q.mine = r.mine /\ q = Turned(r)
    BY <1>12 DEF MessageDeleted, ClientTyped, TabTyped, Rows
  <2> HIDE DEF Turned
  <2>2. OneEach(shown')
    <3> SUFFICES ASSUME NEW q \in shown', NEW p \in shown', q.id = p.id
                 PROVE  q = p
      BY DEF OneEach
    <3>1. PICK r \in shown : r.id = q.id /\ q = Turned(r)
      BY <2>1
    <3>2. PICK t \in shown : t.id = p.id /\ p = Turned(t)
      BY <2>1
    <3>3. r = t
      BY <3>1, <3>2 DEF RowsTrue, OneEach
    <3> QED
      BY <3>1, <3>2, <3>3
  <2>3. UNCHANGED <<pages, gone, reacted, unkept>>
    BY <1>12 DEF MessageDeleted, history
  <2> QED
    BY <2>1, <2>2, <2>3 DEF RowsTrue
<1>13. CASE ReactionUpdate
  <2> DEFINE Turned(r) == IF r.id = Head(queue).of THEN [r EXCEPT !.counted = Head(queue).counted] ELSE r
  <2>1. \A q \in shown' : \E r \in shown : q.id = r.id /\ q.mine = r.mine /\ q = Turned(r)
    BY <1>13 DEF ReactionUpdate, ClientTyped, TabTyped, Rows
  <2> HIDE DEF Turned
  <2>2. OneEach(shown')
    <3> SUFFICES ASSUME NEW q \in shown', NEW p \in shown', q.id = p.id
                 PROVE  q = p
      BY DEF OneEach
    <3>1. PICK r \in shown : r.id = q.id /\ q = Turned(r)
      BY <2>1
    <3>2. PICK t \in shown : t.id = p.id /\ p = Turned(t)
      BY <2>1
    <3>3. r = t
      BY <3>1, <3>2 DEF RowsTrue, OneEach
    <3> QED
      BY <3>1, <3>2, <3>3
  <2>3. UNCHANGED <<pages, gone, reacted, unkept>>
    BY <1>13 DEF ReactionUpdate, history
  <2> QED
    BY <2>1, <2>2, <2>3 DEF RowsTrue
<1> QED
  BY <1>1, <1>2, <1>3, <1>4, <1>5, <1>6, <1>7, <1>8, <1>9, <1>10, <1>11, <1>12, <1>13, <1>14 DEF Next

-----------------------------------------------------------------------------
(* Deleted messages: DeletedGone *)

(* Events that are still to come, of which the tab has not missed the rest *)
StillTold == \A e \in News : e.type = "message_deleted" => e \in News' \/ e.deleted \in stale'

LEMMA DeletionsStay ==
  ASSUME StillTold
  PROVE  ComingDeletions \subseteq ComingDeletions' \cup stale'
BY DEF StillTold, ComingDeletions, Coming, News

(* No row is new, and none has more text than it had. *)
LEMMA DeletedRests ==
  ASSUME ClientTyped, DeletedGone, here' => here, UNCHANGED gone, stale \subseteq stale', StillTold,
         \A q \in shown' : \E r \in shown : q.id = r.id /\ (q.quotes = r.quotes \/ q.quotes = 0)
  PROVE  DeletedGone'
<1>1. 0 \notin gone
  BY DEF ClientTyped, RoomTyped
<1>2. ASSUME here', NEW q \in shown'
      PROVE  ({q.id, q.quotes} \cap gone') \subseteq ComingDeletions' \cup stale'
  <2>1. PICK r \in shown : q.id = r.id /\ (q.quotes = r.quotes \/ q.quotes = 0)
    OBVIOUS
  <2>2. ({r.id, r.quotes} \cap gone) \subseteq ComingDeletions \cup stale
    BY <1>2 DEF DeletedGone
  <2>3. ComingDeletions \cup stale \subseteq ComingDeletions' \cup stale'
    BY DeletionsStay
  <2> QED
    BY <1>1, <2>1, <2>2, <2>3
<1> QED
  BY <1>2 DEF DeletedGone

(* What arrives is there at once, or too late. *)
LEMMA DeletedMerges ==
  ASSUME ClientTyped, DeletedGone, NEW batch \in SUBSET Rows, UNCHANGED <<here, gone>>,
         shown' = Merge(shown, batch), stale' = stale \cup TooLate(batch), StillTold
  PROVE  DeletedGone'
<1>1. \A q \in shown' : q \in shown \/ q \in batch
  BY MergeIs DEF ClientTyped, TabTyped
<1>2. ComingDeletions \cup stale \subseteq ComingDeletions' \cup stale'
  BY DeletionsStay
<1>3. ASSUME here', NEW q \in shown'
      PROVE  ({q.id, q.quotes} \cap gone') \subseteq ComingDeletions' \cup stale'
  <2>1. CASE q \in shown
    BY <1>2, <1>3, <2>1 DEF DeletedGone
  <2>2. CASE q \in batch
    <3>1. ({q.id, q.quotes} \cap gone) \subseteq TooLate(batch) \cup ComingDeletions
      BY <2>2 DEF TooLate, Ids
    <3> QED
      BY <1>2, <3>1
  <2> QED
    BY <1>1, <2>1, <2>2
<1> QED
  BY <1>3 DEF DeletedGone

LEMMA DeletedStep ==
  ASSUME ClientTyped, Wired, DeletedGone, [Next]_vars
  PROVE  DeletedGone'
<1> USE DEF room, tab, state, history
<1>1. CASE UNCHANGED <<here, shown, gone, outbox, queue, stale>>
  <2>1. StillTold
    BY <1>1 DEF StillTold, News
  <2> QED
    BY <1>1, <2>1, DeletedRests
<1>2. ASSUME UNCHANGED <<here, shown, gone, queue, stale>>, outbox \subseteq outbox'
      PROVE  DeletedGone'
  <2>1. StillTold
    BY <1>2 DEF StillTold, News
  <2> QED
    BY <1>2, <2>1, DeletedRests
<1>3. ASSUME NEW m \in Msgs, Delete(m)
      PROVE  DeletedGone'
  <2>1. /\ gone' = gone \cup {m} /\ UNCHANGED <<here, shown, queue, stale>>
        /\ outbox' = outbox \cup {[type |-> "message_deleted", deleted |-> m]}
    BY <1>3 DEF Delete, Tell
  <2>2. StillTold
    BY <2>1 DEF StillTold, News
  <2>3. m \in ComingDeletions'
    <3>1. [type |-> "message_deleted", deleted |-> m] \in News'
      BY <2>1 DEF News
    <3> QED
      BY <3>1 DEF ComingDeletions, Coming, News
  <2>4. ComingDeletions \cup stale \subseteq ComingDeletions' \cup stale'
    BY <2>1, <2>2, DeletionsStay
  <2> QED
    BY <2>1, <2>3, <2>4 DEF DeletedGone
<1>4. ASSUME NEW m \in Msgs, React(m)
      PROVE  DeletedGone'
  <2>1. PICK r \in shown : \E turned \in Chip(r) \cup Picker :
          shown' = (shown \ {r}) \cup {[r EXCEPT !.mine = turned, !.counted = turned]}
    BY <1>4 DEF React
  <2>2. PICK turned \in BOOLEAN : shown' = (shown \ {r}) \cup {[r EXCEPT !.mine = turned, !.counted = turned]}
    BY <2>1 DEF Chip, Picker, ClientTyped, TabTyped, Rows
  <2>3. [r EXCEPT !.mine = turned, !.counted = turned].id = r.id /\ [r EXCEPT !.mine = turned, !.counted = turned].quotes = r.quotes
    BY <2>2 DEF ClientTyped, TabTyped, Rows
  <2>4. \A q \in shown' : \E p \in shown : q.id = p.id /\ (q.quotes = p.quotes \/ q.quotes = 0)
    BY <2>2, <2>3
  <2>5. UNCHANGED <<here, gone, queue, stale>> /\ outbox \subseteq outbox'
    BY <1>4 DEF React, Tell
  <2>6. StillTold
    BY <2>5 DEF StillTold, News
  <2> QED
    BY <2>4, <2>5, <2>6, DeletedRests
<1>19. CASE VotedElsewhere \/ \E m \in Msgs : ReactedElsewhere(m)
  BY <1>2, <1>19 DEF VotedElsewhere, ReactedElsewhere, Tell
<1>5. ASSUME NEW f \in Fields, Change(f)
      PROVE  DeletedGone'
  BY <1>2, <1>5 DEF Change, Tell
<1>6. ASSUME NEW s \in {"none"} \cup Sanctions, Sanction(s)
      PROVE  DeletedGone'
  <2>1. queue \in Seq(ChatEvents) /\ [type |-> "moderation", action |-> s] \in ChatEvents
    BY EventMade DEF ClientTyped, LinkTyped
  <2>2. StillTold
    BY <1>6, <2>1, QueuedIs DEF Sanction, StillTold, News
  <2> QED
    BY <1>6, <2>2, DeletedRests DEF Sanction
<1>7. ASSUME NEW e \in outbox, Publish(e)
      PROVE  DeletedGone'
  <2>1. /\ queue \in Seq(ChatEvents) /\ e \in ChatEvents
        /\ outbox' = outbox \ {e} /\ UNCHANGED <<here, shown, gone>>
    BY <1>7 DEF Publish, ClientTyped, LinkTyped, RoomTyped
  <2>2. CASE here /\ link = "heard"
    <3>1. StillTold
      BY <1>7, <2>1, <2>2, PublishNews DEF StillTold, ChatEvents
    <3>2. UNCHANGED stale
      BY <1>7, <2>2 DEF Publish
    <3> QED
      BY <2>1, <3>1, <3>2, DeletedRests
  <2>3. CASE here /\ link # "heard"
    <3>1. /\ stale' = stale \cup {x.deleted : x \in {y \in {e} : y.type = "message_deleted"}}
          /\ UNCHANGED queue
      BY <1>7, <2>3 DEF Publish, Missed
    <3>2. StillTold
      BY <2>1, <3>1 DEF StillTold, News
    <3> QED
      BY <2>1, <3>1, <3>2, DeletedRests
  <2>4. CASE ~here
    BY <2>1, <2>4 DEF DeletedGone
  <2> QED
    BY <2>2, <2>3, <2>4
<1>8. CASE Lost
  <2>1. CASE here
    <3>1. /\ stale' = stale \cup {e.deleted : e \in {x \in ToSet(queue) : x.type = "message_deleted"}}
          /\ UNCHANGED <<here, shown, gone, outbox>>
      BY <1>8, <2>1 DEF Lost
    <3>2. StillTold
      BY <3>1 DEF StillTold, News
    <3> QED
      BY <3>1, <3>2, DeletedRests
  <2>2. CASE ~here
    BY <1>8, <2>2 DEF Lost, DeletedGone
  <2> QED
    BY <2>1, <2>2
<1>9. ASSUME NEW young \in BOOLEAN, Enter(young)
      PROVE  DeletedGone'
  BY <1>9 DEF Enter, Wired, LeftEmpty, DeletedGone
<1>10. CASE LeavePage
  BY <1>10 DEF LeavePage, DeletedGone
<1>11. ASSUME NEW f \in DOMAIN pages, PageArrives(f)
       PROVE  DeletedGone'
  <2>1. pages[f].found \in SUBSET Rows
    BY DEF ClientTyped, TabTyped, PageType
  <2>2. StillTold
    BY <1>11 DEF PageArrives, StillTold, News
  <2> QED
    BY <1>11, <2>1, <2>2, DeletedMerges DEF PageArrives
<1>12. CASE ChatMessage
  <2>1. Head(queue).row \in Rows
    BY <1>12, TakenFromQueue, EventIs DEF ChatMessage
  <2>2. StillTold
    BY <1>12, TakenNews DEF ChatMessage, StillTold
  <2> QED
    BY <1>12, <2>1, <2>2, DeletedMerges DEF ChatMessage
<1>13. CASE MessageDeleted
  <2> DEFINE d == Head(queue).deleted
  <2>1. /\ \A e \in News : e \in News' \/ e = Head(queue)
        /\ UNCHANGED <<here, gone, stale>>
    BY <1>13, TakenNews DEF MessageDeleted
  <2>2. ComingDeletions \subseteq ComingDeletions' \cup {d}
    BY <2>1 DEF ComingDeletions, Coming, News
  <2>3. shown' = {IF r.quotes = d THEN [r EXCEPT !.quotes = 0] ELSE r : r \in {x \in shown : x.id # d}}
    BY <1>13 DEF MessageDeleted
  <2>4. 0 \notin gone
    BY DEF ClientTyped, RoomTyped
  <2>5. ASSUME NEW q \in shown', here
        PROVE  ({q.id, q.quotes} \cap gone) \subseteq ComingDeletions' \cup stale
    <3>1. PICK r \in shown : r.id # d /\ q = (IF r.quotes = d THEN [r EXCEPT !.quotes = 0] ELSE r)
      BY <2>3
    <3>2. q.id = r.id /\ (IF r.quotes = d THEN q.quotes = 0 ELSE q.quotes = r.quotes)
      BY <3>1 DEF ClientTyped, TabTyped, Rows
    <3>3. ({r.id, r.quotes} \cap gone) \subseteq ComingDeletions \cup stale
      BY <2>5 DEF DeletedGone
    <3>4. q.quotes = r.quotes \/ q.quotes = 0
      BY <3>2
    <3>5. {q.id, q.quotes} \cap gone \subseteq ({r.id, r.quotes} \cap gone) \ {d}
      BY <2>4, <3>1, <3>2
    <3> QED
      BY <2>2, <3>3, <3>5
  <2> QED
    BY <2>1, <2>5 DEF DeletedGone
<1>14. CASE ReactionUpdate
  <2>1. StillTold
    BY <1>14, TakenNews DEF ReactionUpdate, StillTold
  <2>2. \A q \in shown' : \E r \in shown : q.id = r.id /\ (q.quotes = r.quotes \/ q.quotes = 0)
    BY <1>14 DEF ReactionUpdate, ClientTyped, TabTyped, Rows
  <2> QED
    BY <1>14, <2>1, <2>2, DeletedRests DEF ReactionUpdate
<1>15. CASE PatchState \/ Moderation
  <2>1. StillTold
    BY <1>15, TakenNews DEF PatchState, Moderation, StillTold
  <2> QED
    BY <1>15, <2>1, DeletedRests DEF PatchState, Moderation
<1>16. CASE Vote
  <2>1. UNCHANGED <<here, shown, gone, stale>>
    BY <1>16 DEF Vote
  <2>2. StillTold
    BY <1>16, VoteNews DEF StillTold
  <2> QED
    BY <2>1, <2>2, DeletedRests
<1>17. CASE PostedByOthers \/ Submit
  <2>1. (\E q : Post(q)) \/ UNCHANGED <<room, outbox>>
    BY <1>17 DEF PostedByOthers, Submit
  <2>2. UNCHANGED gone /\ outbox \subseteq outbox'
    BY <2>1 DEF Post, Tell
  <2> QED
    BY <1>2, <1>17, <2>2 DEF PostedByOthers, Submit
<1>18. CASE \/ Down \/ Subscribed \/ Up \/ StateRead \/ StateArrives \/ StateFails \/ TimeoutEnds \/ UNCHANGED vars
            \/ \E f \in DOMAIN pages : PageRead(f) \/ PageFails(f)
  BY <1>1, <1>18
     DEF Down, Subscribed, Up, StateRead, StateArrives, StateFails, TimeoutEnds, vars, PageRead, PageFails
<1> QED
  BY <1>3, <1>4, <1>5, <1>6, <1>7, <1>8, <1>9, <1>10, <1>11, <1>12, <1>13, <1>14, <1>15, <1>16,
     <1>17, <1>18, <1>19 DEF Next

-----------------------------------------------------------------------------
(* The chat state: StateIsCurrent *)

(* Nothing is ahead of the room. *)
NotAhead ==
  /\ \A f \in Fields : cache.at[f] <= facts[f] /\ stateFetch.at[f] <= facts[f]
  /\ \A e \in News : e.type = "patch" => e.n <= facts[e.field]

(* The last change of f is known, or will be. *)
KnownOf(f) ==
  \/ cache.have /\ cache.at[f] = facts[f]
  \/ \E e \in News : e.type = "patch" /\ e.field = f /\ e.n = facts[f]
  \/ stateFetch.stage = "asked"
  \/ stateFetch.stage = "read" /\ stateFetch.at[f] = facts[f]
  \/ WillCatchUp

Told == here /\ leftBehind = "none" => \A f \in Fields : KnownOf(f)

LEMMA NotAheadRests ==
  ASSUME ClientTyped, NotAhead, UNCHANGED <<facts, state>>,
         \A e \in News' : e.type = "patch" => e \in News \/ (e.field \in Fields /\ e.n = facts[e.field])
  PROVE  NotAhead'
<1>1. \A f \in Fields : cache'.at[f] <= facts'[f] /\ stateFetch'.at[f] <= facts'[f]
  BY DEF NotAhead, state
<1>2. \A f \in Fields : facts[f] \in Nat
  BY DEF ClientTyped, RoomTyped
<1> QED
  BY <1>1, <1>2 DEF NotAhead

LEMMA ToldRests ==
  ASSUME Told, here' => here, leftBehind' = "none" => leftBehind = "none", UNCHANGED <<facts, state>>,
         WillCatchUp => WillCatchUp',
         \A e \in News : e.type = "patch" => e \in News'
  PROVE  Told'
BY DEF Told, KnownOf, state

LEMMA NotAheadStep ==
  ASSUME ClientTyped, Wired, NotAhead, [Next]_vars
  PROVE  NotAhead'
<1> USE DEF room, tab, history
<1>0. facts \in [Fields -> Nat] /\ "poll" \in Fields
  BY ChatClientAssumption DEF ClientTyped, RoomTyped
<1>1. CASE UNCHANGED <<outbox, queue, facts, state>>
  BY <1>1, NotAheadRests DEF News
<1>2. ASSUME UNCHANGED <<facts, state>>, \A e \in News' : e \in News \/ e.type # "patch"
      PROVE  NotAhead'
  BY <1>2, NotAheadRests
<1>3. CASE PostedByOthers \/ Submit
  <2>1. (\E q : Post(q)) \/ UNCHANGED <<room, outbox>>
    BY <1>3 DEF PostedByOthers, Submit
  <2>2. UNCHANGED <<queue, facts, state>>
    BY <1>3, <2>1 DEF PostedByOthers, Submit, Post
  <2> QED
    BY <1>1, <1>2, <2>1, <2>2, PostNews
<1>4. ASSUME NEW m \in Msgs, Delete(m) \/ React(m)
      PROVE  NotAhead'
  <2>1. UNCHANGED <<queue, facts, state>>
    BY <1>4 DEF Delete, React
  <2>2. \/ outbox' = outbox
        \/ outbox' = outbox \cup {[type |-> "message_deleted", deleted |-> m]}
        \/ outbox' = outbox \cup {[type |-> "reaction_update", liked |-> m]}
    BY <1>4 DEF Delete, React, Tell
  <2>3. \A e \in News' : e \in News \/ e.type # "patch"
    BY <2>1, <2>2 DEF News
  <2> QED
    BY <1>2, <2>1, <2>3
<1>17. ASSUME NEW m \in Msgs, ReactedElsewhere(m)
       PROVE  NotAhead'
  BY <1>2, <1>17 DEF ReactedElsewhere, Tell, News
<1>18. CASE VotedElsewhere
  <2>1. /\ UNCHANGED <<queue, facts, state>>
        /\ outbox' = outbox \cup {[type |-> "patch", field |-> "poll", n |-> facts["poll"], mine |-> FALSE]}
    BY <1>18 DEF VotedElsewhere, Tell
  <2>2. \A e \in News' : e \in News \/ (e.field = "poll" /\ e.n = facts["poll"])
    BY <2>1 DEF News
  <2> QED
    BY <1>0, <2>1, <2>2, NotAheadRests
<1>5. ASSUME NEW f \in Fields, Change(f)
      PROVE  NotAhead'
  <2>1. /\ facts' = [facts EXCEPT ![f] = @ + 1] /\ UNCHANGED <<queue, state>>
        /\ outbox' = outbox \cup {[type |-> "patch", field |-> f, n |-> facts[f] + 1, mine |-> FALSE]}
    BY <1>5 DEF Change, Tell
  <2>2. \A g \in Fields : facts'[g] \in Nat /\ facts[g] \in Nat /\ facts[g] <= facts'[g]
    BY <1>0, <2>1
  <2>3. facts'[f] = facts[f] + 1
    BY <1>0, <2>1
  <2>4. \A g \in Fields : cache.at[g] \in Nat /\ stateFetch.at[g] \in Nat
    BY DEF ClientTyped, StateTyped, FetchType
  <2>5. \A e \in News : e.type = "patch" => e.n \in Nat /\ e.field \in Fields
    BY NewsIsTyped, EventIs
  <2>6. ASSUME NEW e \in News', e.type = "patch"
        PROVE  e.n <= facts'[e.field]
    <3>1. CASE e \in News
      BY <2>2, <2>5, <2>6, <3>1 DEF NotAhead
    <3>2. CASE e = [type |-> "patch", field |-> f, n |-> facts[f] + 1, mine |-> FALSE]
      <4>1. e.field = f /\ e.n = facts[f] + 1
        BY <3>2
      <4> QED
        BY <2>2, <2>3, <4>1
    <3> QED
      BY <2>1, <3>1, <3>2 DEF News
  <2>7. \A g \in Fields : cache'.at[g] <= facts'[g] /\ stateFetch'.at[g] <= facts'[g]
    BY <2>1, <2>2, <2>4 DEF NotAhead, state
  <2> QED
    BY <2>6, <2>7 DEF NotAhead
<1>6. ASSUME NEW s \in {"none"} \cup Sanctions, Sanction(s)
      PROVE  NotAhead'
  BY <1>2, <1>6, SanctionNews DEF Sanction
<1>7. ASSUME NEW e \in outbox, Publish(e)
      PROVE  NotAhead'
  BY <1>2, <1>7, PublishNews DEF Publish
<1>8. CASE Lost \/ LeavePage
  <2>1. News' \subseteq News
    BY <1>8, NoneQueued DEF Lost, LeavePage, News
  <2> QED
    BY <1>2, <1>8, <2>1 DEF Lost, LeavePage
<1>9. ASSUME stateFetch' = stateFetch \/ stateFetch'.at = NoFacts, UNCHANGED <<outbox, queue, facts, cache>>
      PROVE  NotAhead'
  <2>1. \A f \in Fields : stateFetch'.at[f] <= facts[f]
    BY <1>0, <1>9 DEF NoFacts, NotAhead
  <2> QED
    BY <1>9, <2>1 DEF NotAhead, News
<1>10. CASE Up \/ StateFails \/ \E young \in BOOLEAN : Enter(young)
  BY <1>9, <1>10 DEF Up, Refetch, StateFails, Enter, NoFetch, state
<1>11. CASE StateRead
  <2>1. \A f \in Fields : stateFetch'.at[f] <= facts[f]
    BY <1>0, <1>11 DEF StateRead
  <2> QED
    BY <1>11, <2>1 DEF StateRead, NotAhead, News
<1>12. CASE StateArrives
  <2>1. \A f \in Fields : cache'.at[f] <= facts[f] /\ stateFetch'.at[f] <= facts[f]
    BY <1>0, <1>12 DEF StateArrives, NotAhead, NoFetch, NoFacts
  <2> QED
    BY <1>12, <2>1 DEF StateArrives, NotAhead, News
<1>13. CASE PatchState
  <2>1. Head(queue) \in News /\ News' \subseteq News /\ Head(queue).type = "patch" /\ Head(queue) \in ChatEvents
    BY <1>13, TakenNews DEF PatchState
  <2>2. Head(queue).field \in Fields /\ Head(queue).n <= facts[Head(queue).field]
    BY <2>1, EventIs DEF NotAhead
  <2>3. cache \in [have : BOOLEAN, at : [Fields -> Nat], vote : BOOLEAN]
    BY DEF ClientTyped, StateTyped
  <2>4. cache'.at = cache.at \/ cache'.at = [cache.at EXCEPT ![Head(queue).field] = Head(queue).n]
    BY <1>13, <2>3 DEF PatchState
  <2>5. \A f \in Fields : cache'.at[f] <= facts[f]
    BY <2>2, <2>3, <2>4 DEF NotAhead
  <2> QED
    BY <1>13, <2>1, <2>5 DEF PatchState, NotAhead
<1>14. CASE ChatMessage \/ MessageDeleted \/ ReactionUpdate \/ Moderation
  <2>1. News' \subseteq News
    BY <1>14, TakenNews DEF ChatMessage, MessageDeleted, ReactionUpdate, Moderation
  <2> QED
    BY <1>2, <1>14, <2>1 DEF ChatMessage, MessageDeleted, ReactionUpdate, Moderation
<1>15. CASE Vote
  BY <1>0, <1>15, VoteNews, NotAheadRests DEF Vote
<1>16. CASE \/ Down \/ Subscribed \/ TimeoutEnds \/ UNCHANGED vars
            \/ \E f \in DOMAIN pages : PageRead(f) \/ PageArrives(f) \/ PageFails(f)
  BY <1>1, <1>16 DEF Down, Subscribed, TimeoutEnds, vars, PageRead, PageArrives, PageFails
<1> QED
  BY <1>3, <1>4, <1>5, <1>6, <1>7, <1>8, <1>10, <1>11, <1>12, <1>13, <1>14, <1>15, <1>16, <1>17, <1>18 DEF Next

(* What the tab does not hear is noted, unless it is known anyway. *)
LEMMA KnownAnywayIs ==
  ASSUME ClientTyped, NotAhead, NEW e \in News, e.type = "patch", KnownAnyway(e), e.n = facts[e.field]
  PROVE  \/ cache.have /\ cache.at[e.field] = facts[e.field]
         \/ stateFetch.stage = "asked"
         \/ stateFetch.stage = "read" /\ stateFetch.at[e.field] = facts[e.field]
         \/ WillCatchUp
<1>1. e.field \in Fields
  BY NewsIsTyped, EventIs
<1>2. facts[e.field] \in Nat /\ cache.at[e.field] \in Nat /\ stateFetch.at[e.field] \in Nat
  BY <1>1 DEF ClientTyped, RoomTyped, StateTyped, FetchType
<1>3. cache.at[e.field] <= facts[e.field] /\ stateFetch.at[e.field] <= facts[e.field]
  BY <1>1 DEF NotAhead
<1> QED
  BY <1>2, <1>3 DEF KnownAnyway

LEMMA FirstIs ==
  ASSUME NEW m, m # "none"
  PROVE  First(m) # "none"
BY DEF First

LEMMA ToldStep ==
  ASSUME ClientTyped, Wired, NotAhead, Told, [Next]_vars
  PROVE  Told'
<1> USE DEF room, tab
<1>1. ASSUME UNCHANGED <<here, leftBehind, link, wasDown, facts, state>>, \A e \in News : e.type = "patch" => e \in News'
      PROVE  Told'
  BY <1>1, ToldRests DEF WillCatchUp
<1>2. CASE PostedByOthers \/ Submit
  <2>1. (\E q : Post(q)) \/ UNCHANGED <<room, outbox>>
    BY <1>2 DEF PostedByOthers, Submit
  <2>2. UNCHANGED <<here, leftBehind, link, wasDown, queue, facts, state>>
    BY <1>2, <2>1 DEF PostedByOthers, Submit, Post, history
  <2>3. News \subseteq News'
    BY <2>1, <2>2, PostNews DEF News
  <2> QED
    BY <1>1, <2>2, <2>3
<1>3. ASSUME NEW m \in Msgs, Delete(m) \/ React(m)
      PROVE  Told'
  BY <1>1, <1>3 DEF Delete, React, Tell, News, history
<1>20. CASE VotedElsewhere \/ \E m \in Msgs : ReactedElsewhere(m)
  BY <1>1, <1>20 DEF VotedElsewhere, ReactedElsewhere, Tell, News, history
<1>4. ASSUME NEW f \in Fields, Change(f)
      PROVE  Told'
  <2>1. /\ facts' = [facts EXCEPT ![f] = @ + 1] /\ UNCHANGED <<queue, state, here, leftBehind, link, wasDown>>
        /\ outbox' = outbox \cup {[type |-> "patch", field |-> f, n |-> facts[f] + 1, mine |-> FALSE]}
    BY <1>4 DEF Change, Tell, history
  <2>2. facts' \in [Fields -> Nat] /\ facts'[f] = facts[f] + 1 /\ \A g \in Fields \ {f} : facts'[g] = facts[g]
    BY <2>1 DEF ClientTyped, RoomTyped
  <2>3. KnownOf(f)'
    <3>1. PICK e \in News' : e = [type |-> "patch", field |-> f, n |-> facts[f] + 1, mine |-> FALSE]
      BY <2>1 DEF News
    <3>2. e.type = "patch" /\ e.field = f /\ e.n = facts'[f]
      BY <2>2, <3>1
    <3> QED
      BY <3>2 DEF KnownOf
  <2>4. ASSUME NEW g \in Fields \ {f}, KnownOf(g)
        PROVE  KnownOf(g)'
    BY <2>1, <2>2, <2>4 DEF KnownOf, News, WillCatchUp, state
  <2> QED
    BY <2>1, <2>3, <2>4 DEF Told
<1>5. ASSUME NEW s \in {"none"} \cup Sanctions, Sanction(s)
      PROVE  Told'
  BY <1>1, <1>5, SanctionNews DEF Sanction, history
<1>6. ASSUME NEW e \in outbox, Publish(e)
      PROVE  Told'
  <2>1. UNCHANGED <<here, link, wasDown, facts, state>> /\ \A x \in News : x \in News' \/ x = e
    BY <1>6, PublishNews DEF Publish
  <2>2. CASE here /\ link = "heard"
    <3>1. UNCHANGED leftBehind
      BY <1>6, <2>2 DEF Publish, history
    <3>2. \A x \in News : x.type = "patch" => x \in News'
      BY <1>6, <2>1, <2>2, PublishNews
    <3> QED
      BY <1>1, <2>1, <3>1, <3>2
  <2>3. CASE here /\ link # "heard"
    <3>1. \/ leftBehind' = First("missed")
          \/ leftBehind' = leftBehind /\ (e.type = "patch" => KnownAnyway(e))
      BY <1>6, <2>3 DEF Publish, Missed
    <3>2. ASSUME leftBehind' = leftBehind, e.type = "patch" => KnownAnyway(e), leftBehind = "none", NEW f \in Fields
          PROVE  KnownOf(f)'
      <4>1. KnownOf(f)
        BY <2>3, <3>2 DEF Told
      <4>2. CASE e.type = "patch" /\ e.field = f /\ e.n = facts[f]
        <5>1. e \in News
          BY DEF News
        <5> QED
          BY <2>1, <3>2, <4>2, <5>1, KnownAnywayIs DEF KnownOf, WillCatchUp, state
      <4>3. CASE ~(e.type = "patch" /\ e.field = f /\ e.n = facts[f])
        BY <2>1, <4>1, <4>3 DEF KnownOf, WillCatchUp, state
      <4> QED
        BY <4>2, <4>3
    <3> QED
      BY <3>1, <3>2, FirstIs DEF Told
  <2>4. CASE ~here
    BY <2>1, <2>4 DEF Told
  <2> QED
    BY <2>2, <2>3, <2>4
<1>7. CASE Lost
  BY <1>7 DEF Lost, Told, KnownOf, WillCatchUp
<1>8. CASE Down
  BY <1>8 DEF Down, Told, KnownOf, WillCatchUp
<1>9. CASE Up
  <2>1. UNCHANGED <<here, cache, facts, outbox, queue>> /\ link = "down"
    BY <1>9 DEF Up
  <2>2. CASE here /\ wasDown
    <3>1. \/ stateFetch'.stage = "asked"
          \/ ~cache.have /\ stateFetch.stage # "idle" /\ UNCHANGED stateFetch
      BY <1>9, <2>2 DEF Up, Refetch, NoFetch
    <3>2. CASE stateFetch'.stage = "asked"
      BY <3>2 DEF Told, KnownOf
    <3>3. CASE ~cache.have /\ stateFetch.stage # "idle" /\ UNCHANGED stateFetch
      <4>1. CASE stateFetch.stage = "asked"
        BY <3>3, <4>1 DEF Told, KnownOf
      <4>2. CASE stateFetch.stage = "read"
        <5>1. leftBehind' = First("missed") \/ stateFetch.at = facts
          BY <1>9, <2>2, <3>3, <4>2 DEF Up
        <5> QED
          BY <2>1, <3>3, <4>2, <5>1, FirstIs DEF Told, KnownOf
      <4> QED
        BY <3>3, <4>1, <4>2 DEF ClientTyped, StateTyped, FetchType
    <3> QED
      BY <3>1, <3>2, <3>3
  <2>3. CASE ~(here /\ wasDown)
    <3>1. UNCHANGED <<leftBehind, stateFetch>>
      BY <1>9, <2>3 DEF Up
    <3>2. here => ~WillCatchUp
      BY <2>1, <2>3 DEF WillCatchUp
    <3> QED
      BY <2>1, <3>1, <3>2 DEF Told, KnownOf, News
  <2> QED
    BY <2>2, <2>3
<1>10. CASE Subscribed
  BY <1>10 DEF Subscribed, Told, KnownOf, News, WillCatchUp, state, history
<1>11. ASSUME NEW young \in BOOLEAN, Enter(young)
       PROVE  Told'
  <2>1. leftBehind' = First("cached") \/ stateFetch'.stage = "asked"
    BY <1>11 DEF Enter, NoFetch
  <2> QED
    BY <2>1, FirstIs DEF Told, KnownOf
<1>12. CASE LeavePage
  BY <1>12 DEF LeavePage, Told
<1>13. CASE \/ TimeoutEnds \/ UNCHANGED vars
            \/ \E f \in DOMAIN pages : PageRead(f) \/ PageArrives(f) \/ PageFails(f)
  <2>1. UNCHANGED <<here, leftBehind, link, wasDown, facts, state, outbox, queue>>
    BY <1>13 DEF TimeoutEnds, vars, PageRead, PageArrives, PageFails, history
  <2> QED
    BY <1>1, <2>1 DEF News
<1>14. CASE StateRead
  BY <1>14 DEF StateRead, Told, KnownOf, News, WillCatchUp, history
<1>15. CASE StateArrives
  <2>1. /\ stateFetch.stage = "read" /\ cache'.have /\ cache'.at = stateFetch.at
        /\ UNCHANGED <<here, facts, link, wasDown, outbox, queue>>
        /\ \/ leftBehind' = First("overwritten")
           \/ leftBehind' = leftBehind /\ (cache.have => \A f \in Fields : ~(stateFetch.at[f] < cache.at[f]))
    BY <1>15 DEF StateArrives
  <2>2. ASSUME here, leftBehind = "none", leftBehind' = leftBehind,
               cache.have => \A f \in Fields : ~(stateFetch.at[f] < cache.at[f]), NEW f \in Fields
        PROVE  KnownOf(f)'
    <3>1. KnownOf(f)
      BY <2>2 DEF Told
    <3>2. facts[f] \in Nat /\ cache.at[f] \in Nat /\ stateFetch.at[f] \in Nat /\ stateFetch.at[f] <= facts[f]
      BY DEF ClientTyped, RoomTyped, StateTyped, FetchType, NotAhead
    <3>3. CASE cache.have /\ cache.at[f] = facts[f]
      <4>1. stateFetch.at[f] = facts[f]
        BY <2>2, <3>2, <3>3
      <4> QED
        BY <2>1, <4>1 DEF KnownOf
    <3>4. CASE stateFetch.stage = "read" /\ stateFetch.at[f] = facts[f]
      BY <2>1, <3>4 DEF KnownOf
    <3>5. CASE WillCatchUp \/ \E e \in News : e.type = "patch" /\ e.field = f /\ e.n = facts[f]
      BY <2>1, <3>5 DEF KnownOf, WillCatchUp, News
    <3> QED
      BY <2>1, <3>1, <3>3, <3>4, <3>5 DEF KnownOf
  <2> QED
    BY <2>1, <2>2, FirstIs DEF Told
<1>16. CASE StateFails
  BY <1>16, FirstIs DEF StateFails, Told
<1>17. CASE PatchState
  <2>1. PICK e \in News : /\ e = Head(queue) /\ e.type = "patch" /\ e \in ChatEvents
                          /\ \A x \in News : x \in News' \/ x = e
    BY <1>17, TakenNews DEF PatchState
  <2>2. e.field \in Fields /\ e.n \in Nat /\ e.n <= facts[e.field]
    BY <2>1, EventIs DEF NotAhead
  <2>3. UNCHANGED <<here, link, wasDown, facts, stateFetch>>
    BY <1>17 DEF PatchState
  <2>4. CASE cache.have
    <3>1. /\ cache'.have /\ cache'.at = [cache.at EXCEPT ![e.field] = e.n]
          /\ leftBehind' = IF e.n < cache.at[e.field] THEN First("reordered") ELSE leftBehind
      BY <1>17, <2>1, <2>4 DEF PatchState, ClientTyped, StateTyped
    <3>2. ASSUME here, leftBehind = "none", ~(e.n < cache.at[e.field]), NEW f \in Fields
          PROVE  KnownOf(f)'
      <4>1. KnownOf(f)
        BY <3>2 DEF Told
      <4>2. cache.at \in [Fields -> Nat] /\ facts[f] \in Nat
        BY DEF ClientTyped, StateTyped, RoomTyped
      <4>3. CASE f = e.field
        <5>1. cache'.at[f] = e.n
          BY <2>2, <3>1, <4>2, <4>3
        <5>2. CASE cache.at[f] = facts[f] \/ e.n = facts[f]
          <6>1. e.n = facts[f]
            BY <2>2, <3>2, <4>2, <4>3, <5>2
          <6> QED
            BY <2>3, <3>1, <5>1, <6>1 DEF KnownOf
        <5>3. CASE cache.at[f] # facts[f] /\ e.n # facts[f]
          BY <2>1, <2>3, <4>1, <5>3 DEF KnownOf, WillCatchUp
        <5> QED
          BY <5>2, <5>3
      <4>4. CASE f # e.field
        <5>1. cache'.at[f] = cache.at[f]
          BY <2>2, <3>1, <4>2, <4>4
        <5> QED
          BY <2>1, <2>3, <3>1, <4>1, <4>4, <5>1 DEF KnownOf, WillCatchUp
      <4> QED
        BY <4>3, <4>4
    <3> QED
      BY <2>3, <3>1, <3>2, FirstIs DEF Told
  <2>5. CASE ~cache.have
    <3>1. UNCHANGED cache /\ leftBehind' = IF ~KnownAnyway(e) THEN First("early") ELSE leftBehind
      BY <1>17, <2>1, <2>5 DEF PatchState
    <3>2. ASSUME here, leftBehind = "none", KnownAnyway(e), NEW f \in Fields
          PROVE  KnownOf(f)'
      <4>1. KnownOf(f)
        BY <3>2 DEF Told
      <4>2. CASE e.field = f /\ e.n = facts[f]
        BY <2>1, <2>3, <2>5, <3>1, <3>2, <4>2, KnownAnywayIs DEF KnownOf, WillCatchUp
      <4>3. CASE ~(e.field = f /\ e.n = facts[f])
        BY <2>1, <2>3, <3>1, <4>1, <4>3 DEF KnownOf, WillCatchUp
      <4> QED
        BY <4>2, <4>3
    <3> QED
      BY <2>3, <3>1, <3>2, FirstIs DEF Told
  <2> QED
    BY <2>4, <2>5
<1>18. CASE ChatMessage \/ MessageDeleted \/ ReactionUpdate \/ Moderation
  <2>1. \A e \in News : e.type = "patch" => e \in News'
    BY <1>18, TakenNews DEF ChatMessage, MessageDeleted, ReactionUpdate, Moderation
  <2> QED
    BY <1>1, <1>18, <2>1 DEF ChatMessage, MessageDeleted, ReactionUpdate, Moderation, history
<1>19. CASE Vote
  BY <1>1, <1>19, VoteNews DEF Vote, history
<1> QED
  BY <1>2, <1>3, <1>4, <1>5, <1>6, <1>7, <1>8, <1>9, <1>10, <1>11, <1>12, <1>13, <1>14, <1>15, <1>16,
     <1>17, <1>18, <1>19, <1>20 DEF Next

-----------------------------------------------------------------------------
(* Messages: NothingMissed *)

Have == Ids(shown) \cup Arrived

OldEnough(m) == Cardinality({k \in 1..posted : k > m}) >= Keep

(* Message m is there or on its way, has slipped through, or is too old. *)
Safe(m) ==
  \/ m \in gaps \cup ComingMsgs
  \/ Covered(m, WillCatchUp)
  \/ OldEnough(m)

EachIsSafe == here => \A m \in (1..posted) \ gone : Safe(m)

(* A page holds what comes after its cursor. *)
PagesFollow == \A f \in 0..MaxDrops : \A r \in pages[f].found : r.id > pages[f].after

LEMMA HaveIs ==
  ASSUME ClientTyped
  PROVE  /\ posted \in Nat
         /\ Ids(shown) \subseteq 1..posted /\ Arrived \subseteq 1..posted /\ Have \subseteq 1..posted
<1>1. \A r \in shown : r \in Rows
  BY DEF ClientTyped, TabTyped
<1>2. \A f \in DOMAIN pages : \A r \in pages[f].found : r \in Rows
  BY DEF ClientTyped, TabTyped, PageType
<1> QED
  BY <1>1, <1>2, RowIs DEF ClientTyped, RoomTyped, Ids, Arrived, Have

LEMMA NewestOf ==
  ASSUME NEW p \in Nat, NEW S \in SUBSET (1..p)
  PROVE  /\ Max({0} \cup S) \in Nat
         /\ \A k \in S : k <= Max({0} \cup S)
         /\ Max({0} \cup S) > 0 => Max({0} \cup S) \in S
         /\ S # {} => Max({0} \cup S) > 0
<1>1. {0} \cup S \subseteq 0..p /\ {0} \cup S # {}
  OBVIOUS
<1>2. /\ Max({0} \cup S) \in {0} \cup S
      /\ \A k \in {0} \cup S : k <= Max({0} \cup S)
  BY <1>1, NewestExists
<1> DEFINE x == Max({0} \cup S)
<1> HIDE DEF x
<1>3. x \in {0} \cup S /\ \A k \in S : k <= x /\ k \in 1..p
  BY <1>2 DEF x
<1>4. x \in Nat /\ (x > 0 => x \in S)
  BY <1>3
<1>5. ASSUME NEW k \in S
      PROVE  x > 0
  BY <1>3, <1>4
<1> QED
  BY <1>3, <1>4, <1>5 DEF x

LEMMA ReachIs ==
  ASSUME ClientTyped
  PROVE  /\ Reach \in Nat
         /\ \A k \in Have : k <= Reach
         /\ Reach > 0 => Reach \in Have
         /\ Have # {} => Reach > 0
<1>1. Reach = Max({0} \cup Have)
  <2>1. {0} \cup Ids(shown) \cup Arrived = {0} \cup Have
    BY DEF Have
  <2> QED
    BY <2>1 DEF Reach
<1> QED
  BY <1>1, HaveIs, NewestOf

(* The same one step later *)
LEMMA ReachIsNext ==
  ASSUME ClientTyped'
  PROVE  /\ Reach' \in Nat
         /\ \A k \in Have' : k <= Reach'
         /\ Reach' > 0 => Reach' \in Have'
         /\ Have' # {} => Reach' > 0
<1>1. Have' \subseteq 1..posted' /\ posted' \in Nat
  <2>1. \A r \in shown' : r.id \in 1..posted'
    BY DEF ClientTyped, TabTyped, Rows
  <2>2. \A f \in DOMAIN pages' : \A r \in pages'[f].found : r.id \in 1..posted'
    BY DEF ClientTyped, TabTyped, PageType, Rows
  <2> QED
    BY <2>1, <2>2 DEF ClientTyped, RoomTyped, Ids, Arrived, Have
<1>2. Reach' = Max({0} \cup Have')
  <2>1. {0} \cup Ids(shown') \cup Arrived' = {0} \cup Have'
    BY DEF Have
  <2> QED
    BY <2>1 DEF Reach
<1> QED
  BY <1>1, <1>2, NewestOf

(* The messages a merge leaves out are old enough, and something newer stays. *)
LEMMA MergeKeeps ==
  ASSUME ClientTyped, NEW batch \in SUBSET Rows, NEW m \in Ids(shown) \cup Ids(batch)
  PROVE  /\ m \in Ids(Merge(shown, batch)) \/ OldEnough(m)
         /\ \E k \in Ids(Merge(shown, batch)) : m <= k
<1> DEFINE all == shown \cup {r \in batch : r.id \notin Ids(shown)}
           S == Ids(all)
<1>1. S = Ids(shown) \cup Ids(batch)
  BY DEF Ids
<1>2. S \in SUBSET (1..posted) /\ posted \in Nat
  BY <1>1, HaveIs, RowIs DEF Ids
<1>3. Ids(Merge(shown, batch)) = LastOf(Keep, S)
  <2>1. Merge(shown, batch) = {r \in all : r.id \in LastOf(Keep, S)}
    BY DEF Merge
  <2>2. LastOf(Keep, S) \subseteq S
    BY DEF LastOf
  <2> HIDE DEF all
  <2> QED
    BY <2>1, <2>2 DEF Ids
<1>4. Keep \in Nat \ {0}
  BY ChatClientAssumption
<1>5. m \in S
  BY <1>1
<1> HIDE DEF S
<1>6. CASE m \in LastOf(Keep, S)
  <2>1. m \in Nat
    BY <1>2, <1>5
  <2> QED
    BY <1>3, <1>6, <2>1
<1>7. CASE m \notin LastOf(Keep, S)
  <2>1. m \in S \ LastOf(Keep, S)
    BY <1>5, <1>7
  <2>2. OldEnough(m)
    BY <1>2, <1>4, <2>1, LeftOutIsOld DEF OldEnough
  <2>3. PICK k \in LastOf(Keep, S) : m < k
    BY <1>2, <1>4, <2>1, PageHoldsNewer
  <2>4. k \in Nat /\ m \in Nat
    BY <1>2, <1>5, <2>3 DEF LastOf
  <2> QED
    BY <1>3, <2>2, <2>3, <2>4
<1> QED
  BY <1>6, <1>7

(* What the tab has and asks for stays, and no event is lost unnoticed. *)
LEMMA SafeRests ==
  ASSUME ClientTyped, EachIsSafe, here' => here, UNCHANGED <<posted, pages>>, Ids(shown)' = Ids(shown),
         gone \subseteq gone', gaps \subseteq gaps', WillCatchUp => WillCatchUp',
         \A e \in News : e.type = "chat_message" =>
           e \in News' \/ e.row.id \in gaps' \/ Covered(e.row.id, WillCatchUp')
  PROVE  EachIsSafe'
<1>1. Pending' = Pending /\ Arrived' = Arrived /\ Reach' = Reach
  BY DEF Pending, Arrived, Reach
<1>2. ASSUME here', NEW m \in (1..posted') \ gone'
      PROVE  Safe(m)'
  <2>1. Safe(m)
    BY <1>2 DEF EachIsSafe
  <2>2. CASE m \in gaps
    BY <2>2 DEF Safe
  <2>3. CASE m \in ComingMsgs
    <3>1. PICK e \in News : e.type = "chat_message" /\ e.row.id = m
      BY <2>3 DEF ComingMsgs, Coming, News
    <3>2. CASE e \in News'
      BY <3>1, <3>2 DEF Safe, ComingMsgs, Coming, News
    <3>3. CASE e.row.id \in gaps' \/ Covered(e.row.id, WillCatchUp')
      BY <1>1, <3>1, <3>3 DEF Safe, Covered, Awaited
    <3> QED
      BY <3>1, <3>2, <3>3
  <2>4. CASE Covered(m, WillCatchUp)
    BY <1>1, <2>4 DEF Safe, Covered, Awaited
  <2>5. CASE OldEnough(m)
    BY <2>5 DEF Safe, OldEnough
  <2> QED
    BY <2>1, <2>2, <2>3, <2>4, <2>5 DEF Safe
<1> QED
  BY <1>2 DEF EachIsSafe

LEMMA SafePosts ==
  ASSUME ClientTyped, EachIsSafe, NEW q \in 0..posted, q \notin gone, Post(q),
         UNCHANGED <<link, queue, drops, tab, state, history>>
  PROVE  EachIsSafe'
<1>1. /\ posted \in Nat /\ posted' = posted + 1 /\ gone' = gone /\ News \subseteq News'
      /\ UNCHANGED <<link, wasDown, here, shown, pages, gaps>>
  BY PostIs, PostNews DEF ClientTyped, RoomTyped, tab, history
<1>2. Pending' = Pending /\ Arrived' = Arrived /\ Reach' = Reach /\ WillCatchUp' = WillCatchUp
  BY <1>1 DEF Pending, Arrived, Reach, WillCatchUp
<1>3. PICK e \in News' : e.type = "chat_message" /\ e.row.id = posted + 1
  BY PostIs DEF News
<1>4. posted + 1 \in ComingMsgs'
  BY <1>3 DEF ComingMsgs, Coming, News
<1>5. ComingMsgs \subseteq ComingMsgs'
  BY <1>1 DEF ComingMsgs, Coming, News
<1>6. ASSUME here', NEW m \in (1..posted') \ gone'
      PROVE  Safe(m)'
  <2>1. CASE m = posted + 1
    BY <1>4, <2>1 DEF Safe
  <2>2. CASE m # posted + 1
    <3>1. m \in (1..posted) \ gone /\ m \in Nat
      BY <1>1, <1>6, <2>2
    <3>2. Safe(m)
      BY <1>1, <1>6, <3>1 DEF EachIsSafe
    <3>3. CASE OldEnough(m)
      <4>1. Keep \in Nat
        BY ChatClientAssumption
      <4> QED
        BY <1>1, <3>1, <3>3, <4>1, OlderStaysOld DEF OldEnough, Safe
    <3>4. CASE ~OldEnough(m)
      BY <1>1, <1>2, <1>5, <3>2, <3>4 DEF Safe, Covered, Awaited
    <3> QED
      BY <3>3, <3>4
  <2> QED
    BY <2>1, <2>2
<1> QED
  BY <1>6 DEF EachIsSafe

LEMMA SafeUp ==
  ASSUME ClientTyped, ClientTyped', Wired, EachIsSafe, Up
  PROVE  EachIsSafe'
<1>1. /\ link = "down" /\ link' = "open" /\ ~WillCatchUp'
      /\ UNCHANGED <<posted, gone, outbox, queue, here, shown, drops>>
  BY DEF Up, room, WillCatchUp
<1>2. CASE here /\ wasDown
  <2>1. drops > 0 /\ pages[drops] = NoPage /\ drops \in 0..MaxDrops /\ drops \in DOMAIN pages
    BY <1>1, <1>2 DEF Wired, Unasked, WillCatchUp, ClientTyped, LinkTyped, TabTyped
  <2>2. ComingMsgs' = ComingMsgs
    BY <1>1 DEF ComingMsgs, Coming
  <2>3. CASE Newest = 0
    <3>1. UNCHANGED pages /\ gaps' = gaps \cup {m \in Unseen(DOMAIN pages) : ~Awaited(m)}
      BY <1>2, <2>3 DEF Up
    <3>2. Pending' = Pending /\ Arrived' = Arrived
      BY <3>1 DEF Pending, Arrived
    <3>3. ASSUME NEW m \in (1..posted) \ gone
          PROVE  Safe(m)'
      <4>1. Safe(m)
        BY <1>2, <3>3 DEF EachIsSafe
      <4>2. CASE m \in gaps \cup ComingMsgs \/ m \in Ids(shown) \cup Arrived \/ Awaited(m) \/ OldEnough(m)
        BY <1>1, <2>2, <3>1, <3>2, <4>2 DEF Safe, Covered, Awaited, OldEnough
      <4>3. CASE ~(m \in gaps \cup ComingMsgs \/ m \in Ids(shown) \cup Arrived \/ Awaited(m) \/ OldEnough(m))
        <5>1. m \in Unseen(DOMAIN pages)
          BY <3>3, <4>3 DEF Unseen, Arrived
        <5> QED
          BY <3>1, <4>3, <5>1 DEF Safe
      <4> QED
        BY <4>2, <4>3
    <3> QED
      BY <1>1, <3>3 DEF EachIsSafe
  <2>4. CASE Newest # 0
    <3>1. pages' = [pages EXCEPT ![drops] = [stage |-> "asked", after |-> Newest, found |-> {}]] /\ UNCHANGED gaps
      BY <1>2, <2>4 DEF Up
    <3>2. /\ DOMAIN pages' = DOMAIN pages
          /\ pages'[drops].stage = "asked" /\ pages'[drops].after = Newest /\ pages'[drops].found = {}
          /\ \A f \in DOMAIN pages : f # drops => pages'[f] = pages[f]
      BY <2>1, <3>1
    <3>3. pages[drops].stage = "idle" /\ pages[drops].found = {}
      BY <2>1 DEF NoPage
    <3>4. Arrived' = Arrived
      <4>1. \A f \in DOMAIN pages : pages'[f].found = pages[f].found
        BY <3>2, <3>3
      <4> QED
        BY <3>2, <4>1 DEF Arrived
    <3>5. \A m : Awaited(m) => Awaited(m)'
      BY <3>2, <3>3 DEF Awaited, Pending
    <3>6. Newest <= Reach /\ Newest \in Nat /\ Reach \in Nat
      <4>1. Ids(shown) \subseteq 1..posted /\ posted \in Nat
        BY HaveIs
      <4>2. CASE shown = {}
        BY <2>4, <4>2 DEF Newest
      <4>3. CASE shown # {}
        <5>1. Ids(shown) \subseteq 0..posted /\ Ids(shown) # {}
          BY <4>1, <4>3 DEF Ids
        <5>2. Newest \in Ids(shown)
          BY <4>1, <4>3, <5>1, NewestExists DEF Newest
        <5> QED
          BY <4>1, <5>2, ReachIs DEF Have
      <4> QED
        BY <4>2, <4>3
    <3>7. ASSUME NEW m \in (1..posted) \ gone
          PROVE  Safe(m)'
      <4>1. Safe(m)
        BY <1>2, <3>7 DEF EachIsSafe
      <4>2. CASE m \in gaps \cup ComingMsgs \/ m \in Ids(shown) \cup Arrived \/ Awaited(m) \/ OldEnough(m)
        BY <1>1, <2>2, <3>1, <3>4, <3>5, <4>2 DEF Safe, Covered, OldEnough
      <4>3. CASE WillCatchUp /\ Reach > 0 /\ m > Reach
        <5>1. m > Newest
          BY <3>6, <3>7, <4>3
        <5> QED
          BY <2>1, <3>2, <5>1 DEF Safe, Covered, Awaited, Pending
      <4> QED
        BY <4>1, <4>2, <4>3 DEF Safe, Covered
    <3> QED
      BY <1>1, <3>7 DEF EachIsSafe
  <2> QED
    BY <2>3, <2>4
<1>3. CASE ~(here /\ wasDown)
  <2>1. UNCHANGED <<pages, gaps>> /\ (here => ~WillCatchUp)
    BY <1>1, <1>3 DEF Up, WillCatchUp
  <2>2. CASE here
    BY <1>1, <2>1, <2>2, SafeRests DEF News
  <2>3. CASE ~here
    BY <1>1, <2>3 DEF EachIsSafe
  <2> QED
    BY <2>2, <2>3
<1> QED
  BY <1>2, <1>3

(* An event that is taken puts its message on the screen, and takes none     *)
(* from it that is not deleted.                                              *)
LEMMA SafeTakes ==
  ASSUME ClientTyped, Wired, EachIsSafe, NEW t, Next1(t),
         UNCHANGED <<posted, gone, outbox, link, here, pages, wasDown, gaps>>,
         \A m \in Ids(shown) : m \in Ids(shown') \/ m \in gone \/ OldEnough(m),
         t = "chat_message" => Head(queue).row.id \in Ids(shown') \/ OldEnough(Head(queue).row.id)
  PROVE  EachIsSafe'
<1>1. ~WillCatchUp
  BY DEF Wired, Broken, Next1, WillCatchUp
<1>2. Pending' = Pending /\ Arrived' = Arrived /\ here
  BY DEF Pending, Arrived, Next1
<1>3. ASSUME NEW m \in (1..posted) \ gone
      PROVE  Safe(m)'
  <2>1. Safe(m)
    BY <1>2, <1>3 DEF EachIsSafe
  <2>2. CASE m \in ComingMsgs
    <3>1. PICK e \in News : e.type = "chat_message" /\ e.row.id = m
      BY <2>2 DEF ComingMsgs, Coming, News
    <3>2. e \in News' \/ (e = Head(queue) /\ Head(queue).type = t)
      BY TakenNews
    <3>3. CASE e \in News'
      BY <3>1, <3>3 DEF Safe, ComingMsgs, Coming, News
    <3>4. CASE e = Head(queue) /\ Head(queue).type = t
      BY <3>1, <3>4 DEF Safe, Covered, OldEnough
    <3> QED
      BY <3>2, <3>3, <3>4
  <2>3. CASE m \in gaps \cup Ids(shown) \/ m \in Arrived \/ Awaited(m) \/ OldEnough(m)
    BY <1>2, <1>3, <2>3 DEF Safe, Covered, Awaited, OldEnough
  <2> QED
    BY <1>1, <2>1, <2>2, <2>3 DEF Safe, Covered
<1> QED
  BY <1>3 DEF EachIsSafe

LEMMA SafePageRead ==
  ASSUME ClientTyped, ClientTyped', Wired, EachIsSafe, NEW f \in 0..MaxDrops, PageRead(f)
  PROVE  EachIsSafe'
<1> DEFINE since == {m \in (1..posted) \ gone : m > pages[f].after}
           batch == LastOf(PageSize(f), since)
           new == [pages[f] EXCEPT !.stage = "read", !.found = {Row(m) : m \in batch}]
<1>1. /\ UNCHANGED <<posted, gone, outbox, queue, link, here, shown, wasDown>>
      /\ pages[f].stage = "asked" /\ pages[f].found = {} /\ f \in DOMAIN pages
      /\ DOMAIN pages = 0..MaxDrops /\ pages \in [0..MaxDrops -> PageType]
  BY DEF PageRead, room, ClientTyped, TabTyped
<1>2. batch \subseteq since /\ since \subseteq (1..posted) \ gone /\ posted \in Nat
  BY DEF LastOf, ClientTyped, RoomTyped
<1>3. /\ DOMAIN pages' = DOMAIN pages
      /\ pages'[f].stage = "read" /\ pages'[f].found = {Row(m) : m \in batch}
      /\ \A g \in DOMAIN pages : g # f => pages'[g] = pages[g]
  <2>1. pages' = [pages EXCEPT ![f].stage = "read", ![f].found = {Row(m) : m \in batch}]
    BY DEF PageRead
  <2>2. pages[f] \in PageType
    BY <1>1
  <2> HIDE DEF batch
  <2> QED
    BY <1>1, <2>1, <2>2 DEF PageType
<1>4. Arrived' = Arrived \cup batch
  <2>1. Ids({Row(m) : m \in batch}) = batch
    <3>1. \A m \in batch : Row(m).id = m
      BY <1>2, RowMade
    <3> QED
      BY <3>1 DEF Ids
  <2>2. Ids(pages[f].found) = {}
    BY <1>1 DEF Ids
  <2> HIDE DEF batch
  <2> QED
    BY <1>1, <1>3, <2>1, <2>2 DEF Arrived
<1>5. gaps' = gaps \cup {m \in Unseen(DOMAIN pages) \ batch :
                            (\E k \in batch : m < k) /\ (m \in since \/ (m > Reach /\ ~Awaited(m)))}
  BY DEF PageRead
<1>6. ASSUME NEW m \in since
      PROVE  m \in batch \/ \E k \in batch : m < k
  <2>1. PageSize(f) \in Nat \ {0}
    BY ChatClientAssumption DEF PageSize
  <2> QED
    BY <1>2, <1>6, <2>1, PageHoldsNewer
<1> HIDE DEF batch
<1>7. ASSUME NEW m \in (1..posted) \ gone
      PROVE  m \in gaps \cup ComingMsgs \cup Ids(shown) \cup Arrived \/ m \in Unseen(DOMAIN pages)
  BY DEF Unseen, Arrived
<1>8. ASSUME here, NEW m \in (1..posted) \ gone
      PROVE  Safe(m)'
  <2>1. Safe(m)
    BY <1>8 DEF EachIsSafe
  <2>2. CASE m \in gaps \cup ComingMsgs \cup Ids(shown) \cup Arrived \/ OldEnough(m) \/ m \in batch
    BY <1>1, <1>4, <1>5, <2>2 DEF Safe, ComingMsgs, Coming, Covered, OldEnough
  <2>3. CASE m \in Unseen(DOMAIN pages) /\ m \notin batch /\ Awaited(m)
    <3>1. PICK g \in Pending : m > pages[g].after
      BY <2>3 DEF Awaited
    <3>2. CASE g = f
      <4>1. m \in since
        BY <1>8, <3>1, <3>2
      <4> QED
        BY <1>5, <1>6, <2>3, <4>1 DEF Safe
    <3>3. CASE g # f
      <4>1. g \in Pending' /\ m > pages'[g].after
        BY <1>3, <3>1, <3>3 DEF Pending
      <4> QED
        BY <4>1 DEF Safe, Covered, Awaited
    <3> QED
      BY <3>2, <3>3
  <2>4. CASE m \in Unseen(DOMAIN pages) /\ m \notin batch /\ ~Awaited(m) /\ WillCatchUp /\ Reach > 0 /\ m > Reach
    <3>1. WillCatchUp'
      BY <1>1, <2>4 DEF WillCatchUp
    <3>2. Have' = Have \cup batch
      BY <1>1, <1>4 DEF Have
    <3>3. Reach' \in Nat /\ Reach' > 0 /\ Reach' \in Have \cup batch /\ Reach \in Nat
      BY <2>4, <3>2, ReachIs, ReachIsNext
    <3>4. CASE m > Reach'
      BY <3>1, <3>3, <3>4 DEF Safe, Covered
    <3>5. CASE ~(m > Reach')
      <4>1. Reach' > Reach /\ m <= Reach' /\ m \in Nat
        BY <1>8, <2>4, <3>3, <3>5
      <4>2. Reach' \notin Have
        BY <3>3, <4>1, ReachIs
      <4>3. Reach' \in batch /\ m # Reach' /\ m < Reach'
        BY <2>4, <3>3, <4>1, <4>2
      <4> QED
        BY <1>5, <2>4, <4>3 DEF Safe
    <3> QED
      BY <3>4, <3>5
  <2> QED
    BY <1>7, <2>1, <2>2, <2>3, <2>4 DEF Safe, Covered
<1> QED
  BY <1>1, <1>8 DEF EachIsSafe

(* A page that is put away: what the others hold and ask for stays. *)
LEMMA PagePutAway ==
  ASSUME ClientTyped, NEW f \in 0..MaxDrops, pages[f].stage = "read", pages' = [pages EXCEPT ![f] = NoPage]
  PROVE  /\ DOMAIN pages' = DOMAIN pages
         /\ Arrived' = UNION {Ids(pages[g].found) : g \in DOMAIN pages \ {f}}
         /\ Arrived = Arrived' \cup Ids(pages[f].found)
         /\ \A m : Awaited(m)' <=> Awaited(m)
<1>1. f \in DOMAIN pages /\ DOMAIN pages' = DOMAIN pages
  BY DEF ClientTyped, TabTyped
<1>2. pages'[f] = NoPage /\ \A g \in DOMAIN pages : g # f => pages'[g] = pages[g]
  BY <1>1
<1>3. Arrived' = UNION {Ids(pages[g].found) : g \in DOMAIN pages \ {f}}
  <2>1. Ids(pages'[f].found) = {}
    BY <1>2 DEF NoPage, Ids
  <2> QED
    BY <1>1, <1>2, <2>1 DEF Arrived
<1>4. Arrived = Arrived' \cup Ids(pages[f].found)
  BY <1>1, <1>3 DEF Arrived
<1>5. Pending' = Pending
  BY <1>1, <1>2 DEF Pending, NoPage
<1>6. \A g \in Pending : pages'[g] = pages[g]
  BY <1>2 DEF Pending
<1> QED
  BY <1>1, <1>3, <1>4, <1>5, <1>6 DEF Awaited

LEMMA SafePageArrives ==
  ASSUME ClientTyped, ClientTyped', EachIsSafe, NEW f \in 0..MaxDrops, PageArrives(f)
  PROVE  EachIsSafe'
<1>1. /\ UNCHANGED <<posted, gone, outbox, queue, link, here, wasDown, gaps>>
      /\ pages[f].stage = "read" /\ pages' = [pages EXCEPT ![f] = NoPage]
      /\ shown' = Merge(shown, pages[f].found)
  BY DEF PageArrives, room
<1>2. /\ Arrived = Arrived' \cup Ids(pages[f].found)
      /\ \A m : Awaited(m)' <=> Awaited(m)
  BY <1>1, PagePutAway
<1>3. shown \in SUBSET Rows /\ pages[f].found \in SUBSET Rows
  BY DEF ClientTyped, TabTyped, PageType
<1>4. \A m \in Ids(shown) \cup Ids(pages[f].found) :
        (m \in Ids(shown') \/ OldEnough(m)) /\ \E k \in Ids(shown') : m <= k
  BY <1>1, <1>3, MergeKeeps
<1>5. Ids(shown') \subseteq Ids(shown) \cup Ids(pages[f].found)
  BY <1>1, <1>3, MergeIs DEF Ids
<1>6. ASSUME here, NEW m \in (1..posted) \ gone
      PROVE  Safe(m)'
  <2>1. Safe(m)
    BY <1>6 DEF EachIsSafe
  <2>2. CASE m \in gaps \cup ComingMsgs \/ Awaited(m) \/ OldEnough(m) \/ m \in Arrived'
    BY <1>1, <1>2, <2>2 DEF Safe, Covered, ComingMsgs, Coming, OldEnough
  <2>3. CASE m \in Ids(shown) \cup Ids(pages[f].found)
    BY <1>1, <1>4, <2>3 DEF Safe, Covered, OldEnough
  <2>4. CASE WillCatchUp /\ Reach > 0 /\ m > Reach
    <3>1. Have' \subseteq Have
      BY <1>2, <1>5 DEF Have
    <3>2. Have' # {}
      <4>1. Reach \in Ids(shown) \cup Ids(pages[f].found) \cup Arrived'
        BY <1>2, <2>4, ReachIs DEF Have
      <4> QED
        BY <1>4, <4>1 DEF Have
    <3>3. Reach' \in Nat /\ Reach' > 0 /\ Reach' <= Reach /\ Reach \in Nat
      BY <3>1, <3>2, ReachIs, ReachIsNext
    <3>4. m > Reach' /\ WillCatchUp'
      BY <1>1, <1>6, <2>4, <3>3 DEF WillCatchUp
    <3> QED
      BY <3>3, <3>4 DEF Safe, Covered
  <2> QED
    BY <1>2, <2>1, <2>2, <2>3, <2>4 DEF Safe, Covered
<1> QED
  BY <1>1, <1>6 DEF EachIsSafe

LEMMA SafePageFails ==
  ASSUME ClientTyped, ClientTyped', EachIsSafe, PagesFollow, NEW f \in 0..MaxDrops, PageFails(f)
  PROVE  EachIsSafe'
<1>1. /\ UNCHANGED <<posted, gone, outbox, queue, link, here, wasDown, shown>>
      /\ pages[f].stage = "read" /\ pages' = [pages EXCEPT ![f] = NoPage]
      /\ gaps' = gaps \cup {m \in Unseen(DOMAIN pages \ {f}) : m > pages[f].after}
  BY DEF PageFails, room
<1>2. /\ Arrived' = UNION {Ids(pages[g].found) : g \in DOMAIN pages \ {f}}
      /\ Arrived = Arrived' \cup Ids(pages[f].found)
      /\ \A m : Awaited(m)' <=> Awaited(m)
  BY <1>1, PagePutAway
<1>3. ASSUME NEW m \in Ids(pages[f].found)
      PROVE  m > pages[f].after /\ m \in Nat /\ pages[f].after \in Nat
  <2>1. pages[f].found \subseteq Rows /\ pages[f].after \in Nat
    BY DEF ClientTyped, TabTyped, PageType
  <2> QED
    BY <1>3, <2>1, RowIs DEF Ids, PagesFollow
<1>4. ASSUME NEW m \in (1..posted) \ gone
      PROVE  m \in gaps \cup ComingMsgs \cup Ids(shown) \cup Arrived' \/ m \in Unseen(DOMAIN pages \ {f})
  BY <1>2 DEF Unseen
<1>5. ASSUME here, NEW m \in (1..posted) \ gone
      PROVE  Safe(m)'
  <2>1. Safe(m)
    BY <1>5 DEF EachIsSafe
  <2>2. CASE m \in gaps \cup ComingMsgs \cup Ids(shown) \cup Arrived' \/ Awaited(m) \/ OldEnough(m)
    BY <1>1, <1>2, <2>2 DEF Safe, Covered, ComingMsgs, Coming, OldEnough
  <2>3. CASE m \in Unseen(DOMAIN pages \ {f}) /\ m \in Ids(pages[f].found)
    BY <1>1, <1>3, <2>3 DEF Safe
  <2>4. CASE m \in Unseen(DOMAIN pages \ {f}) /\ WillCatchUp /\ Reach > 0 /\ m > Reach
    <3>1. Have' \subseteq Have /\ WillCatchUp' /\ m \in Nat
      BY <1>1, <1>2, <1>5, <2>4 DEF Have, WillCatchUp
    <3>2. Reach' \in Nat /\ Reach \in Nat /\ Reach \in Have
      BY <2>4, ReachIs, ReachIsNext
    <3>3. CASE Have' # {}
      <4>1. Reach' > 0 /\ Reach' <= Reach
        BY <3>1, <3>3, ReachIs, ReachIsNext
      <4>2. m > Reach'
        BY <2>4, <3>1, <3>2, <4>1
      <4> QED
        BY <3>1, <4>1, <4>2 DEF Safe, Covered
    <3>4. CASE Have' = {}
      <4>1. Reach \in Ids(pages[f].found)
        BY <1>1, <1>2, <3>2, <3>4 DEF Have
      <4>2. m > pages[f].after
        BY <1>3, <2>4, <3>1, <4>1
      <4> QED
        BY <1>1, <2>4, <4>2 DEF Safe
    <3> QED
      BY <3>3, <3>4
  <2> QED
    BY <1>2, <1>4, <2>1, <2>2, <2>3, <2>4 DEF Safe, Covered
<1> QED
  BY <1>1, <1>5 DEF EachIsSafe

LEMMA PagesFollowStep ==
  ASSUME ClientTyped, PagesFollow, [Next]_vars
  PROVE  PagesFollow'
<1>1. CASE UNCHANGED pages
  BY <1>1 DEF PagesFollow
<1>2. CASE Up
  <2>1. pages \in [0..MaxDrops -> PageType]
    BY DEF ClientTyped, TabTyped
  <2>2. PICK p : p = [stage |-> "asked", after |-> Newest, found |-> {}]
    OBVIOUS
  <2>3. p.found = {}
    BY <2>2
  <2>4. pages' = pages \/ pages' = [pages EXCEPT ![drops] = p]
    BY <1>2, <2>2 DEF Up
  <2>5. \A f \in 0..MaxDrops : pages'[f] = pages[f] \/ pages'[f] = p
    BY <2>1, <2>4
  <2> QED
    BY <2>3, <2>5 DEF PagesFollow
<1>3. CASE LeavePage \/ \E young \in BOOLEAN : Enter(young)
  <2>1. NoPage.found = {} /\ [NoPage EXCEPT !.stage = "asked"].found = {}
    BY DEF NoPage
  <2>2. \A f \in 0..MaxDrops : pages'[f] \in {NoPage, [NoPage EXCEPT !.stage = "asked"]}
    BY <1>3 DEF LeavePage, Enter
  <2> QED
    BY <2>1, <2>2 DEF PagesFollow
<1>4. ASSUME NEW f \in DOMAIN pages, PageRead(f)
      PROVE  PagesFollow'
  <2> DEFINE batch == LastOf(PageSize(f), {m \in (1..posted) \ gone : m > pages[f].after})
  <2>1. \A m \in batch : Row(m).id = m /\ m > pages[f].after
    BY RowMade DEF LastOf
  <2>2. /\ pages' = [pages EXCEPT ![f].stage = "read", ![f].found = {Row(m) : m \in batch}]
        /\ pages \in [0..MaxDrops -> PageType]
    BY <1>4 DEF PageRead, ClientTyped, TabTyped
  <2> HIDE DEF batch
  <2>3. pages'[f].found = {Row(m) : m \in batch} /\ pages'[f].after = pages[f].after
    <3>1. pages[f] \in PageType
      BY <2>2
    <3> QED
      BY <2>2, <3>1 DEF PageType
  <2>4. \A g \in 0..MaxDrops : g # f => pages'[g] = pages[g]
    BY <2>2
  <2> QED
    BY <2>1, <2>3, <2>4 DEF PagesFollow
<1>5. ASSUME NEW f \in DOMAIN pages, PageArrives(f) \/ PageFails(f)
      PROVE  PagesFollow'
  <2>1. pages \in [0..MaxDrops -> PageType] /\ pages' = [pages EXCEPT ![f] = NoPage] /\ NoPage.found = {}
    BY <1>5 DEF PageArrives, PageFails, NoPage, ClientTyped, TabTyped
  <2>2. \A g \in 0..MaxDrops : pages'[g] = pages[g] \/ pages'[g] = NoPage
    BY <2>1
  <2> QED
    BY <2>1, <2>2 DEF PagesFollow
<1> QED
  BY <1>1, <1>2, <1>3, <1>4, <1>5
  DEF Next, vars, PostedByOthers, Delete, React, ReactedElsewhere, VotedElsewhere, Change, Sanction, Publish, Lost, Down, Subscribed, StateRead,
      StateArrives, StateFails, ChatMessage, MessageDeleted, ReactionUpdate, PatchState, Moderation,
      TimeoutEnds, Submit, Vote, tab

LEMMA EachIsSafeStep ==
  ASSUME ClientTyped, ClientTyped', Wired, DeletedGone, PagesFollow, EachIsSafe, [Next]_vars
  PROVE  EachIsSafe'
<1> USE DEF room, tab, state, history
<1>1. ASSUME UNCHANGED <<posted, here, pages, shown, link, wasDown, gaps>>, gone \subseteq gone', News \subseteq News'
      PROVE  EachIsSafe'
  <2>1. WillCatchUp => WillCatchUp'
    BY <1>1 DEF WillCatchUp
  <2> QED
    BY <1>1, <2>1, SafeRests
<1>2. CASE PostedByOthers
  BY <1>2, SafePosts DEF PostedByOthers, ClientTyped, RoomTyped
<1>3. CASE Submit
  <2>1. CASE UNCHANGED <<room, outbox>>
    BY <1>1, <1>3, <2>1 DEF Submit, News
  <2>2. ASSUME NEW q \in {0} \cup Ids(shown), q \notin gone, Post(q)
        PROVE  EachIsSafe'
    <3>1. q \in 0..posted
      BY HaveIs
    <3> QED
      BY <1>3, <2>2, <3>1, SafePosts DEF Submit
  <2> QED
    BY <1>3, <2>1, <2>2 DEF Submit
<1>4. ASSUME NEW m \in Msgs, Delete(m)
      PROVE  EachIsSafe'
  BY <1>1, <1>4 DEF Delete, News, Tell
<1>23. CASE VotedElsewhere \/ \E m \in Msgs : ReactedElsewhere(m)
  BY <1>1, <1>23 DEF VotedElsewhere, ReactedElsewhere, News, Tell
<1>5. ASSUME NEW f \in Fields, Change(f)
      PROVE  EachIsSafe'
  BY <1>1, <1>5 DEF Change, News, Tell
<1>6. ASSUME NEW s \in {"none"} \cup Sanctions, Sanction(s)
      PROVE  EachIsSafe'
  BY <1>1, <1>6, SanctionNews DEF Sanction
<1>7. ASSUME NEW m \in Msgs, React(m)
      PROVE  EachIsSafe'
  <2>1. UNCHANGED <<posted, gone, queue, link, here, pages, wasDown, gaps>> /\ outbox \subseteq outbox'
    BY <1>7 DEF React, Tell
  <2>2. PICK r \in shown, turned \in BOOLEAN : shown' = (shown \ {r}) \cup {[r EXCEPT !.mine = turned, !.counted = turned]}
    BY <1>7 DEF React, Chip, Picker
  <2>3. [r EXCEPT !.mine = turned, !.counted = turned].id = r.id
    BY DEF ClientTyped, TabTyped, Rows
  <2>4. Ids(shown') = Ids(shown)
    BY <2>2, <2>3 DEF Ids
  <2> QED
    BY <2>1, <2>4, SafeRests DEF News, WillCatchUp
<1>8. ASSUME NEW e \in outbox, Publish(e)
      PROVE  EachIsSafe'
  <2>1. UNCHANGED <<posted, gone, link, here, shown, pages, wasDown>> /\ \A x \in News : x \in News' \/ x = e
    BY <1>8, PublishNews DEF Publish
  <2>2. CASE ~here
    BY <2>1, <2>2 DEF EachIsSafe
  <2>3. CASE here
    <3>1. /\ gaps \subseteq gaps'
          /\ e.type = "chat_message" => e \in News' \/ e.row.id \in gaps' \/ Covered(e.row.id, WillCatchUp)
      <4>1. CASE link = "heard"
        BY <1>8, <2>3, <4>1, PublishNews DEF Publish
      <4>2. CASE link # "heard"
        BY <1>8, <2>3, <4>2 DEF Publish, Missed
      <4> QED
        BY <4>1, <4>2
    <3>2. WillCatchUp' <=> WillCatchUp
      BY <2>1 DEF WillCatchUp
    <3>3. \A m : Covered(m, WillCatchUp) => Covered(m, WillCatchUp')
      BY <3>2 DEF Covered
    <3> QED
      BY <2>1, <3>1, <3>2, <3>3, SafeRests
  <2> QED
    BY <2>2, <2>3
<1>9. CASE Lost
  <2>1. UNCHANGED <<posted, gone, outbox, here, shown, pages>> /\ WillCatchUp'
    BY <1>9 DEF Lost, WillCatchUp
  <2>2. CASE ~here
    BY <2>1, <2>2 DEF EachIsSafe
  <2>3. CASE here
    <3>1. gaps' = gaps \cup {m \in {e.row.id : e \in {x \in ToSet(queue) : x.type = "chat_message"}} : ~Covered(m, TRUE)}
      BY <1>9, <2>3 DEF Lost
    <3>2. \A m : Covered(m, TRUE) => Covered(m, WillCatchUp')
      BY <2>1 DEF Covered
    <3>3. \A e \in News : e.type = "chat_message" =>
            e \in News' \/ e.row.id \in gaps' \/ Covered(e.row.id, WillCatchUp')
      BY <2>1, <3>1, <3>2 DEF News
    <3> QED
      BY <2>1, <3>1, <3>3, SafeRests
  <2> QED
    BY <2>2, <2>3
<1>10. CASE Down
  <2>1. UNCHANGED <<posted, gone, outbox, queue, here, shown, pages, gaps>> /\ (here => WillCatchUp')
    BY <1>10 DEF Down, WillCatchUp
  <2>2. CASE ~here
    BY <2>1, <2>2 DEF EachIsSafe
  <2>3. CASE here
    BY <2>1, <2>3, SafeRests DEF News
  <2> QED
    BY <2>2, <2>3
<1>11. CASE Up
  BY <1>11, SafeUp
<1>12. CASE Subscribed
  <2>1. UNCHANGED <<posted, gone, outbox, queue, here, shown, pages, gaps>> /\ ~WillCatchUp
    BY <1>12 DEF Subscribed, WillCatchUp
  <2> QED
    BY <2>1, SafeRests DEF News
<1>13. ASSUME NEW young \in BOOLEAN, Enter(young)
       PROVE  EachIsSafe'
  <2>1. 0 \in DOMAIN pages' /\ pages'[0] = [NoPage EXCEPT !.stage = "asked"]
    BY <1>13, ChatClientAssumption DEF Enter
  <2>2. pages'[0].stage = "asked" /\ pages'[0].after = 0
    BY <2>1 DEF NoPage
  <2>3. 0 \in Pending'
    BY <2>1, <2>2 DEF Pending
  <2>4. ASSUME NEW m \in 1..posted'
        PROVE  Awaited(m)'
    <3>1. m > pages'[0].after
      BY <2>2 DEF ClientTyped, RoomTyped
    <3> QED
      BY <2>3, <3>1 DEF Awaited
  <2> QED
    BY <2>4 DEF EachIsSafe, Safe, Covered
<1>14. CASE LeavePage
  BY <1>14 DEF LeavePage, EachIsSafe
<1>15. ASSUME NEW f \in DOMAIN pages, PageRead(f) \/ PageArrives(f) \/ PageFails(f)
       PROVE  EachIsSafe'
  <2>1. f \in 0..MaxDrops
    BY DEF ClientTyped, TabTyped
  <2> QED
    BY <1>15, <2>1, SafePageRead, SafePageArrives, SafePageFails
<1>16. CASE StateRead \/ StateArrives \/ StateFails \/ TimeoutEnds \/ UNCHANGED vars
  BY <1>1, <1>16 DEF StateRead, StateArrives, StateFails, TimeoutEnds, vars, News
<1>17. CASE ChatMessage
  <2>1. Head(queue) \in ChatEvents /\ Head(queue).type = "chat_message"
    BY <1>17, TakenFromQueue DEF ChatMessage
  <2>2. PICK r \in Rows : r = Head(queue).row
    BY <2>1, EventIs
  <2>3. shown' = Merge(shown, {r}) /\ {r} \in SUBSET Rows /\ r.id \in Ids({r})
    BY <1>17, <2>2 DEF ChatMessage, Ids
  <2>4. \A m \in Ids(shown) \cup {r.id} : m \in Ids(shown') \/ OldEnough(m)
    BY <2>3, MergeKeeps
  <2> QED
    BY <1>17, <2>2, <2>4, SafeTakes DEF ChatMessage
<1>18. CASE MessageDeleted
  <2>1. Head(queue) \in ChatEvents /\ Head(queue).type = "message_deleted"
    BY <1>18, TakenFromQueue DEF MessageDeleted
  <2>2. PICK id \in gone : id = Head(queue).deleted
    BY <2>1, EventIs
  <2>3. shown' = {IF r.quotes = id THEN [r EXCEPT !.quotes = 0] ELSE r : r \in {x \in shown : x.id # id}}
    BY <1>18, <2>2 DEF MessageDeleted
  <2>4. \A r \in shown : [r EXCEPT !.quotes = 0].id = r.id
    BY DEF ClientTyped, TabTyped, Rows
  <2>5. \A m \in Ids(shown) : m \in Ids(shown') \/ m = id
    BY <2>3, <2>4 DEF Ids
  <2> QED
    BY <1>18, <2>2, <2>5, SafeTakes DEF MessageDeleted
<1>19. CASE ReactionUpdate
  <2>1. PICK of, counted : of = Head(queue).of /\ counted = Head(queue).counted
    OBVIOUS
  <2>2. shown' = {IF r.id = of THEN [r EXCEPT !.counted = counted] ELSE r : r \in shown}
    BY <1>19, <2>1 DEF ReactionUpdate
  <2>3. \A r \in shown : [r EXCEPT !.counted = counted].id = r.id
    BY DEF ClientTyped, TabTyped, Rows
  <2>4. \A m \in Ids(shown) : m \in Ids(shown')
    BY <2>2, <2>3 DEF Ids
  <2> QED
    BY <1>19, <2>4, SafeTakes DEF ReactionUpdate
<1>20. CASE PatchState
  BY <1>20, SafeTakes DEF PatchState
<1>21. CASE Moderation
  BY <1>21, SafeTakes DEF Moderation
<1>22. CASE Vote
  BY <1>1, <1>22, VoteNews DEF Vote
<1> QED
  BY <1>2, <1>3, <1>4, <1>5, <1>6, <1>7, <1>8, <1>9, <1>10, <1>11, <1>12, <1>13, <1>14, <1>15, <1>16,
     <1>17, <1>18, <1>19, <1>20, <1>21, <1>22, <1>23 DEF Next

-----------------------------------------------------------------------------
(* The specification *)

ClientInv ==
  ClientTyped /\ Wired /\ Marks /\ DeletedGone /\ NotAhead /\ Told /\ PagesFollow /\ EachIsSafe

LEMMA ClientStarts ==
  ASSUME Init
  PROVE  ClientInv
<1>1. ClientTyped
  BY ClientTypedInit
<1>2. /\ ~here /\ shown = {} /\ queue = <<>> /\ outbox = {} /\ link = "down" /\ drops = 0
      /\ gone = {} /\ cast = {} /\ facts = NoFacts /\ cache.at = NoFacts /\ ~cache.vote
      /\ stateFetch.at = NoFacts /\ stateFetch.voted = {} /\ News = {}
      /\ \A f \in 0..MaxDrops : pages[f] = NoPage /\ pages[f].found = {}
  BY NoneQueued DEF Init, NoPage, NoFetch, News
<1>3. Wired
  BY <1>2 DEF Wired, LeftEmpty, Broken, Unasked
<1>4. Marks
  BY <1>2 DEF Marks, VotesTrue, RowsTrue, OneEach
<1>5. NotAhead
  BY <1>2 DEF NotAhead, NoFacts
<1>6. DeletedGone /\ Told /\ PagesFollow /\ EachIsSafe
  BY <1>2 DEF DeletedGone, Told, PagesFollow, EachIsSafe
<1> QED
  BY <1>1, <1>3, <1>4, <1>5, <1>6 DEF ClientInv

LEMMA ClientGoesOn ==
  ASSUME ClientInv, [Next]_vars
  PROVE  ClientInv'
<1> USE DEF ClientInv
<1>1. ClientTyped'
  BY ClientTypedStep
<1>2. Wired'
  BY WiredStep
<1>3. Marks'
  BY VotesStep, RowsStep DEF Marks
<1>4. DeletedGone'
  BY DeletedStep
<1>5. NotAhead' /\ Told'
  BY NotAheadStep, ToldStep
<1>6. PagesFollow'
  BY PagesFollowStep
<1>7. EachIsSafe'
  BY <1>1, EachIsSafeStep
<1> QED
  BY <1>1, <1>2, <1>3, <1>4, <1>5, <1>6, <1>7

LEMMA ClientInvAlways == Spec => []ClientInv
BY ClientStarts, ClientGoesOn, PTL DEF Spec

(* What the chat of a tab holds, awaits and is told is of its type: an event *)
(* of a deletion follows the deletion, and an answer that has not come is    *)
(* empty.                                                                    *)
THEOREM ChatClientTyped == Spec => []ClientTyped
<1>1. ClientInv => ClientTyped
  BY DEF ClientInv
<1> QED
  BY <1>1, ClientInvAlways, PTL

(* Whatever the order of votes, events and answers, and whatever the account *)
(* does in its other tabs, a vote shown as one's own was taken by the server *)
(* and a mark under a message is the server's, but those marks that the      *)
(* history variable names (vote, react, patchState, merge).                  *)
THEOREM OwnMarksAlwaysTrue == Spec => []OwnMarksAreTrue
<1>1. ClientInv => OwnMarksAreTrue
  BY DEF ClientInv, Marks, VotesTrue, RowsTrue, OwnMarksAreTrue
<1> QED
  BY <1>1, ClientInvAlways, PTL

(* A message whose deletion this tab was told of, and its text in replies,   *)
(* is never on the screen again (the handlers of the events, merge).         *)
THEOREM DeletedStaysGone == Spec => []DeletedGone
<1>1. ClientInv => DeletedGone
  BY DEF ClientInv
<1> QED
  BY <1>1, ClientInvAlways, PTL

LEMMA QuietIs ==
  ASSUME ClientTyped, Quiet
  PROVE  /\ here /\ ~WillCatchUp /\ News = {} /\ ComingMsgs = {} /\ Pending = {} /\ Arrived = {}
<1>1. \A f \in DOMAIN pages : pages[f].stage = "idle" /\ pages[f].found = {}
  BY DEF Quiet, ClientTyped, TabTyped, NoPage
<1>2. News = {}
  BY NoneQueued DEF Quiet, News
<1>3. ComingMsgs = {}
  BY <1>2 DEF ComingMsgs, Coming, News
<1> QED
  BY <1>1, <1>2, <1>3 DEF Quiet, WillCatchUp, Pending, Arrived, Ids

(* When all is quiet the pin, the settings and the poll on the screen are    *)
(* those of the room, unless one of the named ways left them behind          *)
(* (useChatState, patchState, the invalidation after a reconnect).           *)
THEOREM StateAlwaysCurrent == Spec => []StateIsCurrent
<1>1. ClientInv => StateIsCurrent
  <2> SUFFICES ASSUME ClientInv, Quiet, cache.have, stateFetch.stage = "idle", leftBehind = "none"
               PROVE  cache.at = facts
    BY DEF StateIsCurrent
  <2>1. \A f \in Fields : KnownOf(f)
    BY QuietIs DEF ClientInv, Told
  <2>2. \A f \in Fields : cache.at[f] = facts[f]
    BY <2>1, QuietIs DEF ClientInv, KnownOf
  <2> QED
    BY <2>2 DEF ClientInv, ClientTyped, RoomTyped, StateTyped
<1> QED
  BY <1>1, ClientInvAlways, PTL

(* When all is quiet the last Keep messages of the room are on the screen,   *)
(* but those that slipped through: nothing is lost between the history, the  *)
(* live events and the page that catches up after a break (load, merge).     *)
THEOREM NothingEverMissed == Spec => []NothingMissed
<1>1. ClientInv => NothingMissed
  <2> SUFFICES ASSUME ClientInv, Quiet, NEW m \in LastOf(Keep, 1..posted) \ gone
               PROVE  m \in Ids(shown) \cup gaps
    BY DEF NothingMissed
  <2>1. m \in (1..posted) \ gone /\ Cardinality({k \in 1..posted : k > m}) < Keep
    BY DEF LastOf
  <2>2. ~OldEnough(m)
    <3>1. Cardinality({k \in 1..posted : k > m}) \in Nat
      <4>1. IsFiniteSet(1..posted)
        BY FS_Interval DEF ClientInv, ClientTyped, RoomTyped
      <4> QED
        BY <4>1, FS_Subset, FS_CardinalityType
    <3> QED
      BY <2>1, <3>1, ChatClientAssumption DEF OldEnough
  <2>3. Safe(m)
    BY <2>1, QuietIs DEF ClientInv, EachIsSafe
  <2> QED
    BY <2>2, <2>3, QuietIs DEF ClientInv, Safe, Covered, Awaited
<1> QED
  BY <1>1, ClientInvAlways, PTL
=============================================================================
