------------------------------ MODULE MCStudio ------------------------------
(***************************************************************************)
(* The studio for TLC: an upload of the videos page (UploadClient) and the *)
(* queries of all pages (WebCache).  They meet in the list of videos only, *)
(* which WebCache changes by the buttons of VideoUploadCard; so a behaviour *)
(* follows one of the two while the other rests.                           *)
(***************************************************************************)
EXTENDS UploadClient, WebCache

VARIABLE part

Init ==
  /\ part \in {"upload", "pages"}
  /\ UploadInit
  /\ WebInit
  /\ part = "upload" => query = "videos" /\ who = Guest

Upload == part = "upload" /\ UploadNext /\ UNCHANGED <<webVars, part>>
Pages == part = "pages" /\ WebNext /\ UNCHANGED <<uploadVars, part>>

Next == Upload \/ Pages

Spec == Init /\ [][Next]_<<uploadVars, webVars, part>> /\ UploadFairness
=============================================================================
