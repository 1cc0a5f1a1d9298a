--------------------------- MODULE Session_proofs ---------------------------
(***************************************************************************)
(* Session implements Tokens, for any tabs, any number of pairs and of     *)
(* losses.  A tab may believe that a pair it has just been given is not     *)
(* ageing because a pair on its way has been in no storage yet (OnTheirWay): *)
(* only the stored pair ages.                                              *)
(***************************************************************************)
EXTENDS Session, TLAPS

(* A pair that was issued and not stored yet *)
Unstored(n) == n # store /\ rows[n] # "unused" /\ age[n] = "fresh"

OnTheirWay ==
  /\ \A t \in Tabs : flight[t].got # 0 => flight[t].stage = "answered" /\ Unstored(flight[t].got)
  /\ \A t \in Tabs : entry[t].got # 0 => Unstored(entry[t].got)
  /\ \A t \in Tabs : entry[t].stage = "answered" <=> entry[t].got # 0

(* No two answers carry the same pair. *)
Apart ==
  \A t, u \in Tabs :
    /\ t # u /\ flight[t].got # 0 => flight[t].got # flight[u].got
    /\ t # u /\ entry[t].got # 0 => entry[t].got # entry[u].got
    /\ flight[t].got # 0 => flight[t].got # entry[u].got

(* What was not issued is in no storage, and cannot have aged. *)
Unissued == \A n \in Pairs : rows[n] = "unused" => n # store /\ age[n] = "fresh"

(* Only a tab that has a refresh token asks. *)
Asking == \A t \in Tabs : flight[t].stage # "none" => flight[t].sent # 0

States == {"unused", "live", "aged", "revoked", "gone"}

Stages == {"none", "asked", "read", "answered"}
Flights == [stage : Stages, sent : Pairs \cup {0}, got : Pairs \cup {0}]
Calls == [stage : {"none", "sent", "waiting"}, token : Pairs \cup {0}, again : BOOLEAN]
Entries == [stage : {"none", "asked", "answered"}, got : Pairs \cup {0}]
Leaves == [stage : {"none", "asked", "told"}, sent : Pairs \cup {0}]

(* TypeOK, with its sets by name *)
Typed ==
  /\ rows \in [Pairs -> States]
  /\ chain \in [Pairs -> Pairs \cup {0}]
  /\ age \in [Pairs -> {"fresh", "expired"}]
  /\ store \in Pairs \cup {0}
  /\ flight \in [Tabs -> Flights]
  /\ call \in [Tabs -> Calls]
  /\ entry \in [Tabs -> Entries]
  /\ leave \in [Tabs -> Leaves]
  /\ losses \in 0..MaxLosses
  /\ crossed \in BOOLEAN

IInv == Typed /\ OnTheirWay /\ Apart /\ Unissued /\ Asking

LEMMA InitIInv == Init => IInv
<1> SUFFICES ASSUME Init PROVE IInv  OBVIOUS
<1>1. Typed
  <2>1. NoFlight \in Flights /\ NoCall \in Calls /\ NoEntry \in Entries /\ NoLeave \in Leaves
    BY DEF NoFlight, NoCall, NoEntry, NoLeave, Flights, Stages, Calls, Entries, Leaves
  <2>2. losses \in 0..MaxLosses  BY SessionAssumption DEF Init
  <2> QED  BY <2>1, <2>2 DEF Typed, Init, States
<1>2. OnTheirWay /\ Apart /\ Unissued /\ Asking
  BY DEF Init, OnTheirWay, Apart, Unissued, Asking, NoFlight, NoEntry, Pairs
<1> QED  BY <1>1, <1>2 DEF IInv

(* An answer of the server, and a flight that is on *)
LEMMA AnsweredFlight ==
  ASSUME flight \in [Tabs -> Flights], NEW t \in Tabs, NEW n \in Pairs \cup {0}, Answered(t, n)
  PROVE  /\ flight' \in [Tabs -> Flights]
         /\ \A u \in Tabs : u # t => flight'[u] = flight[u]
         /\ flight'[t].got = n /\ flight'[t].stage = "answered" /\ flight'[t].sent = flight[t].sent
<1>1. flight' = [flight EXCEPT ![t] = [flight[t] EXCEPT !.stage = "answered", !.got = n]]
  BY DEF Answered
<1>2. [flight[t] EXCEPT !.stage = "answered", !.got = n] \in Flights  BY DEF Flights, Stages
<1> QED  BY <1>1, <1>2 DEF Flights

LEMMA LossesTyped ==
  ASSUME losses \in 0..MaxLosses, losses < MaxLosses, losses' = losses + 1
  PROVE  losses' \in 0..MaxLosses
BY SessionAssumption

(* Deleting expired rows issues none and forgets none. *)
LEMMA PurgedRows ==
  ASSUME NEW R \in [Pairs -> States]
  PROVE  /\ Purged(R) \in [Pairs -> States]
         /\ \A n \in Pairs : Purged(R)[n] = "unused" <=> R[n] = "unused"
BY DEF Purged, States

LEMMA RevokedRows ==
  ASSUME rows \in [Pairs -> States]
  PROVE  /\ AllRevoked \in [Pairs -> States]
         /\ \A n \in Pairs : AllRevoked[n] = "unused" <=> rows[n] = "unused"
BY DEF AllRevoked, States

(* The parts of the invariant but the types are about these variables only, *)
(* and of rows only about which are issued.                                 *)
LEMMA SameIssued ==
  ASSUME IInv, Typed',
         UNCHANGED <<age, store, entry>>,
         \A n \in Pairs : rows'[n] = "unused" <=> rows[n] = "unused",
         \A t \in Tabs : \/ flight'[t] = flight[t]
                         \/ flight'[t].got = 0 /\ flight'[t].stage # "answered" /\ flight'[t].sent # 0
                         \/ flight'[t].got = 0 /\ flight'[t].stage = "answered" /\ flight'[t].sent = flight[t].sent
                              /\ flight[t].stage # "none"
                         \/ flight'[t] = NoFlight
  PROVE  IInv'
<1> USE DEF IInv
<1>1. \A t \in Tabs : flight[t].got \in Pairs \cup {0} /\ entry[t].got \in Pairs \cup {0}
  BY DEF Typed, Flights, Entries
<1>2. \A t \in Tabs : flight'[t].got # 0 => flight'[t] = flight[t]
  BY DEF NoFlight
<1>3. OnTheirWay'
  BY <1>1, <1>2 DEF OnTheirWay, Unstored
<1>4. Apart'
  BY <1>1, <1>2 DEF Apart
<1>5. Unissued'  BY DEF Unissued
<1>6. Asking'  BY DEF Asking, NoFlight
<1> QED  BY <1>3, <1>4, <1>5, <1>6

LEMMA RotateReadInv == ASSUME IInv, NEW t \in Tabs, RotateRead(t) PROVE IInv'
<1> USE DEF IInv
<1>1. rows \in [Pairs -> States] /\ flight[t].stage = "asked" /\ flight[t].sent # 0
  BY DEF Typed, RotateRead, Asking, States
<1>2. UNCHANGED <<chain, age, store, call, entry, leave, losses, crossed>>  BY DEF RotateRead
<1>3. rows' \in [Pairs -> States] /\ \A n \in Pairs : rows'[n] = "unused" <=> rows[n] = "unused"
  BY <1>1, RevokedRows DEF RotateRead, States
<1>4. /\ flight' \in [Tabs -> Flights]
      /\ \A u \in Tabs \ {t} : flight'[u] = flight[u]
      /\ flight'[t].stage \in {"read", "answered"}
      /\ flight'[t].sent = flight[t].sent
      /\ flight'[t].got = 0
  <2>1. flight \in [Tabs -> Flights] /\ 0 \in Pairs \cup {0}  BY DEF Typed
  <2>2. CASE flight' = [flight EXCEPT ![t].stage = "read"]
    <3>1. flight' = [flight EXCEPT ![t] = [flight[t] EXCEPT !.stage = "read"]]  BY <2>2
    <3>2. [flight[t] EXCEPT !.stage = "read"] \in Flights  BY <2>1 DEF Flights, Stages
    <3>3. flight[t].got = 0  BY <1>1 DEF OnTheirWay
    <3> QED  BY <2>1, <3>1, <3>2, <3>3 DEF Flights
  <2>3. CASE Answered(t, 0)  BY <2>1, <2>3, AnsweredFlight
  <2> QED  BY <2>2, <2>3 DEF RotateRead
<1>5. Typed'  BY <1>2, <1>3, <1>4 DEF Typed
<1> QED  BY <1>1, <1>2, <1>3, <1>4, <1>5, SameIssued

LEMMA FailureInv == ASSUME IInv, NEW t \in Tabs, ServerFails(t) \/ RefreshLost(t) PROVE IInv'
<1> USE DEF IInv
<1>1. UNCHANGED <<rows, chain, age, store, entry, leave, crossed>>  BY DEF ServerFails, RefreshLost
<1>2. losses' \in 0..MaxLosses
  <2>1. losses' = losses \/ (losses < MaxLosses /\ losses' = losses + 1)  BY DEF ServerFails, RefreshLost
  <2> QED  BY <2>1, LossesTyped DEF Typed
<1>3. call' \in [Tabs -> Calls]
  <2>1. call \in [Tabs -> Calls] /\ NoCall \in Calls  BY DEF Typed, NoCall, Calls
  <2>2. call' = call \/ call' = [call EXCEPT ![t] = NoCall]  BY DEF ServerFails, RefreshLost, CallResumes
  <2> QED  BY <2>1, <2>2
<1>4. /\ flight' \in [Tabs -> Flights]
      /\ \A u \in Tabs \ {t} : flight'[u] = flight[u]
      /\ \/ flight'[t] = NoFlight
         \/ flight[t].stage = "asked" /\ flight'[t].got = 0 /\ flight'[t].stage = "answered"
              /\ flight'[t].sent = flight[t].sent
  <2>1. flight \in [Tabs -> Flights] /\ NoFlight \in Flights
    BY DEF Typed, NoFlight, Flights, Stages
  <2>2. CASE ServerFails(t)
    <3>1. flight[t].stage = "asked" /\ Answered(t, 0)  BY <2>2 DEF ServerFails
    <3> QED  BY <2>1, <3>1, AnsweredFlight
  <2>3. CASE RefreshLost(t)
    <3>1. flight' = [flight EXCEPT ![t] = NoFlight]  BY <2>3 DEF RefreshLost
    <3> QED  BY <2>1, <3>1
  <2> QED  BY <2>2, <2>3
<1>5. Typed'  BY <1>1, <1>2, <1>3, <1>4 DEF Typed
<1> QED  BY <1>1, <1>4, <1>5, SameIssued

LEMMA CallsInv == ASSUME IInv, NEW t \in Tabs, Call(t) \/ CallAnswered(t) PROVE IInv'
<1> USE DEF IInv
<1>1. UNCHANGED <<rows, chain, age, store, entry, leave, losses>>  BY DEF Call, CallAnswered
<1>2. call' \in [Tabs -> Calls]
  <2>1. call \in [Tabs -> Calls] /\ NoCall \in Calls  BY DEF Typed, NoCall, Calls
  <2>2. CASE Call(t)
    <3>1. [stage |-> "sent", token |-> store, again |-> FALSE] \in Calls  BY DEF Typed, Calls
    <3> QED  BY <2>1, <2>2, <3>1 DEF Call
  <2>3. CASE CallAnswered(t)
    <3>1. \/ call' = [call EXCEPT ![t] = [call[t] EXCEPT !.stage = "waiting"]]
          \/ call' = [call EXCEPT ![t] = NoCall]
      BY <2>3 DEF CallAnswered
    <3>2. [call[t] EXCEPT !.stage = "waiting"] \in Calls  BY <2>1 DEF Calls
    <3> QED  BY <2>1, <3>1, <3>2
  <2> QED  BY <2>2, <2>3
<1>3. \/ flight' = flight
      \/ /\ store # 0
         /\ flight' = [flight EXCEPT ![t] = [stage |-> "asked", sent |-> store, got |-> 0]]
  BY DEF Call, CallAnswered, Refreshing
<1>4. flight' \in [Tabs -> Flights]
  <2>1. [stage |-> "asked", sent |-> store, got |-> 0] \in Flights  BY DEF Typed, Flights, Stages
  <2> QED  BY <1>3, <2>1 DEF Typed
<1>5. crossed' \in BOOLEAN  BY DEF Call, CallAnswered, Refreshing, Crosses, Typed
<1>6. Typed'  BY <1>1, <1>2, <1>4, <1>5 DEF Typed
<1>7. \A u \in Tabs : \/ flight'[u] = flight[u]
                      \/ flight'[u].got = 0 /\ flight'[u].stage # "answered" /\ flight'[u].sent # 0
  BY <1>3 DEF Typed
<1> QED  BY <1>1, <1>6, <1>7, SameIssued

(* Signing out leaves the pairs on their way alone. *)
LEMMA LeavingInv ==
  ASSUME IInv, NEW t \in Tabs, SignOut(t) \/ Revoke(t) \/ RevokeLost(t) PROVE IInv'
<1> USE DEF IInv
<1>1. UNCHANGED <<chain, age, store, flight, call, entry>>  BY DEF SignOut, Revoke, RevokeLost
<1>2. rows' \in [Pairs -> States] /\ \A n \in Pairs : rows'[n] = "unused" <=> rows[n] = "unused"
  BY DEF SignOut, Revoke, RevokeLost, Typed, States
<1>3. leave' \in [Tabs -> Leaves]
  <2>1. leave \in [Tabs -> Leaves]  BY DEF Typed
  <2>2. \/ leave' = [leave EXCEPT ![t] = [stage |-> IF store = 0 THEN "told" ELSE "asked", sent |-> store]]
        \/ leave' = [leave EXCEPT ![t] = [leave[t] EXCEPT !.stage = "told"]]
    BY DEF SignOut, Revoke, RevokeLost
  <2>3. [stage |-> IF store = 0 THEN "told" ELSE "asked", sent |-> store] \in Leaves  BY DEF Typed, Leaves
  <2>4. [leave[t] EXCEPT !.stage = "told"] \in Leaves  BY <2>1 DEF Leaves
  <2> QED  BY <2>1, <2>2, <2>3, <2>4
<1>4. losses' \in 0..MaxLosses /\ crossed' \in BOOLEAN
  <2>1. losses' = losses \/ (losses < MaxLosses /\ losses' = losses + 1)
    BY DEF SignOut, Revoke, RevokeLost
  <2>2. crossed' \in BOOLEAN  BY DEF Typed, SignOut, Revoke, RevokeLost, Crosses
  <2> QED  BY <2>1, <2>2, LossesTyped DEF Typed
<1>5. Typed'  BY <1>1, <1>2, <1>3, <1>4 DEF Typed
<1> QED  BY <1>1, <1>2, <1>5, SameIssued

LEMMA RowAgesInv == ASSUME IInv, RowAges PROVE IInv'
<1> USE DEF IInv
<1>1. UNCHANGED <<chain, age, store, flight, call, entry, leave, losses, crossed>>  BY DEF RowAges
<1>2. rows' \in [Pairs -> States] /\ \A n \in Pairs : rows'[n] = "unused" <=> rows[n] = "unused"
  BY DEF RowAges, Typed, States
<1>3. Typed'  BY <1>1, <1>2 DEF Typed
<1> QED  BY <1>1, <1>2, <1>3, SameIssued

LEMMA RotateCommitInv == ASSUME IInv, NEW t \in Tabs, RotateCommit(t) PROVE IInv'
<1> USE DEF IInv
<1>1. PICK n \in Pairs :
        /\ Fresh(n)
        /\ rows' = Purged([rows EXCEPT ![flight[t].sent] = "revoked", ![n] = "live"])
        /\ chain' = [chain EXCEPT ![n] = chain[flight[t].sent]]
        /\ Answered(t, n)
  BY DEF RotateCommit
<1>2. UNCHANGED <<age, store, call, entry, leave, losses, crossed>> /\ flight[t].stage = "read"
  BY DEF RotateCommit
<1>3. flight[t].sent \in Pairs /\ flight[t].got = 0  BY <1>2 DEF Typed, Asking, OnTheirWay, Flights
<1>4. DEFINE R == [rows EXCEPT ![flight[t].sent] = "revoked", ![n] = "live"]
<1>5. R \in [Pairs -> States] /\ \A k \in Pairs : R[k] = "unused" => rows[k] = "unused" /\ k # n
  BY <1>3 DEF Typed, States
<1>6. /\ rows' \in [Pairs -> States]
      /\ \A k \in Pairs : rows'[k] = "unused" => rows[k] = "unused" /\ k # n
      /\ \A k \in Pairs : rows'[k] = "unused" <=> R[k] = "unused"
  BY <1>1, <1>5, PurgedRows
<1>7. \A k \in Pairs : rows[k] # "unused" => rows'[k] # "unused"
  BY <1>6
<1>8. rows'[n] # "unused" /\ rows[n] = "unused" /\ age[n] = "fresh" /\ n # store /\ n # 0
  <2>1. rows[n] = "unused"  BY <1>1 DEF Fresh
  <2>2. rows'[n] # "unused"  BY <1>6
  <2>3. age[n] = "fresh" /\ n # store  BY <2>1 DEF Unissued
  <2> QED  BY <2>1, <2>2, <2>3 DEF Pairs
<1>9. /\ flight' \in [Tabs -> Flights]
      /\ \A u \in Tabs \ {t} : flight'[u] = flight[u]
      /\ flight'[t].got = n /\ flight'[t].stage = "answered" /\ flight'[t].sent = flight[t].sent
  BY <1>1, AnsweredFlight DEF Typed
<1>10. chain' \in [Pairs -> Pairs \cup {0}]  BY <1>1, <1>3 DEF Typed
<1>11. Typed'  BY <1>2, <1>6, <1>9, <1>10 DEF Typed
<1>12. \A u \in Tabs : flight[u].got # n /\ entry[u].got # n
  BY <1>8 DEF OnTheirWay, Unstored
<1>13. \A u \in Tabs : flight[u].got \in Pairs \cup {0} /\ entry[u].got \in Pairs \cup {0}
  BY DEF Typed, Flights, Entries
<1>14. OnTheirWay'
  BY <1>2, <1>7, <1>8, <1>9, <1>13 DEF OnTheirWay, Unstored
<1>15. Apart'  BY <1>2, <1>9, <1>12 DEF Apart
<1>16. Unissued'  BY <1>2, <1>6 DEF Unissued
<1>17. Asking'  BY <1>3, <1>9, SessionAssumption DEF Asking, Pairs
<1> QED  BY <1>11, <1>14, <1>15, <1>16, <1>17

LEMMA RefreshArrivesInv == ASSUME IInv, NEW t \in Tabs, RefreshArrives(t) PROVE IInv'
<1> USE DEF IInv
<1>1. /\ store' = flight[t].got
      /\ flight' = [flight EXCEPT ![t] = NoFlight]
      /\ UNCHANGED <<rows, chain, age, entry, leave, losses, crossed>>
  BY DEF RefreshArrives, Store
<1>2. store' \in Pairs \cup {0}  BY <1>1 DEF Typed, Flights
<1>3. call' \in [Tabs -> Calls]
  <2>1. call \in [Tabs -> Calls] /\ NoCall \in Calls  BY DEF Typed, NoCall, Calls
  <2>2. [stage |-> "sent", token |-> store', again |-> TRUE] \in Calls  BY <1>2 DEF Calls
  <2>3. \/ call' = call
        \/ call' = [call EXCEPT ![t] = [stage |-> "sent", token |-> store', again |-> TRUE]]
        \/ call' = [call EXCEPT ![t] = NoCall]
    BY DEF RefreshArrives, CallResumes
  <2> QED  BY <2>1, <2>2, <2>3
<1>4. flight' \in [Tabs -> Flights]
  <2>1. NoFlight \in Flights  BY DEF NoFlight, Flights, Stages
  <2> QED  BY <1>1, <2>1 DEF Typed
<1>5. Typed'  BY <1>1, <1>2, <1>3, <1>4 DEF Typed
<1>6. \A u \in Tabs : /\ u # t => flight'[u] = flight[u]
                      /\ flight'[t].got = 0 /\ flight'[t].stage = "none"
  BY <1>1 DEF NoFlight, Typed
<1>7. \A u \in Tabs : /\ flight'[u].got # 0 => flight'[u].got # store'
                      /\ entry[u].got # 0 => entry[u].got # store'
  BY <1>1, <1>6 DEF Apart
<1>8. OnTheirWay'  BY <1>1, <1>6, <1>7 DEF OnTheirWay, Unstored
<1>9. Apart'  BY <1>1, <1>6 DEF Apart
<1>10. \A n \in Pairs : rows[n] = "unused" => n # store'
  BY <1>1, SessionAssumption DEF OnTheirWay, Unstored, Pairs
<1>11. Unissued'  BY <1>1, <1>10 DEF Unissued
<1>12. Asking'  BY <1>6 DEF Asking
<1> QED  BY <1>5, <1>8, <1>9, <1>11, <1>12

LEMMA EnterInv == ASSUME IInv, NEW t \in Tabs, Enter(t) \/ EnterFails(t) PROVE IInv'
<1> USE DEF IInv
<1>1. UNCHANGED <<rows, chain, age, store, flight, call, leave>>  BY DEF Enter, EnterFails
<1>2. losses' \in 0..MaxLosses /\ crossed' \in BOOLEAN
  <2>1. losses' = losses \/ (losses < MaxLosses /\ losses' = losses + 1)  BY DEF Enter, EnterFails
  <2>2. crossed' \in BOOLEAN  BY DEF Typed, Enter, EnterFails, Crosses
  <2> QED  BY <2>1, <2>2, LossesTyped DEF Typed
<1>3. /\ entry' \in [Tabs -> Entries]
      /\ \A u \in Tabs : \/ entry'[u] = entry[u]
                         \/ entry'[u].got = 0 /\ entry'[u].stage # "answered"
  <2>1. entry \in [Tabs -> Entries] /\ NoEntry \in Entries  BY DEF Typed, NoEntry, Entries
  <2>2. CASE Enter(t)
    <3>1. entry' = [entry EXCEPT ![t] = [entry[t] EXCEPT !.stage = "asked"]] /\ entry[t].stage = "none"
      BY <2>2 DEF Enter
    <3>2. [entry[t] EXCEPT !.stage = "asked"] \in Entries  BY <2>1 DEF Entries
    <3>3. entry[t].got = 0  BY <3>1 DEF OnTheirWay
    <3> QED  BY <2>1, <3>1, <3>2, <3>3 DEF Entries
  <2>3. CASE EnterFails(t)
    <3>1. entry' = [entry EXCEPT ![t] = NoEntry]  BY <2>3 DEF EnterFails
    <3> QED  BY <2>1, <3>1 DEF NoEntry
  <2> QED  BY <2>2, <2>3
<1>4. Typed'  BY <1>1, <1>2, <1>3 DEF Typed
<1>5. \A u \in Tabs : entry'[u].got # 0 => entry'[u] = entry[u]  BY <1>3
<1>6. OnTheirWay'  BY <1>1, <1>3, <1>5 DEF OnTheirWay, Unstored
<1>7. Apart'  BY <1>1, <1>5 DEF Apart
<1>8. Unissued' /\ Asking'  BY <1>1 DEF Unissued, Asking
<1> QED  BY <1>4, <1>6, <1>7, <1>8

LEMMA CreateSessionInv == ASSUME IInv, NEW t \in Tabs, CreateSession(t) PROVE IInv'
<1> USE DEF IInv
<1>1. PICK n \in Pairs :
        /\ Fresh(n)
        /\ rows' = [rows EXCEPT ![n] = "live"]
        /\ chain' = [chain EXCEPT ![n] = n]
        /\ entry' = [entry EXCEPT ![t] = [stage |-> "answered", got |-> n]]
  BY DEF CreateSession
<1>2. UNCHANGED <<age, store, flight, call, leave, losses, crossed>>  BY DEF CreateSession
<1>3. n # 0 /\ n # store /\ age[n] = "fresh" /\ rows[n] = "unused"
  BY <1>1 DEF Fresh, Unissued, Pairs
<1>4. /\ rows' \in [Pairs -> States] /\ rows'[n] = "live"
      /\ \A k \in Pairs : k # n => rows'[k] = rows[k]
  BY <1>1 DEF Typed, States
<1>5. /\ entry' \in [Tabs -> Entries]
      /\ entry'[t].got = n /\ entry'[t].stage = "answered"
      /\ \A u \in Tabs : u # t => entry'[u] = entry[u]
  <2>1. [stage |-> "answered", got |-> n] \in Entries  BY DEF Entries
  <2> QED  BY <1>1, <2>1 DEF Typed
<1>6. chain' \in [Pairs -> Pairs \cup {0}]  BY <1>1 DEF Typed
<1>7. Typed'  BY <1>2, <1>4, <1>5, <1>6 DEF Typed
<1>8. \A u \in Tabs : flight[u].got # n /\ entry[u].got # n
  BY <1>3 DEF OnTheirWay, Unstored
<1>9. \A u \in Tabs : flight[u].got \in Pairs \cup {0} /\ entry[u].got \in Pairs \cup {0}
  BY DEF Typed, Flights, Entries
<1>10. OnTheirWay'
  BY <1>2, <1>3, <1>4, <1>5, <1>8, <1>9 DEF OnTheirWay, Unstored
<1>11. Apart'  BY <1>2, <1>3, <1>5, <1>8 DEF Apart
<1>12. Unissued'  BY <1>2, <1>4 DEF Unissued
<1>13. Asking'  BY <1>2 DEF Asking
<1> QED  BY <1>7, <1>10, <1>11, <1>12, <1>13

LEMMA AdoptSessionInv == ASSUME IInv, NEW t \in Tabs, AdoptSession(t) PROVE IInv'
<1> USE DEF IInv
<1>1. /\ store' = entry[t].got
      /\ entry' = [entry EXCEPT ![t] = NoEntry]
      /\ UNCHANGED <<rows, chain, age, flight, call, leave, losses, crossed>>
  BY DEF AdoptSession, Store
<1>2. /\ entry' \in [Tabs -> Entries]
      /\ entry'[t].got = 0 /\ entry'[t].stage = "none"
      /\ \A u \in Tabs : u # t => entry'[u] = entry[u]
  <2>1. NoEntry \in Entries /\ NoEntry.got = 0 /\ NoEntry.stage = "none"  BY DEF NoEntry, Entries
  <2> QED  BY <1>1, <2>1 DEF Typed
<1>3. Typed'  BY <1>1, <1>2 DEF Typed, Entries
<1>4. \A u \in Tabs : /\ flight[u].got # 0 => flight[u].got # store'
                      /\ entry'[u].got # 0 => entry'[u].got # store'
  BY <1>1, <1>2 DEF Apart
<1>5. OnTheirWay'  BY <1>1, <1>2, <1>4 DEF OnTheirWay, Unstored
<1>6. Apart'  BY <1>1, <1>2 DEF Apart
<1>7. \A n \in Pairs : rows[n] = "unused" => n # store'
  BY <1>1, SessionAssumption DEF OnTheirWay, Unstored, Pairs
<1>8. Unissued' /\ Asking'  BY <1>1, <1>7 DEF Unissued, Asking
<1> QED  BY <1>3, <1>5, <1>6, <1>8

LEMMA SignedOutInv == ASSUME IInv, NEW t \in Tabs, SignedOut(t) PROVE IInv'
<1> USE DEF IInv
<1>1. store' = 0 /\ UNCHANGED <<rows, chain, age, flight, call, entry, losses, crossed>>
  BY DEF SignedOut, Store
<1>2. leave' \in [Tabs -> Leaves]
  <2>1. NoLeave \in Leaves  BY DEF NoLeave, Leaves
  <2> QED  BY <2>1 DEF SignedOut, Typed
<1>3. Typed'  BY <1>1, <1>2 DEF Typed
<1>4. OnTheirWay'  BY <1>1 DEF OnTheirWay, Unstored
<1>5. Apart' /\ Asking'  BY <1>1 DEF Apart, Asking
<1>6. Unissued'  BY <1>1 DEF Unissued, Pairs
<1> QED  BY <1>3, <1>4, <1>5, <1>6

LEMMA AccessAgesInv == ASSUME IInv, AccessAges PROVE IInv'
<1> USE DEF IInv
<1>1. age' = [age EXCEPT ![store] = "expired"] /\ store # 0  BY DEF AccessAges, Ageing
<1>2. UNCHANGED <<rows, chain, store, flight, call, entry, leave, losses, crossed>>  BY DEF AccessAges
<1>3. /\ age' \in [Pairs -> {"fresh", "expired"}]
      /\ \A n \in Pairs : n # store => age'[n] = age[n]
  BY <1>1 DEF Typed
<1>4. Typed'  BY <1>2, <1>3 DEF Typed
<1>5. \A u \in Tabs : flight[u].got \in Pairs \cup {0} /\ entry[u].got \in Pairs \cup {0}
  BY DEF Typed, Flights, Entries
<1>6. OnTheirWay'  BY <1>2, <1>3, <1>5 DEF OnTheirWay, Unstored
<1>7. Apart' /\ Asking'  BY <1>2 DEF Apart, Asking
<1>8. Unissued'  BY <1>2, <1>3 DEF Unissued
<1> QED  BY <1>4, <1>6, <1>7, <1>8

LEMMA StutterInv == ASSUME IInv, UNCHANGED vars PROVE IInv'
BY DEF IInv, vars, Typed, OnTheirWay, Unstored, Apart, Unissued, Asking

LEMMA NextIInv == ASSUME IInv, [Next]_vars PROVE IInv'
<1>1. Doors \subseteq Tabs  BY SessionAssumption
<1> QED
  BY <1>1, RotateReadInv, RotateCommitInv, FailureInv, RefreshArrivesInv, CallsInv, EnterInv,
     CreateSessionInv, AdoptSessionInv, LeavingInv, SignedOutInv, AccessAgesInv, RowAgesInv,
     StutterInv DEF Next

LEMMA IInvariant == Spec => []IInv
BY InitIInv, NextIInv, PTL DEF Spec

-----------------------------------------------------------------------------
(* The refinement *)

LEMMA InitMaps == Init => Interface!TokensInit
BY SessionAssumption DEF Init, Interface!TokensInit, Ageing, NoFlight

Busy == flight[Here].stage # "none"

(* A step of the session that the tab does not see *)
LEMMA Unseen ==
  ASSUME UNCHANGED <<age, store>>, Busy' = Busy
  PROVE  UNCHANGED Interface!tokenVars
BY DEF Interface!tokenVars, Ageing, Busy

(* A pair on its way is stored, or the storage is cleared. *)
LEMMA StoredMaps ==
  ASSUME store' \in Pairs, age'[store'] = "fresh"
  PROVE  Interface!Replaced(store')
BY DEF Interface!Replaced, Ageing, Pairs

LEMMA ClearedMaps == ASSUME store' = 0 PROVE Interface!Cleared
BY DEF Interface!Cleared, Ageing

(* The seen steps: an answer of a refresh, and a pair from a sign-in *)
LEMMA RefreshArrivesMaps ==
  ASSUME IInv, NEW t \in Tabs, RefreshArrives(t)
  PROVE  [Interface!TokensNext]_(Interface!tokenVars)
<1> USE DEF IInv
<1>1. /\ store' = flight[t].got /\ age' = age /\ flight[t].stage = "answered"
      /\ flight' = [flight EXCEPT ![t] = NoFlight]
  BY DEF RefreshArrives, Store
<1>2. IF t = Here THEN Busy /\ ~Busy' ELSE Busy' = Busy
  BY <1>1, SessionAssumption DEF Busy, NoFlight, Typed
<1>3. CASE store' = 0
  <2>1. Interface!Cleared  BY <1>3, ClearedMaps
  <2>2. Interface!RefreshRefused \/ (Interface!Cleared /\ Busy' = Busy)
    BY <1>2, <2>1 DEF Interface!RefreshRefused, Busy
  <2> QED  BY <2>2 DEF Interface!TokensNext, Busy
<1>4. CASE store' # 0
  <2>1. store' \in Pairs /\ age'[store'] = "fresh"
    BY <1>1, <1>4 DEF Typed, Flights, OnTheirWay, Unstored
  <2>2. Interface!Replaced(store')  BY <2>1, StoredMaps
  <2>3. Interface!Refreshed(store') \/ (Interface!Replaced(store') /\ Busy' = Busy)
    BY <1>2, <2>2 DEF Interface!Refreshed, Busy
  <2> QED  BY <2>1, <2>3 DEF Interface!TokensNext, Busy
<1> QED  BY <1>3, <1>4

LEMMA AdoptSessionMaps ==
  ASSUME IInv, NEW t \in Tabs, AdoptSession(t)
  PROVE  Interface!TokensNext
<1> USE DEF IInv
<1>1. store' = entry[t].got /\ age' = age /\ flight' = flight /\ entry[t].stage = "answered"
  BY DEF AdoptSession, Store
<1>2. store' \in Pairs /\ age'[store'] = "fresh"
  BY <1>1 DEF Typed, Entries, OnTheirWay, Unstored
<1>3. Interface!Replaced(store')  BY <1>2, StoredMaps
<1> QED  BY <1>1, <1>2, <1>3 DEF Interface!TokensNext

LEMMA RefreshLostMaps ==
  ASSUME IInv, NEW t \in Tabs, RefreshLost(t)
  PROVE  [Interface!TokensNext]_(Interface!tokenVars)
<1> USE DEF IInv
<1>1. /\ UNCHANGED <<age, store>> /\ flight[t].stage # "none"
      /\ flight' = [flight EXCEPT ![t] = NoFlight]
  BY DEF RefreshLost
<1>2. IF t = Here THEN Busy /\ ~Busy' ELSE Busy' = Busy
  BY <1>1, SessionAssumption DEF Busy, NoFlight, Typed
<1>3. CASE t = Here
  <2>1. Interface!RefreshFailed  BY <1>1, <1>2, <1>3 DEF Interface!RefreshFailed, Busy, Ageing
  <2> QED  BY <2>1 DEF Interface!TokensNext
<1>4. CASE t # Here  BY <1>1, <1>2, <1>4, Unseen
<1> QED  BY <1>3, <1>4

LEMMA CallAnsweredMaps ==
  ASSUME IInv, NEW t \in Tabs, CallAnswered(t)
  PROVE  [Interface!TokensNext]_(Interface!tokenVars)
<1> USE DEF IInv
<1>1. UNCHANGED <<age, store>>  BY DEF CallAnswered
<1>2. \/ flight' = flight
      \/ /\ store # 0 /\ flight[t].stage = "none"
         /\ flight' = [flight EXCEPT ![t] = [stage |-> "asked", sent |-> store, got |-> 0]]
  BY DEF CallAnswered, Refreshing
<1>3. CASE flight' = flight \/ t # Here
  <2>1. Busy' = Busy  BY <1>2, <1>3, SessionAssumption DEF Busy, Typed
  <2> QED  BY <1>1, <2>1, Unseen
<1>4. CASE flight' # flight /\ t = Here
  <2>1. store # 0 /\ ~Busy /\ Busy'  BY <1>2, <1>4, SessionAssumption DEF Busy, Typed
  <2>2. Interface!StartRefresh  BY <1>1, <2>1 DEF Interface!StartRefresh, Busy, Ageing
  <2> QED  BY <2>2 DEF Interface!TokensNext
<1> QED  BY <1>3, <1>4

LEMMA AccessAgesMaps == ASSUME IInv, AccessAges PROVE Interface!TokensNext
<1> USE DEF IInv
<1>1. ~Ageing(store) /\ age' = [age EXCEPT ![store] = "expired"] /\ UNCHANGED <<store, flight>>
  BY DEF AccessAges
<1>2. store \in Pairs  BY <1>1 DEF Ageing, Typed
<1>3. age'[store'] = "expired"  BY <1>1, <1>2 DEF Typed
<1>4. Interface!Age  BY <1>1, <1>3 DEF Interface!Age, Ageing
<1> QED  BY <1>4 DEF Interface!TokensNext

LEMMA SignedOutMaps == ASSUME NEW t \in Tabs, SignedOut(t) PROVE Interface!TokensNext
<1>1. store' = 0 /\ flight' = flight  BY DEF SignedOut, Store
<1>2. Interface!Cleared  BY <1>1, ClearedMaps
<1> QED  BY <1>1, <1>2 DEF Interface!TokensNext

(* The server's side of a refresh keeps the tab waiting. *)
LEMMA ServerMaps ==
  ASSUME IInv, NEW t \in Tabs, RotateRead(t) \/ RotateCommit(t) \/ ServerFails(t)
  PROVE  UNCHANGED Interface!tokenVars
<1> USE DEF IInv
<1>1. UNCHANGED <<age, store>> /\ flight[t].stage # "none"
  BY DEF RotateRead, RotateCommit, ServerFails
<1>2. \/ flight' = [flight EXCEPT ![t].stage = "read"]
      \/ \E n : Answered(t, n)
  BY DEF RotateRead, RotateCommit, ServerFails
<1>3. flight'[t].stage # "none" /\ \A u \in Tabs : u # t => flight'[u] = flight[u]
  <2>1. flight \in [Tabs -> Flights]  BY DEF Typed
  <2>2. CASE flight' = [flight EXCEPT ![t].stage = "read"]  BY <2>1, <2>2 DEF Flights
  <2>3. ASSUME NEW n, Answered(t, n)
        PROVE  flight'[t].stage # "none" /\ \A u \in Tabs : u # t => flight'[u] = flight[u]
    <3>1. flight' = [flight EXCEPT ![t] = [flight[t] EXCEPT !.stage = "answered", !.got = n]]
      BY <2>3 DEF Answered
    <3> QED  BY <2>1, <3>1 DEF Flights
  <2> QED  BY <1>2, <2>2, <2>3
<1>4. Busy' = Busy  BY <1>1, <1>3, SessionAssumption DEF Busy
<1> QED  BY <1>1, <1>4, Unseen

LEMMA HiddenMaps ==
  ASSUME NEW t \in Tabs,
         \/ Call(t) \/ Enter(t) \/ CreateSession(t) \/ EnterFails(t)
         \/ SignOut(t) \/ Revoke(t) \/ RevokeLost(t) \/ RowAges \/ UNCHANGED vars
  PROVE  UNCHANGED Interface!tokenVars
<1>1. UNCHANGED <<age, store, flight>>
  BY DEF Call, Enter, CreateSession, EnterFails, SignOut, Revoke, RevokeLost, RowAges, vars
<1> QED  BY <1>1, Unseen DEF Busy

LEMMA NextMaps ==
  ASSUME IInv, [Next]_vars PROVE [Interface!TokensNext]_(Interface!tokenVars)
<1>1. Doors \subseteq Tabs /\ Here \in Tabs  BY SessionAssumption
<1> QED
  BY <1>1, RefreshArrivesMaps, AdoptSessionMaps, RefreshLostMaps, CallAnsweredMaps, AccessAgesMaps,
     SignedOutMaps, ServerMaps, HiddenMaps DEF Next

(* Each row, pair and exchange keeps its type. *)
THEOREM TypeCorrect == Spec => []TypeOK
<1>1. IInv => TypeOK
  BY DEF IInv, Typed, TypeOK, States, Flights, Stages, Calls, Entries, Leaves
<1> QED  BY <1>1, IInvariant, PTL

(* What the tabs of a browser do to one storage, and the server to its      *)
(* tokens, is for each tab what Tokens promises: refreshes one at a time,   *)
(* and a pair that is replaced, cleared or aged, but never ageing when it   *)
(* has just been stored.                                                    *)
THEOREM SessionImplementsTokens == Spec => InterfaceKept
<1>1. Init => Interface!TokensInit  BY InitMaps
<1>2. IInv /\ [Next]_vars => [Interface!TokensNext]_(Interface!tokenVars)  BY NextMaps
<1> QED  BY <1>1, <1>2, IInvariant, PTL DEF Spec, InterfaceKept, Interface!TokensSpec

-----------------------------------------------------------------------------
(* Exchanges that do not overlap *)

InFlight(t) == flight[t].stage # "none"
InEntry(t) == entry[t].stage # "none"
InLeave(t) == leave[t].stage # "none"

Solo ==
  ~crossed =>
    \A t, u \in Tabs :
      /\ InFlight(t) /\ InFlight(u) => t = u
      /\ InEntry(t) /\ InEntry(u) => t = u
      /\ InLeave(t) /\ InLeave(u) => t = u
      /\ ~(InFlight(t) /\ InEntry(u)) /\ ~(InFlight(t) /\ InLeave(u)) /\ ~(InEntry(t) /\ InLeave(u))

(* What is rotated or revoked is what is stored. *)
SentIsStored ==
  ~crossed => \A t \in Tabs : /\ InFlight(t) => flight[t].sent = store
                              /\ InLeave(t) => leave[t].sent = store

(* A chain begins with a row that was issued. *)
Chains ==
  /\ \A n \in Pairs : rows[n] # "unused" => chain[n] \in Pairs /\ rows[chain[n]] # "unused"
  /\ \A t \in Tabs : InFlight(t) => rows[flight[t].sent] # "unused"

(* The token that is being rotated is the last of its chain. *)
LastOfChain ==
  ~crossed =>
    \A t \in Tabs : flight[t].stage = "read" =>
      \A m \in Pairs : rows[m] = "live" /\ chain[m] = chain[flight[t].sent] => m = flight[t].sent

Usable == {"live", "aged"}

(* A pair on its way can be used, and a token that passed the checks still   *)
(* can when its rotation commits.                                            *)
UsableOnTheirWay ==
  ~crossed /\ losses = 0 =>
    \A t \in Tabs : /\ flight[t].got # 0 => rows[flight[t].got] \in Usable
                    /\ entry[t].got # 0 => rows[entry[t].got] \in Usable
                    /\ flight[t].stage = "read" => rows[flight[t].sent] \in Usable

SInv == Solo /\ SentIsStored /\ Chains /\ LastOfChain /\ OneLiveToken /\ UsableOnTheirWay /\ StoredIsUsable

LEMMA InitSInv == Init => SInv
BY DEF Init, SInv, Solo, SentIsStored, Chains, LastOfChain, OneLiveToken, UsableOnTheirWay, StoredIsUsable,
       InFlight, InEntry, InLeave, NoFlight, NoEntry, NoLeave

LEMMA SameSInv ==
  ASSUME IInv, SInv, UNCHANGED <<rows, chain, store, flight, entry, leave, losses, crossed>>
  PROVE  SInv'
BY DEF SInv, Solo, SentIsStored, Chains, LastOfChain, OneLiveToken, UsableOnTheirWay, StoredIsUsable,
       InFlight, InEntry, InLeave

(* While nothing overlaps, the other tabs carry nothing. *)
LEMMA Alone ==
  ASSUME IInv, Solo, ~crossed, NEW t \in Tabs
  PROVE  /\ InFlight(t) => \A u \in Tabs : /\ u # t => ~InFlight(u) /\ flight[u].got = 0
                                           /\ ~InEntry(u) /\ entry[u].got = 0 /\ ~InLeave(u)
         /\ InEntry(t) => \A u \in Tabs : /\ u # t => ~InEntry(u) /\ entry[u].got = 0
                                          /\ ~InFlight(u) /\ flight[u].got = 0 /\ ~InLeave(u)
         /\ InLeave(t) => \A u \in Tabs : /\ u # t => ~InLeave(u)
                                          /\ ~InFlight(u) /\ flight[u].got = 0
                                          /\ ~InEntry(u) /\ entry[u].got = 0
BY DEF IInv, OnTheirWay, Solo, InFlight, InEntry, InLeave

(* An exchange that starts while another is on crosses it. *)
LEMMA Crossing ==
  ASSUME crossed' = (crossed \/ Flying \cup Entering \cup Leaving # {}), ~crossed'
  PROVE  ~crossed /\ \A t \in Tabs : ~InFlight(t) /\ ~InEntry(t) /\ ~InLeave(t)
BY DEF Flying, Entering, Leaving, InFlight, InEntry, InLeave

LEMMA CallAnsweredS == ASSUME IInv, SInv, NEW t \in Tabs, CallAnswered(t) PROVE SInv'
<1> USE DEF IInv, SInv
<1>1. UNCHANGED <<rows, chain, store, entry, leave, losses>>  BY DEF CallAnswered
<1>2. CASE UNCHANGED <<flight, crossed>>  BY <1>1, <1>2, SameSInv
<1>3. CASE ~UNCHANGED <<flight, crossed>>
  <2>1. /\ store # 0
        /\ flight' = [flight EXCEPT ![t] = [stage |-> "asked", sent |-> store, got |-> 0]]
        /\ crossed' = (crossed \/ Flying \cup Entering \cup Leaving # {})
    BY <1>3 DEF CallAnswered, Refreshing, Crosses
  <2>2. /\ flight'[t].stage = "asked" /\ flight'[t].sent = store /\ flight'[t].got = 0
        /\ \A u \in Tabs : u # t => flight'[u] = flight[u]
    BY <2>1 DEF Typed
  <2>3. ~crossed' => ~crossed /\ \A u \in Tabs : ~InFlight(u) /\ ~InEntry(u) /\ ~InLeave(u)
    BY <2>1, Crossing
  <2>4. Solo' /\ SentIsStored'
    BY <1>1, <2>2, <2>3 DEF Solo, SentIsStored, InFlight, InEntry, InLeave
  <2>5. rows[store] # "unused"  BY <2>1 DEF Typed, Unissued
  <2>6. Chains'  BY <1>1, <2>2, <2>5 DEF Chains, InFlight
  <2>7. LastOfChain'  BY <1>1, <2>2, <2>3 DEF LastOfChain, InFlight
  <2>8. OneLiveToken'  BY <1>1, <2>3 DEF OneLiveToken
  <2>9. UsableOnTheirWay'  BY <1>1, <2>2, <2>3 DEF UsableOnTheirWay
  <2>10. StoredIsUsable'  BY <1>1, <2>2, <2>3 DEF StoredIsUsable, InFlight, InLeave
  <2> QED  BY <2>4, <2>6, <2>7, <2>8, <2>9, <2>10
<1> QED  BY <1>2, <1>3

LEMMA RotateReadS == ASSUME IInv, SInv, NEW t \in Tabs, RotateRead(t) PROVE SInv'
<1> USE DEF IInv, SInv
<1> DEFINE n == flight[t].sent
<1>1. /\ UNCHANGED <<chain, store, entry, leave, losses, crossed>>
      /\ flight[t].stage = "asked" /\ flight[t].got = 0 /\ InFlight(t)
      /\ n \in Pairs
  BY DEF RotateRead, OnTheirWay, InFlight, Asking, Typed, Flights
<1>2. flight \in [Tabs -> Flights] /\ rows \in [Pairs -> States]  BY DEF Typed
<1>3. CASE rows[n] = "live" /\ UNCHANGED rows /\ flight' = [flight EXCEPT ![t].stage = "read"]
  <2>1. /\ flight'[t].stage = "read" /\ flight'[t].sent = n /\ flight'[t].got = 0
        /\ \A u \in Tabs : u # t => flight'[u] = flight[u]
    BY <1>1, <1>2, <1>3 DEF Flights
  <2>2. Solo' /\ SentIsStored' /\ Chains'
    BY <1>1, <1>3, <2>1 DEF Solo, SentIsStored, Chains, InFlight, InEntry, InLeave
  <2>3. LastOfChain'  BY <1>1, <1>3, <2>1 DEF LastOfChain, OneLiveToken
  <2>4. OneLiveToken'  BY <1>1, <1>3 DEF OneLiveToken
  <2>5. UsableOnTheirWay'  BY <1>1, <1>3, <2>1 DEF UsableOnTheirWay, Usable
  <2>6. StoredIsUsable'  BY <1>1, <1>3, <2>1 DEF StoredIsUsable
  <2> QED  BY <2>2, <2>3, <2>4, <2>5, <2>6
<1>4. CASE /\ Answered(t, 0)
           /\ rows' \in [Pairs -> States]
           /\ \A k \in Pairs : /\ rows'[k] = "unused" <=> rows[k] = "unused"
                               /\ rows'[k] = "live" => rows[k] = "live"
  <2>1. /\ flight'[t].stage = "answered" /\ flight'[t].sent = n /\ flight'[t].got = 0
        /\ \A u \in Tabs : u # t => flight'[u] = flight[u]
    BY <1>2, <1>4, AnsweredFlight
  <2>2. Solo' /\ SentIsStored'
    BY <1>1, <2>1 DEF Solo, SentIsStored, InFlight, InEntry, InLeave
  <2>3. Chains'  BY <1>1, <1>4, <2>1 DEF Chains, InFlight, Asking, Typed, Flights
  <2>4. ~crossed => \A u \in Tabs : /\ u # t => ~InFlight(u) /\ flight[u].got = 0
                                    /\ entry[u].got = 0
    BY <1>1, Alone
  <2>5. LastOfChain'  BY <1>1, <2>1, <2>4 DEF LastOfChain, InFlight
  <2>6. OneLiveToken'  BY <1>1, <1>4 DEF OneLiveToken
  <2>7. UsableOnTheirWay'  BY <1>1, <2>1, <2>4 DEF UsableOnTheirWay, InFlight
  <2>8. StoredIsUsable'  BY <1>1, <2>1 DEF StoredIsUsable, SentIsStored
  <2> QED  BY <2>2, <2>3, <2>5, <2>6, <2>7, <2>8
<1>5. \/ rows[n] = "live" /\ UNCHANGED rows /\ flight' = [flight EXCEPT ![t].stage = "read"]
      \/ Answered(t, 0) /\ (rows' = AllRevoked \/ rows' = rows \/ (rows[n] = "aged" /\ rows' = [rows EXCEPT ![n] = "revoked"]))
  BY DEF RotateRead
<1>6. CASE rows' = AllRevoked /\ Answered(t, 0)
  <2>1. rows' \in [Pairs -> States] /\ \A k \in Pairs : rows'[k] = "unused" <=> rows[k] = "unused"
    BY <1>2, <1>6, RevokedRows
  <2>2. \A k \in Pairs : rows'[k] # "live"  BY <1>6 DEF AllRevoked
  <2> QED  BY <1>4, <1>6, <2>1, <2>2
<1>7. CASE rows' = rows /\ Answered(t, 0)  BY <1>2, <1>4, <1>7
<1>8. CASE rows[n] = "aged" /\ rows' = [rows EXCEPT ![n] = "revoked"] /\ Answered(t, 0)
  <2>1. rows' \in [Pairs -> States]  BY <1>2, <1>8 DEF States
  <2>2. \A k \in Pairs : /\ rows'[k] = "unused" <=> rows[k] = "unused"
                         /\ rows'[k] = "live" => rows[k] = "live"
    BY <1>1, <1>2, <1>8
  <2> QED  BY <1>4, <1>8, <2>1, <2>2
<1> QED  BY <1>3, <1>5, <1>6, <1>7, <1>8

LEMMA RotateCommitS == ASSUME IInv, SInv, NEW t \in Tabs, RotateCommit(t) PROVE SInv'
<1> USE DEF IInv, SInv
<1> DEFINE s == flight[t].sent
<1>1. PICK n \in Pairs :
        /\ Fresh(n)
        /\ rows' = Purged([rows EXCEPT ![s] = "revoked", ![n] = "live"])
        /\ chain' = [chain EXCEPT ![n] = chain[s]]
        /\ Answered(t, n)
  BY DEF RotateCommit
<1>2. /\ UNCHANGED <<store, entry, leave, losses, crossed>>
      /\ flight[t].stage = "read" /\ InFlight(t) /\ s \in Pairs
  BY DEF RotateCommit, InFlight, Asking, Typed, Flights
<1>3. flight \in [Tabs -> Flights] /\ rows \in [Pairs -> States] /\ chain \in [Pairs -> Pairs \cup {0}]
  BY DEF Typed
<1>4. rows[n] = "unused" /\ rows[s] # "unused" /\ s # n  BY <1>1, <1>2 DEF Fresh, Chains
<1>5. \A k \in Pairs : /\ rows'[k] = "unused" => rows[k] = "unused" /\ k # n
                       /\ rows[k] # "unused" => rows'[k] # "unused"
                       /\ rows'[k] = "live" => k = n \/ (rows[k] = "live" /\ k # s)
                       /\ rows'[n] = "live"
  BY <1>1, <1>2, <1>3, <1>4 DEF Purged, States
<1>6. chain'[n] = chain[s] /\ \A k \in Pairs : k # n => chain'[k] = chain[k]  BY <1>1, <1>3
<1>7. /\ flight'[t].stage = "answered" /\ flight'[t].sent = s /\ flight'[t].got = n
      /\ \A u \in Tabs : u # t => flight'[u] = flight[u]
  BY <1>1, <1>3, AnsweredFlight
<1>8. ~crossed => \A u \in Tabs : /\ u # t => ~InFlight(u) /\ flight[u].got = 0
                                  /\ entry[u].got = 0
  BY <1>2, Alone
<1>9. Solo' /\ SentIsStored'
  BY <1>2, <1>7 DEF Solo, SentIsStored, InFlight, InEntry, InLeave
<1>10. Chains'
  <2>1. \A k \in Pairs : rows'[k] # "unused" => chain'[k] \in Pairs /\ rows'[chain'[k]] # "unused"
    <3> SUFFICES ASSUME NEW k \in Pairs, rows'[k] # "unused"
                 PROVE  chain'[k] \in Pairs /\ rows'[chain'[k]] # "unused"
      OBVIOUS
    <3>1. CASE k = n  BY <1>2, <1>4, <1>5, <1>6, <3>1 DEF Chains
    <3>2. CASE k # n
      <4>1. rows[k] # "unused"
        BY <1>1, <1>2, <1>3, <1>4, <3>2 DEF Purged, States
      <4> QED  BY <1>5, <1>6, <3>2, <4>1 DEF Chains
    <3> QED  BY <3>1, <3>2
  <2>2. \A u \in Tabs : InFlight(u)' => rows'[flight'[u].sent] # "unused"
    BY <1>2, <1>4, <1>5, <1>7 DEF Chains, InFlight, Asking, Typed, Flights
  <2> QED  BY <2>1, <2>2 DEF Chains
<1>11. LastOfChain'  BY <1>2, <1>7, <1>8 DEF LastOfChain, InFlight
<1>12. OneLiveToken'
  BY <1>2, <1>5, <1>6 DEF OneLiveToken, LastOfChain
<1>13. UsableOnTheirWay'  BY <1>2, <1>5, <1>7, <1>8 DEF UsableOnTheirWay, InFlight, Usable
<1>14. StoredIsUsable'  BY <1>2, <1>7 DEF StoredIsUsable, SentIsStored
<1> QED  BY <1>9, <1>10, <1>11, <1>12, <1>13, <1>14

LEMMA FailureS == ASSUME IInv, SInv, NEW t \in Tabs, ServerFails(t) \/ RefreshLost(t) PROVE SInv'
<1> USE DEF IInv, SInv
<1>1. UNCHANGED <<rows, chain, store, entry, leave, crossed>>  BY DEF ServerFails, RefreshLost
<1>2. losses \in Nat  BY SessionAssumption DEF Typed
<1>3. flight \in [Tabs -> Flights]  BY DEF Typed
<1>4. CASE ServerFails(t)
  <2>1. losses' # 0 /\ Answered(t, 0) /\ flight[t].stage = "asked"  BY <1>2, <1>4 DEF ServerFails
  <2>2. /\ flight'[t].stage = "answered" /\ flight'[t].sent = flight[t].sent
        /\ \A u \in Tabs : u # t => flight'[u] = flight[u]
    BY <1>3, <2>1, AnsweredFlight
  <2>3. Solo' /\ SentIsStored' /\ Chains'
    BY <1>1, <2>1, <2>2 DEF Solo, SentIsStored, Chains, InFlight, InEntry, InLeave
  <2>4. LastOfChain'  BY <1>1, <2>2 DEF LastOfChain
  <2>5. OneLiveToken'  BY <1>1 DEF OneLiveToken
  <2>6. UsableOnTheirWay' /\ StoredIsUsable'  BY <2>1 DEF UsableOnTheirWay, StoredIsUsable
  <2> QED  BY <2>3, <2>4, <2>5, <2>6
<1>5. CASE RefreshLost(t)
  <2>1. /\ flight'[t].stage = "none" /\ flight'[t].got = 0
        /\ \A u \in Tabs : u # t => flight'[u] = flight[u]
    BY <1>3, <1>5 DEF RefreshLost, NoFlight
  <2>2. losses' # 0 \/ (losses' = losses /\ flight[t].stage = "read")  BY <1>2, <1>5 DEF RefreshLost
  <2>3. Solo' /\ SentIsStored' /\ Chains'
    BY <1>1, <2>1 DEF Solo, SentIsStored, Chains, InFlight, InEntry, InLeave
  <2>4. LastOfChain'  BY <1>1, <2>1 DEF LastOfChain
  <2>5. OneLiveToken'  BY <1>1 DEF OneLiveToken
  <2>6. UsableOnTheirWay'  BY <1>1, <2>1, <2>2 DEF UsableOnTheirWay
  <2>7. StoredIsUsable'  BY <1>1, <2>1, <2>2 DEF StoredIsUsable
  <2> QED  BY <2>3, <2>4, <2>5, <2>6, <2>7
<1> QED  BY <1>4, <1>5

LEMMA RefreshArrivesS == ASSUME IInv, SInv, NEW t \in Tabs, RefreshArrives(t) PROVE SInv'
<1> USE DEF IInv, SInv
<1>1. /\ UNCHANGED <<rows, chain, entry, leave, losses, crossed>>
      /\ store' = flight[t].got /\ InFlight(t)
  BY DEF RefreshArrives, Store, InFlight
<1>2. /\ flight'[t].stage = "none" /\ flight'[t].got = 0
      /\ \A u \in Tabs : u # t => flight'[u] = flight[u]
  BY DEF RefreshArrives, NoFlight, Typed
<1>3. ~crossed => \A u \in Tabs : (u # t => ~InFlight(u)) /\ ~InLeave(u)
  BY <1>1, Alone
<1>4. Solo' /\ SentIsStored' /\ Chains'
  BY <1>1, <1>2, <1>3 DEF Solo, SentIsStored, Chains, InFlight, InEntry, InLeave
<1>5. LastOfChain'  BY <1>1, <1>2 DEF LastOfChain
<1>6. OneLiveToken'  BY <1>1 DEF OneLiveToken
<1>7. UsableOnTheirWay'  BY <1>1, <1>2 DEF UsableOnTheirWay
<1>8. StoredIsUsable'  BY <1>1 DEF StoredIsUsable, UsableOnTheirWay, Usable
<1> QED  BY <1>4, <1>5, <1>6, <1>7, <1>8

LEMMA EnterS == ASSUME IInv, SInv, NEW t \in Tabs, Enter(t) \/ EnterFails(t) PROVE SInv'
<1> USE DEF IInv, SInv
<1>1. UNCHANGED <<rows, chain, store, flight, leave>>  BY DEF Enter, EnterFails
<1>2. losses' = 0 => losses = 0  BY SessionAssumption DEF Enter, EnterFails, Typed
<1>3. \A u \in Tabs : u # t => entry'[u] = entry[u]  BY DEF Enter, EnterFails, Typed
<1>4. entry'[t].got = 0
  <2>1. entry[t].stage = "none" => entry[t].got = 0  BY DEF OnTheirWay
  <2>2. entry \in [Tabs -> Entries]  BY DEF Typed
  <2> QED  BY <2>1, <2>2 DEF Enter, EnterFails, NoEntry, Entries
<1>5. CASE Enter(t)
  <2>1. crossed' = (crossed \/ Flying \cup Entering \cup Leaving # {})  BY <1>5 DEF Enter, Crosses
  <2>2. ~crossed' => ~crossed /\ \A u \in Tabs : ~InFlight(u) /\ ~InEntry(u) /\ ~InLeave(u)
    BY <2>1, Crossing
  <2>3. Solo' /\ SentIsStored' /\ Chains'
    BY <1>1, <1>3, <2>2 DEF Solo, SentIsStored, Chains, InFlight, InEntry, InLeave
  <2>4. LastOfChain' /\ OneLiveToken'  BY <1>1, <2>2 DEF LastOfChain, OneLiveToken
  <2>5. UsableOnTheirWay'  BY <1>1, <1>2, <1>3, <1>4, <2>2 DEF UsableOnTheirWay
  <2>6. StoredIsUsable'  BY <1>1, <1>2, <2>2 DEF StoredIsUsable
  <2> QED  BY <2>3, <2>4, <2>5, <2>6
<1>6. CASE EnterFails(t)
  <2>1. entry'[t].stage = "none" /\ crossed' = crossed  BY <1>6 DEF EnterFails, NoEntry, Typed
  <2>3. Solo' /\ SentIsStored' /\ Chains'
    BY <1>1, <1>3, <2>1 DEF Solo, SentIsStored, Chains, InFlight, InEntry, InLeave
  <2>4. LastOfChain' /\ OneLiveToken'  BY <1>1, <2>1 DEF LastOfChain, OneLiveToken
  <2>5. UsableOnTheirWay'  BY <1>1, <1>2, <1>3, <1>4, <2>1 DEF UsableOnTheirWay
  <2>6. StoredIsUsable'  BY <1>1, <1>2, <2>1 DEF StoredIsUsable
  <2> QED  BY <2>3, <2>4, <2>5, <2>6
<1> QED  BY <1>5, <1>6

LEMMA CreateSessionS == ASSUME IInv, SInv, NEW t \in Tabs, CreateSession(t) PROVE SInv'
<1> USE DEF IInv, SInv
<1>1. PICK n \in Pairs :
        /\ Fresh(n)
        /\ rows' = [rows EXCEPT ![n] = "live"]
        /\ chain' = [chain EXCEPT ![n] = n]
        /\ entry' = [entry EXCEPT ![t] = [stage |-> "answered", got |-> n]]
  BY DEF CreateSession
<1>2. UNCHANGED <<store, flight, leave, losses, crossed>> /\ InEntry(t)
  BY DEF CreateSession, InEntry
<1>3. rows[n] = "unused" /\ n # store  BY <1>1 DEF Fresh, Unissued
<1>4. /\ rows'[n] = "live" /\ \A k \in Pairs : k # n => rows'[k] = rows[k]
      /\ chain'[n] = n /\ \A k \in Pairs : k # n => chain'[k] = chain[k]
      /\ entry'[t].got = n /\ entry'[t].stage = "answered"
      /\ \A u \in Tabs : u # t => entry'[u] = entry[u]
  BY <1>1 DEF Typed
<1>5. ~crossed => \A u \in Tabs : /\ u # t => entry[u].got = 0
                                  /\ ~InFlight(u) /\ flight[u].got = 0 /\ ~InLeave(u)
  BY <1>2, Alone
<1>6. Solo' /\ SentIsStored'
  BY <1>2, <1>4 DEF Solo, SentIsStored, InFlight, InEntry, InLeave
<1>7. Chains'
  <2>1. \A k \in Pairs : rows[k] # "unused" => rows'[k] # "unused"  BY <1>3, <1>4
  <2>2. \A u \in Tabs : InFlight(u) => flight[u].sent \in Pairs
    BY DEF Asking, InFlight, Typed, Flights
  <2> QED  BY <1>2, <1>4, <2>1, <2>2 DEF Chains, InFlight
<1>8. LastOfChain'  BY <1>2, <1>5 DEF LastOfChain, InFlight
<1>9. OneLiveToken'  BY <1>2, <1>3, <1>4 DEF OneLiveToken, Chains
<1>10. UsableOnTheirWay'  BY <1>2, <1>4, <1>5 DEF UsableOnTheirWay, Usable, InFlight
<1>11. StoredIsUsable'  BY <1>2, <1>3, <1>4 DEF StoredIsUsable, Typed
<1> QED  BY <1>6, <1>7, <1>8, <1>9, <1>10, <1>11

LEMMA AdoptSessionS == ASSUME IInv, SInv, NEW t \in Tabs, AdoptSession(t) PROVE SInv'
<1> USE DEF IInv, SInv
<1>1. /\ UNCHANGED <<rows, chain, flight, leave, losses, crossed>>
      /\ store' = entry[t].got /\ InEntry(t)
  BY DEF AdoptSession, Store, InEntry
<1>2. /\ entry'[t].stage = "none" /\ entry'[t].got = 0
      /\ \A u \in Tabs : u # t => entry'[u] = entry[u]
  BY DEF AdoptSession, NoEntry, Typed
<1>3. ~crossed => \A u \in Tabs : ~InFlight(u) /\ ~InLeave(u)
  BY <1>1, Alone
<1>4. Solo' /\ SentIsStored' /\ Chains'
  BY <1>1, <1>2, <1>3 DEF Solo, SentIsStored, Chains, InFlight, InEntry, InLeave
<1>5. LastOfChain' /\ OneLiveToken'  BY <1>1 DEF LastOfChain, OneLiveToken
<1>6. UsableOnTheirWay'  BY <1>1, <1>2 DEF UsableOnTheirWay
<1>7. StoredIsUsable'  BY <1>1 DEF StoredIsUsable, UsableOnTheirWay, Usable
<1> QED  BY <1>4, <1>5, <1>6, <1>7

LEMMA SignOutS == ASSUME IInv, SInv, NEW t \in Tabs, SignOut(t) PROVE SInv'
<1> USE DEF IInv, SInv
<1>1. UNCHANGED <<rows, chain, store, flight, entry, losses>>  BY DEF SignOut
<1>2. leave'[t].sent = store /\ \A u \in Tabs : u # t => leave'[u] = leave[u]  BY DEF SignOut, Typed
<1>3. crossed' = (crossed \/ Flying \cup Entering \cup Leaving # {})  BY DEF SignOut, Crosses
<1>4. ~crossed' => ~crossed /\ \A u \in Tabs : ~InFlight(u) /\ ~InEntry(u) /\ ~InLeave(u)
  BY <1>3, Crossing
<1>5. Solo' /\ SentIsStored' /\ Chains'
  BY <1>1, <1>2, <1>4 DEF Solo, SentIsStored, Chains, InFlight, InEntry, InLeave
<1>6. LastOfChain' /\ OneLiveToken' /\ UsableOnTheirWay'
  BY <1>1, <1>4 DEF LastOfChain, OneLiveToken, UsableOnTheirWay
<1>7. StoredIsUsable'  BY <1>1, <1>4 DEF StoredIsUsable, InFlight, InLeave
<1> QED  BY <1>5, <1>6, <1>7

LEMMA RevokeS == ASSUME IInv, SInv, NEW t \in Tabs, Revoke(t) \/ RevokeLost(t) PROVE SInv'
<1> USE DEF IInv, SInv
<1>1. UNCHANGED <<chain, store, flight, entry, crossed>> /\ InLeave(t)
  BY DEF Revoke, RevokeLost, InLeave
<1>2. /\ leave'[t].stage = "told" /\ leave'[t].sent = leave[t].sent
      /\ \A u \in Tabs : u # t => leave'[u] = leave[u]
  <2>1. leave' = [leave EXCEPT ![t] = [leave[t] EXCEPT !.stage = "told"]] /\ leave \in [Tabs -> Leaves]
    BY DEF Revoke, RevokeLost, Typed
  <2> QED  BY <2>1 DEF Leaves
<1>3. \A k \in Pairs : /\ rows'[k] = "unused" <=> rows[k] = "unused"
                       /\ rows'[k] = "live" => rows[k] = "live"
  BY DEF Revoke, RevokeLost, Typed
<1>4. losses' = 0 => losses = 0  BY SessionAssumption DEF Revoke, RevokeLost, Typed
<1>5. ~crossed => \A u \in Tabs : /\ u # t => ~InLeave(u)
                                  /\ ~InFlight(u) /\ flight[u].got = 0
                                  /\ entry[u].got = 0
  BY <1>1, Alone
<1>6. Solo' /\ SentIsStored'
  BY <1>1, <1>2 DEF Solo, SentIsStored, InFlight, InEntry, InLeave
<1>7. Chains'  BY <1>1, <1>3 DEF Chains, InFlight, Asking, Typed, Flights
<1>8. LastOfChain'  BY <1>1, <1>5 DEF LastOfChain, InFlight
<1>9. OneLiveToken'  BY <1>1, <1>3 DEF OneLiveToken
<1>10. UsableOnTheirWay'  BY <1>1, <1>5 DEF UsableOnTheirWay, InFlight
<1>11. StoredIsUsable'  BY <1>1, <1>2 DEF StoredIsUsable, SentIsStored
<1> QED  BY <1>6, <1>7, <1>8, <1>9, <1>10, <1>11

LEMMA SignedOutS == ASSUME IInv, SInv, NEW t \in Tabs, SignedOut(t) PROVE SInv'
<1> USE DEF IInv, SInv
<1>1. UNCHANGED <<rows, chain, flight, entry, losses, crossed>> /\ store' = 0 /\ InLeave(t)
  BY DEF SignedOut, Store, InLeave
<1>2. leave'[t].stage = "none" /\ \A u \in Tabs : u # t => leave'[u] = leave[u]
  BY DEF SignedOut, NoLeave, Typed
<1>3. ~crossed => \A u \in Tabs : (u # t => ~InLeave(u)) /\ ~InFlight(u)
  BY <1>1, Alone
<1>4. Solo' /\ SentIsStored' /\ Chains'
  BY <1>1, <1>2, <1>3 DEF Solo, SentIsStored, Chains, InFlight, InEntry, InLeave
<1>5. LastOfChain' /\ OneLiveToken' /\ UsableOnTheirWay'
  BY <1>1 DEF LastOfChain, OneLiveToken, UsableOnTheirWay
<1>6. StoredIsUsable'  BY <1>1 DEF StoredIsUsable
<1> QED  BY <1>4, <1>5, <1>6

LEMMA RowAgesS == ASSUME IInv, SInv, RowAges PROVE SInv'
<1> USE DEF IInv, SInv
<1>1. UNCHANGED <<chain, store, flight, entry, leave, losses, crossed>>  BY DEF RowAges
<1>2. \A k \in Pairs : /\ rows'[k] = "unused" <=> rows[k] = "unused"
                       /\ rows'[k] = "live" => rows[k] = "live"
                       /\ rows[k] \in Usable => rows'[k] \in Usable
  BY DEF RowAges, Typed, Usable
<1>3. \A u \in Tabs : /\ flight[u].got \in Pairs \cup {0} /\ entry[u].got \in Pairs \cup {0}
                      /\ InFlight(u) => flight[u].sent \in Pairs
  BY DEF Typed, Flights, Entries, Asking, InFlight
<1>4. Solo' /\ SentIsStored'  BY <1>1 DEF Solo, SentIsStored, InFlight, InEntry, InLeave
<1>5. Chains'  BY <1>1, <1>2, <1>3 DEF Chains, InFlight
<1>6. LastOfChain' /\ OneLiveToken'  BY <1>1, <1>2 DEF LastOfChain, OneLiveToken
<1>7. UsableOnTheirWay'  BY <1>1, <1>2, <1>3 DEF UsableOnTheirWay, InFlight
<1>8. StoredIsUsable'  BY <1>1, <1>2 DEF StoredIsUsable, Usable, Typed
<1> QED  BY <1>4, <1>5, <1>6, <1>7, <1>8

LEMMA NextSInv == ASSUME IInv, SInv, [Next]_vars PROVE SInv'
<1>1. Doors \subseteq Tabs  BY SessionAssumption
<1>2. ASSUME NEW t \in Tabs, Call(t) PROVE SInv'
  <2>1. UNCHANGED <<rows, chain, store, flight, entry, leave, losses, crossed>>  BY <1>2 DEF Call
  <2> QED  BY <2>1, SameSInv
<1>3. CASE AccessAges \/ UNCHANGED vars
  <2>1. UNCHANGED <<rows, chain, store, flight, entry, leave, losses, crossed>>
    BY <1>3 DEF AccessAges, vars
  <2> QED  BY <2>1, SameSInv
<1> QED
  BY <1>1, <1>2, <1>3, RotateReadS, RotateCommitS, FailureS, RefreshArrivesS, CallAnsweredS, EnterS,
     CreateSessionS, AdoptSessionS, SignOutS, RevokeS, SignedOutS, RowAgesS DEF Next

LEMMA SInvariant == Spec => []SInv
BY InitSInv, NextSInv, IInvariant, PTL DEF Spec

(* However many answers are lost and rows expire, a sign-in has one usable  *)
(* refresh token, as long as its exchanges do not overlap.                  *)
THEOREM OneTokenPerSignIn == Spec => []OneLiveToken
<1>1. SInv => OneLiveToken  BY DEF SInv
<1> QED  BY <1>1, SInvariant, PTL

(* A browser whose exchanges neither overlap nor get lost is never taken    *)
(* for a thief.                                                             *)
THEOREM StoredAlwaysUsable == Spec => []StoredIsUsable
<1>1. SInv => StoredIsUsable  BY DEF SInv
<1> QED  BY <1>1, SInvariant, PTL
=============================================================================
