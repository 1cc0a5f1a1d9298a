------------------------------ MODULE Session -------------------------------
(***************************************************************************)
(* The session of one account in one browser: the token pair in            *)
(* localStorage, shared by the tabs, the refresh call each tab makes at    *)
(* most once at a time (web/src/lib/api/client.ts), sign-in and sign-out   *)
(* (web/src/lib/session.ts, the login, register and account-menu           *)
(* components), and the refresh tokens the server keeps                    *)
(* (auth/service/refresh_tokens.py).                                       *)
(*                                                                         *)
(* A pair is the number of its refresh-token row; the access token of the  *)
(* pair ages on its own.  No pair is 0.                                    *)
(***************************************************************************)
EXTENDS Integers, FiniteSets

CONSTANTS
  Tabs,        \* browser tabs of one origin
  Here,        \* one of them
  Doors,       \* the tabs in which the account signs in and out
  MaxRows,     \* bound: refresh tokens ever issued
  MaxLosses    \* bound: requests or answers the network loses

ASSUME SessionAssumption == Here \in Tabs /\ Doors \subseteq Tabs /\ MaxRows \in Nat \ {0} /\ MaxLosses \in Nat

VARIABLES
  rows,      \* refresh_tokens: what the server knows of each pair
  chain,     \* the sign-in a pair descends from, by its first pair (history)
  age,       \* the access token of each pair
  store,     \* localStorage: the pair of the browser
  flight,    \* refreshPromise of each tab
  call,      \* a request<T>() of each tab, of the kind `me` makes
  entry,     \* a sign-in or registration in progress in each tab
  leave,     \* a sign-out in progress in each tab
  losses,    \* how many messages were lost
  crossed    \* two of these exchanges overlapped (history)

vars == <<rows, chain, age, store, flight, call, entry, leave, losses, crossed>>

Pairs == 1..MaxRows

NoFlight == [stage |-> "none", sent |-> 0, got |-> 0]

NoCall == [stage |-> "none", token |-> 0, again |-> FALSE]

NoEntry == [stage |-> "none", got |-> 0]

NoLeave == [stage |-> "none", sent |-> 0]

Init ==
  /\ rows = [n \in Pairs |-> "unused"]
  /\ chain = [n \in Pairs |-> 0]
  /\ age = [n \in Pairs |-> "fresh"]
  /\ store = 0
  /\ flight = [t \in Tabs |-> NoFlight]
  /\ call = [t \in Tabs |-> NoCall]
  /\ entry = [t \in Tabs |-> NoEntry]
  /\ leave = [t \in Tabs |-> NoLeave]
  /\ losses = 0
  /\ crossed = FALSE

Flying == {t \in Tabs : flight[t].stage # "none"}

Entering == {t \in Tabs : entry[t].stage # "none"}

Leaving == {t \in Tabs : leave[t].stage # "none"}

(* isTokenExpired: no token, or one that has expired.  (The 30 seconds by    *)
(* which the client is early are part of expiry here.)                       *)
Ageing(n) == n = 0 \/ age[n] = "expired"

(* setSession and clearSession: both tokens of a pair, or none *)
Store(n) == store' = n

(* A history step: the exchange that starts now overlaps another one. *)
Crosses(T) == crossed' = (crossed \/ T # {})

-----------------------------------------------------------------------------
(* refresh_tokens.py *)

Fresh(n) ==
  /\ n \in Pairs
  /\ rows[n] = "unused"
  /\ \A k \in Pairs : k < n => rows[k] # "unused"

(* Presenting a revoked token: every live token of the account is revoked. *)
AllRevoked == [n \in Pairs |-> IF rows[n] \in {"live", "aged"} THEN "revoked" ELSE rows[n]]

(* Expired rows are deleted whenever a token is rotated. *)
Purged(R) == [n \in Pairs |-> IF R[n] = "aged" THEN "gone" ELSE R[n]]

Answered(t, n) == flight' = [flight EXCEPT ![t].stage = "answered", ![t].got = n]

(* rotate_refresh_token up to its commit: the row is read, and refused when  *)
(* it is unknown, revoked or expired.                                        *)
RotateRead(t) ==
  /\ flight[t].stage = "asked"
  /\ LET n == flight[t].sent IN
       \/ /\ rows[n] = "live"
          /\ flight' = [flight EXCEPT ![t].stage = "read"]
          /\ UNCHANGED rows
       \/ /\ rows[n] = "revoked"
          /\ rows' = AllRevoked
          /\ Answered(t, 0)
       \/ /\ rows[n] = "aged"
          /\ rows' = [rows EXCEPT ![n] = "revoked"]
          /\ Answered(t, 0)
       \/ /\ rows[n] = "gone"
          /\ Answered(t, 0)
          /\ UNCHANGED rows
  /\ UNCHANGED <<chain, age, store, call, entry, leave, losses, crossed>>

(* Faulty variant: the presented token stays usable. *)
RotateCommitKeeps(t) ==
  /\ flight[t].stage = "read"
  /\ \E n \in Pairs :
       /\ Fresh(n)
       /\ rows' = Purged([rows EXCEPT ![n] = "live"])
       /\ chain' = [chain EXCEPT ![n] = chain[flight[t].sent]]
       /\ Answered(t, n)
  /\ UNCHANGED <<age, store, call, entry, leave, losses, crossed>>

(* The commit of a rotation writes what was decided at the read: a          *)
(* revocation that came in between does not stop the new token.              *)
RotateCommit(t) ==
  /\ flight[t].stage = "read"
  /\ \E n \in Pairs :
       /\ Fresh(n)
       /\ rows' = Purged([rows EXCEPT ![flight[t].sent] = "revoked", ![n] = "live"])
       /\ chain' = [chain EXCEPT ![n] = chain[flight[t].sent]]
       /\ Answered(t, n)
  /\ UNCHANGED <<age, store, call, entry, leave, losses, crossed>>

(* The server, or a proxy before it, answers with an error: for the client   *)
(* that is a refusal like any other.                                         *)
ServerFails(t) ==
  /\ flight[t].stage = "asked"
  /\ losses < MaxLosses
  /\ losses' = losses + 1
  /\ Answered(t, 0)
  /\ UNCHANGED <<rows, chain, age, store, call, entry, leave, crossed>>

-----------------------------------------------------------------------------
(* refreshSession *)

(* One request per tab: whoever asks while one is under way shares it. *)
Refreshing(t) ==
  IF flight[t].stage = "none"
  THEN /\ flight' = [flight EXCEPT ![t] = [stage |-> "asked", sent |-> store, got |-> 0]]
       /\ Crosses(Flying \cup Entering \cup Leaving)
  ELSE UNCHANGED <<flight, crossed>>

(* The callers that awaited the refresh: a request is sent again with the    *)
(* token found then, or ends with its 401.                                   *)
CallResumes(t, ok, token) ==
  call' = IF call[t].stage # "waiting" THEN call
          ELSE IF ok THEN [call EXCEPT ![t] = [stage |-> "sent", token |-> token, again |-> TRUE]]
          ELSE [call EXCEPT ![t] = NoCall]

(* Faulty variant: a refused refresh leaves the dead pair in place. *)
RefreshArrivesKeeping(t) ==
  /\ flight[t].stage = "answered"
  /\ Store(IF flight[t].got = 0 THEN store ELSE flight[t].got)
  /\ flight' = [flight EXCEPT ![t] = NoFlight]
  /\ CallResumes(t, flight[t].got # 0, store')
  /\ UNCHANGED <<rows, chain, age, entry, leave, losses, crossed>>

(* The answer: the new pair is stored, whatever the storage holds by then;   *)
(* a refusal clears whatever pair is there.                                  *)
RefreshArrives(t) ==
  /\ flight[t].stage = "answered"
  /\ Store(flight[t].got)
  /\ flight' = [flight EXCEPT ![t] = NoFlight]
  /\ CallResumes(t, flight[t].got # 0, store')
  /\ UNCHANGED <<rows, chain, age, entry, leave, losses, crossed>>

(* A network error, before the server saw the request or after it answered:  *)
(* the pair is kept, so that a later call can retry.  A rotation that would  *)
(* need one row more than MaxRows ends here too.                             *)
RefreshLost(t) ==
  /\ \/ /\ flight[t].stage \in {"asked", "answered"}
        /\ losses < MaxLosses
        /\ losses' = losses + 1
     \/ /\ flight[t].stage = "read"
        /\ ~\E n \in Pairs : Fresh(n)
        /\ UNCHANGED losses
  /\ flight' = [flight EXCEPT ![t] = NoFlight]
  /\ CallResumes(t, FALSE, store)
  /\ UNCHANGED <<rows, chain, age, store, entry, leave, crossed>>

-----------------------------------------------------------------------------
(* request, and the `me` query that uses it *)

(* useMe is enabled while there is a token. *)
Call(t) ==
  /\ call[t].stage = "none"
  /\ store # 0
  /\ call' = [call EXCEPT ![t] = [stage |-> "sent", token |-> store, again |-> FALSE]]
  /\ UNCHANGED <<rows, chain, age, store, flight, entry, leave, losses, crossed>>

(* Faulty variant: a 401 refreshes without a refresh token. *)
CallAnsweredBlind(t) ==
  /\ call[t].stage = "sent"
  /\ IF Ageing(call[t].token) /\ ~call[t].again
     THEN call' = [call EXCEPT ![t].stage = "waiting"] /\ Refreshing(t)
     ELSE call' = [call EXCEPT ![t] = NoCall] /\ UNCHANGED <<flight, crossed>>
  /\ UNCHANGED <<rows, chain, age, store, entry, leave, losses>>

(* A 401 with a refresh token in the storage refreshes once and asks again;  *)
(* any other answer, and the second one, is the result.                      *)
CallAnswered(t) ==
  /\ call[t].stage = "sent"
  /\ IF Ageing(call[t].token) /\ ~call[t].again /\ store # 0
     THEN call' = [call EXCEPT ![t].stage = "waiting"] /\ Refreshing(t)
     ELSE call' = [call EXCEPT ![t] = NoCall] /\ UNCHANGED <<flight, crossed>>
  /\ UNCHANGED <<rows, chain, age, store, entry, leave, losses>>

-----------------------------------------------------------------------------
(* Sign-in, registration and sign-out *)

(* The form is submitted: one at a time, its button is disabled meanwhile. *)
Enter(t) ==
  /\ entry[t].stage = "none"
  /\ entry' = [entry EXCEPT ![t].stage = "asked"]
  /\ Crosses(Flying \cup Entering \cup Leaving)
  /\ UNCHANGED <<rows, chain, age, store, flight, call, leave, losses>>

(* create_session: a new row, the first of its chain *)
CreateSession(t) ==
  /\ entry[t].stage = "asked"
  /\ \E n \in Pairs :
       /\ Fresh(n)
       /\ rows' = [rows EXCEPT ![n] = "live"]
       /\ chain' = [chain EXCEPT ![n] = n]
       /\ entry' = [entry EXCEPT ![t] = [stage |-> "answered", got |-> n]]
  /\ UNCHANGED <<age, store, flight, call, leave, losses, crossed>>

(* adoptSession stores the pair, over any other. *)
AdoptSession(t) ==
  /\ entry[t].stage = "answered"
  /\ Store(entry[t].got)
  /\ entry' = [entry EXCEPT ![t] = NoEntry]
  /\ UNCHANGED <<rows, chain, age, flight, call, leave, losses, crossed>>

(* A wrong password, a taken name or no network: the form shows the error.   *)
(* Without an answer the row stays behind.                                   *)
EnterFails(t) ==
  /\ \/ entry[t].stage = "asked" /\ UNCHANGED losses
     \/ entry[t].stage = "answered" /\ losses < MaxLosses /\ losses' = losses + 1
  /\ entry' = [entry EXCEPT ![t] = NoEntry]
  /\ UNCHANGED <<rows, chain, age, store, flight, call, leave, crossed>>

(* useLogout takes the refresh token there is; without one there is nothing  *)
(* to tell the server.                                                       *)
SignOut(t) ==
  /\ leave[t].stage = "none"
  /\ leave' = [leave EXCEPT ![t] = [stage |-> IF store = 0 THEN "told" ELSE "asked", sent |-> store]]
  /\ Crosses(Flying \cup Entering \cup Leaving)
  /\ UNCHANGED <<rows, chain, age, store, flight, call, entry, losses>>

(* revoke_refresh_token *)
Revoke(t) ==
  /\ leave[t].stage = "asked"
  /\ LET n == leave[t].sent
     IN rows' = IF rows[n] \in {"live", "aged"} THEN [rows EXCEPT ![n] = "revoked"] ELSE rows
  /\ leave' = [leave EXCEPT ![t].stage = "told"]
  /\ UNCHANGED <<chain, age, store, flight, call, entry, losses, crossed>>

(* Best effort: the server may never hear of it. *)
RevokeLost(t) ==
  /\ leave[t].stage = "asked"
  /\ losses < MaxLosses
  /\ losses' = losses + 1
  /\ leave' = [leave EXCEPT ![t].stage = "told"]
  /\ UNCHANGED <<rows, chain, age, store, flight, call, entry, crossed>>

(* The pair is cleared in any case. *)
SignedOut(t) ==
  /\ leave[t].stage = "told"
  /\ Store(0)
  /\ leave' = [leave EXCEPT ![t] = NoLeave]
  /\ UNCHANGED <<rows, chain, age, flight, call, entry, losses, crossed>>

-----------------------------------------------------------------------------
(* Time *)

(* The access token of the stored pair expires. *)
AccessAges ==
  /\ ~Ageing(store)
  /\ age' = [age EXCEPT ![store] = "expired"]
  /\ UNCHANGED <<rows, chain, store, flight, call, entry, leave, losses, crossed>>

(* Thirty days without a rotation *)
RowAges ==
  /\ \E n \in Pairs :
       /\ rows[n] = "live"
       /\ rows' = [rows EXCEPT ![n] = "aged"]
  /\ UNCHANGED <<chain, age, store, flight, call, entry, leave, losses, crossed>>

Next ==
  \/ \E t \in Tabs :
       \/ RotateRead(t)   \/ RotateCommit(t)   \/ ServerFails(t)
       \/ RefreshArrives(t) \/ RefreshLost(t)
       \/ Call(t)         \/ CallAnswered(t)
  \/ \E t \in Doors :
       \/ Enter(t)        \/ CreateSession(t)  \/ AdoptSession(t) \/ EnterFails(t)
       \/ SignOut(t)      \/ Revoke(t)         \/ RevokeLost(t)   \/ SignedOut(t)
  \/ AccessAges
  \/ RowAges

Spec == Init /\ [][Next]_vars

-----------------------------------------------------------------------------
TypeOK ==
  /\ rows \in [Pairs -> {"unused", "live", "aged", "revoked", "gone"}]
  /\ chain \in [Pairs -> Pairs \cup {0}]
  /\ age \in [Pairs -> {"fresh", "expired"}]
  /\ store \in Pairs \cup {0}
  /\ flight \in [Tabs -> [stage : {"none", "asked", "read", "answered"},
                          sent : Pairs \cup {0}, got : Pairs \cup {0}]]
  /\ call \in [Tabs -> [stage : {"none", "sent", "waiting"}, token : Pairs \cup {0}, again : BOOLEAN]]
  /\ entry \in [Tabs -> [stage : {"none", "asked", "answered"}, got : Pairs \cup {0}]]
  /\ leave \in [Tabs -> [stage : {"none", "asked", "told"}, sent : Pairs \cup {0}]]
  /\ losses \in 0..MaxLosses
  /\ crossed \in BOOLEAN

(* However many answers are lost, a sign-in never has two usable refresh     *)
(* tokens, as long as its refreshes and sign-outs do not overlap: the one    *)
(* that was rotated is revoked before its successor exists.                  *)
OneLiveToken ==
  ~crossed =>
    \A m, n \in Pairs :
      rows[m] = "live" /\ rows[n] = "live" /\ chain[m] = chain[n] => m = n

(* A browser whose exchanges neither overlap nor get lost is never taken     *)
(* for a thief: the pair it stores is usable, or being rotated or signed     *)
(* out, until thirty days pass.                                              *)
StoredIsUsable ==
  ~crossed /\ losses = 0 /\ store # 0 =>
    \/ rows[store] \in {"live", "aged"}
    \/ \E t \in Tabs : flight[t].stage = "answered" /\ flight[t].sent = store
    \/ \E t \in Tabs : leave[t].stage = "told" /\ leave[t].sent = store

(* To each tab the session is the interface its socket relies on. *)
Interface ==
  INSTANCE Tokens WITH ageing <- Ageing(store), busy <- flight[Here].stage # "none"

InterfaceKept == Interface!TokensSpec
=============================================================================
