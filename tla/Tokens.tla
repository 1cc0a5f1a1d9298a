------------------------------- MODULE Tokens -------------------------------
(***************************************************************************)
(* What the session of a browser promises one of its tabs: a stored token  *)
(* pair that others may replace or clear at any time, and one refresh at a *)
(* time, which ends with a new pair, with no pair, or with the pair kept.  *)
(* Session implements this; Socket relies on it.                           *)
(***************************************************************************)
CONSTANT Pairs       \* token pairs, by number; 0 is none

ASSUME PairsAssumption == 0 \notin Pairs

VARIABLES
  store,     \* the pair in localStorage
  ageing,    \* its access token is within 30 seconds of its end, or past it
  busy       \* this tab awaits a refresh

tokenVars == <<store, ageing, busy>>

TokensInit == store = 0 /\ ageing = TRUE /\ busy = FALSE

(* refreshSession: shared by the callers of the tab, and nothing to do       *)
(* without a refresh token                                                   *)
StartRefresh ==
  /\ ~busy
  /\ store # 0
  /\ busy' = TRUE
  /\ UNCHANGED <<store, ageing>>

(* A new pair is stored: sign-in, or a refresh of another tab. *)
Replaced(n) ==
  /\ n \in Pairs
  /\ store' = n
  /\ ageing' = FALSE

(* Signed out, or a refused refresh, here or in another tab *)
Cleared == store' = 0 /\ ageing' = TRUE

Refreshed(n) == busy /\ busy' = FALSE /\ Replaced(n)

RefreshRefused == busy /\ busy' = FALSE /\ Cleared

RefreshFailed == busy /\ busy' = FALSE /\ UNCHANGED <<store, ageing>>

Age ==
  /\ ~ageing
  /\ ageing' = TRUE
  /\ UNCHANGED <<store, busy>>

TokensNext ==
  \/ StartRefresh
  \/ \E n \in Pairs : Refreshed(n)
  \/ RefreshRefused
  \/ RefreshFailed
  \/ \E n \in Pairs : Replaced(n) /\ UNCHANGED busy
  \/ Cleared /\ UNCHANGED busy
  \/ Age

TokensSpec == TokensInit /\ [][TokensNext]_tokenVars
=============================================================================
