------------------------------- MODULE Socket -------------------------------
(***************************************************************************)
(* AddaSocket (web/src/lib/api/ws.ts) of one tab, over the session of its  *)
(* browser (Tokens): the WebSockets it opens and their callbacks, the reconnect     *)
(* timer, the callers whose connect() awaits a token refresh, and the      *)
(* hooks of the page that connect and subscribe (lib/data.ts,              *)
(* use-community-chat.ts, use-notifications.ts).                           *)
(***************************************************************************)
EXTENDS Tokens, Integers, FiniteSets

CONSTANTS
  Hooks,       \* hooks of the web app that use the socket
  Slots,       \* WebSocket objects, 1..n; a closed one is used again
  MaxDrops     \* bound: connections the network drops

ASSUME SocketAssumption ==
  Hooks \subseteq {"bell", "grid", "stream", "chat"} /\ IsFiniteSet(Slots) /\ Slots \subseteq Nat \ {0} /\ MaxDrops \in Nat

VARIABLES
  sock,        \* the WebSocket objects
  cur,         \* this.ws; 0 for null
  openedWith,  \* the pair whose access token this.ws was opened with
  connected,   \* what the status handlers were last told
  timer,       \* reconnectTimer is set
  waiters,     \* connect() calls that await refreshSession
  channels,    \* this.channels
  mounted,     \* the hooks of the page that is shown
  drops,       \* connections dropped so far
  mishaps      \* history: "crossed" once two sockets got in each other's way,
               \* "stranded" while nothing will bring this.ws back

socketVars == <<sock, cur, openedWith, connected, timer, waiters, channels, mounted, drops, mishaps>>

vars == <<tokenVars, socketVars>>

Free == [state |-> "closed", heard |-> FALSE, subs |-> {}]

(* The topics each hook subscribes to *)
Topics == [bell |-> {}, grid |-> {"status"}, stream |-> {"status"}, chat |-> {"chat"}]

Init ==
  /\ TokensInit
  /\ sock = [s \in Slots |-> Free]
  /\ cur = 0
  /\ openedWith = 0
  /\ connected = FALSE
  /\ timer = FALSE
  /\ waiters = 0
  /\ channels = {}
  /\ mounted = {}
  /\ drops = 0
  /\ mishaps = {}

-----------------------------------------------------------------------------
(* connect and open *)

Closed(S) == {s \in Slots : S[s].state = "closed"}

Live(S, s) == s # 0 /\ S[s].state \in {"connecting", "open"}

(* close() of a live socket.  One that has not opened yet will report an     *)
(* error before its close.                                                   *)
Shut(S, s) ==
  [S EXCEPT ![s].state = IF S[s].state = "connecting" THEN "aborting" ELSE "closing"]

(* F holds the k lowest free slots, or all of them when there are fewer. *)
Lowest(k, S, F) ==
  /\ \A f \in F, s \in Closed(S) \ F : f < s
  /\ Cardinality(F) = k \/ (F = Closed(S) /\ Cardinality(F) < k)

(* open(), k times in a row: each new WebSocket becomes this.ws, over the    *)
(* one before, which nobody closes.  The token in the URL is the stored one. *)
Open(k, S, c, token) ==
  \E F \in SUBSET Closed(S) : \E last \in F :
    /\ Lowest(k, S, F)
    /\ \A f \in F : f <= last
    /\ sock' = [s \in Slots |-> IF s \in F
                  THEN [state |-> "connecting", heard |-> TRUE, subs |-> {}] ELSE S[s]]
    /\ cur' = last
    /\ openedWith' = token
    /\ mishaps' = (mishaps \ {"stranded"}) \cup (IF k > 1 \/ Live(S, c) THEN {"crossed"} ELSE {})

(* this.ws is live and of the identity of the browser: connect() returns. *)
Kept == Live(sock, cur) /\ openedWith = store

(* Faulty variant: giving up a socket is not reported. *)
ReconnectQuiet ==
  LET S == IF Live(sock, cur) THEN [Shut(sock, cur) EXCEPT ![cur].heard = FALSE] ELSE sock
      c == IF Live(sock, cur) THEN 0 ELSE cur
  IN /\ connected' = connected
     /\ IF store # 0 /\ ageing
        THEN /\ sock' = S
             /\ cur' = c
             /\ waiters' = waiters + 1
             /\ busy' = TRUE
             /\ UNCHANGED <<openedWith, mishaps>>
        ELSE /\ Open(1, S, c, store)
             /\ UNCHANGED <<waiters, busy>>

(* connect() otherwise.  A live socket of another identity is given up, its  *)
(* onclose detached, its onerror not.  An ageing token is refreshed first, and the socket     *)
(* opens when that succeeds.                                                 *)
Reconnect ==
  LET S == IF Live(sock, cur) THEN [Shut(sock, cur) EXCEPT ![cur].heard = FALSE] ELSE sock
      c == IF Live(sock, cur) THEN 0 ELSE cur
  IN /\ connected' = (connected /\ ~Live(sock, cur))
     /\ IF store # 0 /\ ageing
        THEN /\ sock' = S
             /\ cur' = c
             /\ waiters' = waiters + 1
             /\ busy' = TRUE
             /\ UNCHANGED <<openedWith, mishaps>>
        ELSE /\ Open(1, S, c, store)
             /\ UNCHANGED <<waiters, busy>>

(* send: only an open this.ws carries anything. *)
Sent(T) ==
  sock' = IF cur # 0 /\ sock[cur].state = "open" THEN [sock EXCEPT ![cur].subs = T] ELSE sock

(* The home grid and the channel page are different routes, and the bell is  *)
(* there for an account only.                                                *)
Routed(h) ==
  /\ h = "grid" => mounted \cap {"stream", "chat"} = {}
  /\ h \in {"stream", "chat"} => "grid" \notin mounted
  /\ h = "bell" => store # 0

(* A hook of the page mounts: connect(), then subscribe, which is sent at    *)
(* once when the socket is open already.                                     *)
Mount(h) ==
  /\ h \notin mounted
  /\ Routed(h)
  /\ waiters < Cardinality(Closed(sock))
  /\ mounted' = mounted \cup {h}
  /\ channels' = channels \cup Topics[h]
  /\ \/ /\ Kept
        /\ Sent(channels')
        /\ UNCHANGED <<cur, openedWith, connected, waiters, mishaps, busy>>
     \/ ~Kept /\ Reconnect
  /\ UNCHANGED <<store, ageing, timer, drops>>

Unmount(h) ==
  /\ h \in mounted
  /\ mounted' = mounted \ {h}
  /\ channels' = channels \ Topics[h]
  /\ Sent(channels')
  /\ UNCHANGED <<tokenVars, cur, openedWith, connected, timer, waiters, drops, mishaps>>

-----------------------------------------------------------------------------
(* The callbacks of a WebSocket *)

(* Faulty variant: a socket that opens again does not subscribe. *)
OpensSilent(s) ==
  /\ sock[s].state = "connecting"
  /\ sock' = [sock EXCEPT ![s].state = "open"]
  /\ connected' = TRUE
  /\ UNCHANGED <<tokenVars, cur, openedWith, timer, waiters, channels, mounted, drops, mishaps>>

(* onopen: the channels are subscribed to, on this.ws, which may be another  *)
(* socket than the one that opened.                                          *)
Opens(s) ==
  /\ sock[s].state = "connecting"
  /\ LET S == [sock EXCEPT ![s].state = "open"]
     IN sock' = IF cur # 0 /\ S[cur].state = "open" THEN [S EXCEPT ![cur].subs = channels] ELSE S
  /\ connected' = TRUE
  /\ UNCHANGED <<tokenVars, cur, openedWith, timer, waiters, channels, mounted, drops, mishaps>>

(* Faulty variant: a connection that never opened is not tried again. *)
OnCloseOnce(s, S) ==
  /\ sock' = [S EXCEPT ![s] = Free]
  /\ connected' = (connected /\ ~S[s].heard)
  /\ timer' = (timer \/ (S[s].heard /\ connected))
  /\ mishaps' = IF S[s].heard /\ s # cur /\ cur # 0 /\ S[cur].state = "open"
                THEN mishaps \cup {"crossed"} ELSE mishaps

(* onclose of s, over the sockets S: whichever socket it is, the page is     *)
(* told that the connection is gone and a reconnect is scheduled.            *)
OnClose(s, S) ==
  /\ sock' = [S EXCEPT ![s] = Free]
  /\ connected' = (connected /\ ~S[s].heard)
  /\ timer' = (timer \/ S[s].heard)
  /\ mishaps' = IF S[s].heard /\ s # cur /\ cur # 0 /\ S[cur].state = "open"
                THEN mishaps \cup {"crossed"} ELSE mishaps

(* onerror of s closes this.ws, which may be another socket. *)
OnError(s) == IF s # cur /\ Live(sock, cur) THEN Shut(sock, cur) ELSE sock

(* A close this tab asked for completes. *)
Closes(s) ==
  /\ \/ sock[s].state = "closing" /\ OnClose(s, sock)
     \/ sock[s].state = "aborting" /\ OnClose(s, OnError(s))
  /\ UNCHANGED <<tokenVars, cur, openedWith, waiters, channels, mounted, drops>>

(* The gateway refuses a token that is no longer good: never a guest, nor    *)
(* the token that is stored and not ageing.                                  *)
Refused(s) ==
  /\ sock[s].state = "connecting"
  /\ ~(s = cur /\ (openedWith = 0 \/ (openedWith = store /\ ~ageing)))
  /\ OnClose(s, OnError(s))
  /\ UNCHANGED <<tokenVars, cur, openedWith, waiters, channels, mounted, drops>>

(* The network or the server ends a connection, with an error or without     *)
(* when it was open.                                                         *)
Drops(s) ==
  /\ Live(sock, s)
  /\ drops < MaxDrops
  /\ drops' = drops + 1
  /\ \/ OnClose(s, OnError(s))
     \/ sock[s].state = "open" /\ OnClose(s, sock)
  /\ UNCHANGED <<tokenVars, cur, openedWith, waiters, channels, mounted>>

TimerFires ==
  /\ timer
  /\ waiters < Cardinality(Closed(sock))
  /\ timer' = FALSE
  /\ \/ Kept /\ UNCHANGED <<busy, sock, cur, openedWith, connected, waiters, mishaps>>
     \/ ~Kept /\ Reconnect
  /\ UNCHANGED <<store, ageing, channels, mounted, drops>>

-----------------------------------------------------------------------------
(* The ends of a refresh and of a sign-out in this tab *)

(* connect()'s callers open once each when the refresh succeeded; otherwise  *)
(* they do nothing, and nothing is scheduled.                                *)
Unrefreshed ==
  /\ mishaps' = IF waiters > 0 THEN mishaps \cup {"stranded"} ELSE mishaps
  /\ UNCHANGED <<sock, cur, openedWith>>

RefreshEnds ==
  /\ \/ \E n \in Pairs \ {store, openedWith} :
          /\ Refreshed(n)
          /\ IF waiters > 0 THEN Open(waiters, sock, cur, n)
             ELSE UNCHANGED <<sock, cur, openedWith, mishaps>>
     \/ RefreshRefused /\ Unrefreshed
     \/ RefreshFailed /\ Unrefreshed
  /\ waiters' = 0
  /\ UNCHANGED <<connected, timer, channels, mounted, drops>>

(* useLogout settles: disconnect() drops this.ws, whose onclose will still   *)
(* come, and the timer; the bell goes with the account.                      *)
Disconnect ==
  /\ Cleared
  /\ openedWith' = 0
  /\ timer' = FALSE
  /\ cur' = 0
  /\ sock' = IF Live(sock, cur) THEN Shut(sock, cur) ELSE sock
  /\ mishaps' = IF timer THEN mishaps \cup {"stranded"} ELSE mishaps
  /\ mounted' = mounted \ {"bell"}
  /\ UNCHANGED <<busy, connected, waiters, channels, drops>>

(* A request of the tab refreshes, another tab signs in, refreshes or signs  *)
(* out, or the access token ages.                                            *)
TokenStep ==
  /\ \/ StartRefresh
     \/ \E n \in Pairs \ {store, openedWith} : Replaced(n) /\ UNCHANGED busy
     \/ Cleared /\ UNCHANGED busy
     \/ Age
  /\ UNCHANGED socketVars

-----------------------------------------------------------------------------
Next ==
  \/ \E h \in Hooks : Mount(h) \/ Unmount(h)
  \/ \E s \in Slots : Opens(s) \/ Closes(s) \/ Refused(s) \/ Drops(s)
  \/ TimerFires
  \/ RefreshEnds
  \/ Disconnect
  \/ TokenStep

Spec == Init /\ [][Next]_vars

(* An attempt that was given up is reported at once, before a timer of a     *)
(* second or more fires and before the user opens another page.              *)
Hasty ==
  /\ \E s \in Slots : sock[s].state = "aborting"
  /\ TimerFires \/ \E h \in Hooks : Mount(h)

(* Refreshes and close handshakes end, timers fire, and a connection opens   *)
(* or is refused.  Nobody has to sign in or navigate, and nothing has to age *)
(* or drop; but signing in and out, here or elsewhere, comes to an end, and  *)
(* so do steps that overtake the report of an attempt given up.              *)
Fairness ==
  /\ WF_vars(RefreshEnds)
  /\ \A s \in Slots : WF_vars(Opens(s) \/ Refused(s)) /\ WF_vars(Closes(s))
  /\ WF_vars(TimerFires)
  /\ <>[][~(Disconnect \/ TokenStep \/ Hasty)]_vars

FairSpec == Spec /\ Fairness

-----------------------------------------------------------------------------
TypeOK ==
  /\ store \in Pairs \cup {0}
  /\ ageing \in BOOLEAN /\ busy \in BOOLEAN
  /\ sock \in [Slots -> [state : {"connecting", "open", "closing", "aborting", "closed"},
                         heard : BOOLEAN, subs : SUBSET {"status", "chat"}]]
  /\ cur \in Slots \cup {0}
  /\ openedWith \in Pairs \cup {0}
  /\ connected \in BOOLEAN /\ timer \in BOOLEAN
  /\ waiters \in 0..Cardinality(Slots)
  /\ channels \subseteq {"status", "chat"}
  /\ mounted \subseteq Hooks
  /\ drops \in 0..MaxDrops
  /\ mishaps \subseteq {"crossed", "stranded"}

(* While this.ws is open the server sends it the topics of exactly the hooks *)
(* that are mounted, whatever was reopened, refreshed, abandoned or          *)
(* overwritten before, and in whatever order the sockets opened.             *)
HearsThePage ==
  cur # 0 /\ sock[cur].state = "open" => sock[cur].subs = UNION {Topics[h] : h \in mounted}

(* The page is told the truth about its connection: it is shown as           *)
(* connected while this.ws is open, or while the close of a socket is still  *)
(* to be reported.  Two opens over one another, and the close of an older    *)
(* socket that comes late, are the ways this is lost.                        *)
ConnectedIsTrue ==
  "crossed" \notin mishaps =>
    /\ cur # 0 /\ sock[cur].state = "open" => connected
    /\ connected => \/ cur # 0 /\ sock[cur].state = "open"
                    \/ \E s \in Slots : sock[s].state = "closing" /\ sock[s].heard

(* A page that listens gets its connection back, whatever an older socket    *)
(* closed behind the back of a newer one, unless connect() gave up on a      *)
(* refresh or a sign-out cleared the timer, and nothing reopened since.      *)
Reconnects ==
  mounted # {} ~> \/ cur # 0 /\ sock[cur].state = "open"
                  \/ mounted = {} \/ "stranded" \in mishaps
=============================================================================
