----------------------------- MODULE Socket_proofs -----------------------------
(***************************************************************************)
(* Proofs about Socket, for any number of WebSocket objects and of drops,  *)
(* and any set of hooks.  Two things are shown: an open this.ws carries    *)
(* the topics of the page, because channels are always the topics of the   *)
(* mounted hooks; and the page is told the truth about its connection,     *)
(* because until two sockets cross none but this.ws is alive.               *)
(***************************************************************************)
EXTENDS Socket, TLAPS, FiniteSetTheorems

Socks == [state : {"connecting", "open", "closing", "aborting", "closed"},
          heard : BOOLEAN, subs : SUBSET {"status", "chat"}]

\* The home grid and the channel page are never shown together.
RoutesApart == "grid" \in mounted => mounted \cap {"stream", "chat"} = {}

Wanted(M) == UNION {Topics[h] : h \in M}

\* this.channels are the topics of the page.
ChannelsWanted == channels = Wanted(mounted)

IsOpen(S, s) == s # 0 /\ S[s].state = "open"

Carries == IsOpen(sock, cur) => sock[cur].subs = channels

LiveHeard == \A s \in Slots : Live(sock, s) => sock[s].heard

\* Nothing is alive but this.ws.
OneLive == "crossed" \notin mishaps => \A s \in Slots : Live(sock, s) => s = cur

Inv == TypeOK /\ RoutesApart /\ ChannelsWanted /\ Carries /\ LiveHeard /\ OneLive /\ ConnectedIsTrue

-----------------------------------------------------------------------------
LEMMA SlotFacts ==
  /\ 0 \notin Slots /\ IsFiniteSet(Slots)
  /\ Hooks \subseteq {"bell", "grid", "stream", "chat"}
  BY SocketAssumption

LEMMA TopicFacts ==
  /\ Topics["bell"] = {} /\ Topics["grid"] = {"status"}
  /\ Topics["stream"] = {"status"} /\ Topics["chat"] = {"chat"}
  BY DEF Topics

LEMMA InWanted ==
  ASSUME NEW M, NEW t
  PROVE  t \in Wanted(M) <=> \E h \in M : t \in Topics[h]
  BY DEF Wanted

(* Mounting a hook adds its topics. *)
LEMMA WantedMore ==
  ASSUME NEW M, NEW h
  PROVE  Wanted(M \cup {h}) = Wanted(M) \cup Topics[h]
  <1>1. \A t : t \in Wanted(M \cup {h}) <=> t \in Wanted(M) \cup Topics[h]
    BY InWanted
  <1> QED
    BY <1>1

(* Unmounting one takes them away: no other hook of the page has them. *)
LEMMA WantedLess ==
  ASSUME NEW M \in SUBSET Hooks, "grid" \in M => M \cap {"stream", "chat"} = {}, NEW h \in M
  PROVE  Wanted(M \ {h}) = Wanted(M) \ Topics[h]
  <1>1. \A g \in M : \A t : g # h /\ t \in Topics[g] => t \notin Topics[h]
    BY SlotFacts, TopicFacts
  <1>2. \A t : t \in Wanted(M \ {h}) <=> t \in Wanted(M) /\ t \notin Topics[h]
    BY <1>1, InWanted
  <1> QED
    BY <1>2

LEMMA WantedType == \A M \in SUBSET Hooks : Wanted(M) \subseteq {"status", "chat"}
  BY SlotFacts, TopicFacts, InWanted

LEMMA FreeType == Free \in Socks /\ Free.state = "closed" /\ Free.heard = FALSE
  BY DEF Free, Socks

LEMMA NewType ==
  LET new == [state |-> "connecting", heard |-> TRUE, subs |-> {}]
  IN new \in Socks /\ new.state = "connecting" /\ new.heard = TRUE
  BY DEF Socks

LEMMA SockType ==
  ASSUME NEW q \in Socks
  PROVE  /\ q.heard \in BOOLEAN
         /\ \A st \in {"connecting", "open", "closing", "aborting", "closed"} :
              /\ [q EXCEPT !.state = st] \in Socks
              /\ [q EXCEPT !.state = st].state = st
              /\ [q EXCEPT !.state = st].heard = q.heard
              /\ [q EXCEPT !.state = st].subs = q.subs
  BY DEF Socks

LEMMA SubsType ==
  ASSUME NEW q \in Socks, NEW T \in SUBSET {"status", "chat"}
  PROVE  /\ [q EXCEPT !.subs = T] \in Socks
         /\ [q EXCEPT !.subs = T].state = q.state
         /\ [q EXCEPT !.subs = T].heard = q.heard
         /\ [q EXCEPT !.subs = T].subs = T
  BY DEF Socks

(* close() of a socket leaves its handlers as they are. *)
LEMMA ShutOne ==
  ASSUME NEW S \in [Slots -> Socks], NEW s \in Slots, Live(S, s)
  PROVE  /\ Shut(S, s) \in [Slots -> Socks] /\ Shut(S, s)[s].heard = S[s].heard
         /\ Shut(S, s)[s].state = IF S[s].state = "open" THEN "closing" ELSE "aborting"
         /\ \A r \in Slots : r # s => Shut(S, s)[r] = S[r]
  <1> DEFINE st == IF S[s].state = "connecting" THEN "aborting" ELSE "closing"
  <1>1. Shut(S, s) = [S EXCEPT ![s] = [S[s] EXCEPT !.state = st]]
    BY DEF Shut
  <1>2. st = (IF S[s].state = "open" THEN "closing" ELSE "aborting") /\ st \in {"aborting", "closing"}
    BY DEF Live
  <1> HIDE DEF st
  <1>3. /\ [S[s] EXCEPT !.state = st] \in Socks
        /\ [S[s] EXCEPT !.state = st].state = st
        /\ [S[s] EXCEPT !.state = st].heard = S[s].heard
    <2>1. S[s] \in Socks /\ st \in {"connecting", "open", "closing", "aborting", "closed"}
      BY <1>2
    <2> QED
      BY <2>1, SockType
  <1> QED
    BY <1>1, <1>2, <1>3

(* Taking the handlers off one socket changes nothing else of it. *)
LEMMA MuteOne ==
  ASSUME NEW S \in [Slots -> Socks], NEW s \in Slots
  PROVE  /\ [S EXCEPT ![s].heard = FALSE] \in [Slots -> Socks]
         /\ [S EXCEPT ![s].heard = FALSE][s].state = S[s].state
         /\ \A r \in Slots : r # s => [S EXCEPT ![s].heard = FALSE][r] = S[r]
  <1> DEFINE q == [S[s] EXCEPT !.heard = FALSE]
  <1>1. [S EXCEPT ![s].heard = FALSE] = [S EXCEPT ![s] = q]
    OBVIOUS
  <1>2. q \in Socks /\ q.state = S[s].state
    <2>1. S[s] \in Socks
      OBVIOUS
    <2> QED
      BY <2>1 DEF Socks
  <1> HIDE DEF q
  <1> QED
    BY <1>1, <1>2

LEMMA InvInit == Init => Inv
  <1> SUFFICES ASSUME Init PROVE Inv
    OBVIOUS
  <1>1. 0 \in 0..Cardinality(Slots) /\ 0 \in 0..MaxDrops
    BY SocketAssumption, FS_CardinalityType
  <1>2. sock \in [Slots -> Socks]
    BY FreeType DEF Init
  <1>3. TypeOK
    BY <1>1, <1>2 DEF Init, TokensInit, TypeOK, Socks
  <1>4. ChannelsWanted
    BY DEF Init, ChannelsWanted, Wanted
  <1> QED
    BY <1>3, <1>4, FreeType DEF Init, Inv, RoutesApart, Carries, IsOpen, LiveHeard, OneLive, Live, ConnectedIsTrue

-----------------------------------------------------------------------------
(* What open() does, k times in a row: only closed sockets are used, and   *)
(* without a mishap it was one, over a this.ws that was not alive.         *)
LEMMA Opening ==
  ASSUME NEW k \in Nat, NEW S \in [Slots -> Socks], NEW c, NEW token, Open(k, S, c, token)
  PROVE  /\ sock' \in [Slots -> Socks] /\ cur' \in Slots /\ openedWith' = token
         /\ sock'[cur'].state = "connecting"
         /\ \A s \in Slots : \/ sock'[s] = S[s]
                             \/ S[s].state = "closed" /\ sock'[s].state = "connecting" /\ sock'[s].heard
         /\ mishaps' \subseteq mishaps \cup {"crossed"}
         /\ "crossed" \notin mishaps' => /\ "crossed" \notin mishaps /\ ~Live(S, c)
                                /\ \A s \in Slots : s # cur' => sock'[s] = S[s]
  <1> DEFINE new == [state |-> "connecting", heard |-> TRUE, subs |-> {}]
  <1>1. PICK F \in SUBSET Closed(S), last \in Slots :
          /\ last \in F /\ Lowest(k, S, F)
          /\ sock' = [s \in Slots |-> IF s \in F THEN new ELSE S[s]]
          /\ cur' = last /\ openedWith' = token
          /\ mishaps' = (mishaps \ {"stranded"}) \cup (IF k > 1 \/ Live(S, c) THEN {"crossed"} ELSE {})
    BY DEF Open, Closed
  <1>2. F \subseteq Slots /\ IsFiniteSet(F) /\ \A s \in F : S[s].state = "closed"
    BY SlotFacts, FS_Subset DEF Closed
  <1>3. ASSUME "crossed" \notin mishaps'
        PROVE  "crossed" \notin mishaps /\ ~Live(S, c) /\ F = {last}
    <2>1. "crossed" \notin mishaps /\ ~Live(S, c) /\ k <= 1
      BY <1>1, <1>3
    <2>2. Cardinality(F) \in Nat /\ Cardinality(F) <= 1
      BY <1>1, <1>2, <2>1, FS_CardinalityType DEF Lowest
    <2>3. Cardinality(F) = 1
      BY <1>1, <1>2, <2>2, FS_EmptySet
    <2>4. \E x : F = {x}
      BY <1>2, <2>3, FS_Singleton
    <2> QED
      BY <1>1, <2>1, <2>4
  <1>4. sock' \in [Slots -> Socks]
    BY <1>1, NewType
  <1>5. mishaps' \subseteq mishaps \cup {"crossed"}
    BY <1>1
  <1> QED
    BY <1>1, <1>2, <1>3, <1>4, <1>5, NewType

(* What is left when connect() goes on, whichever way: this.ws is not open *)
(* (it is new, or was given up), and the page has been told so.            *)
LEMMA Reconnecting ==
  ASSUME Inv, Reconnect, waiters < Cardinality(Closed(sock))
  PROVE  /\ sock' \in [Slots -> Socks] /\ cur' \in Slots \cup {0}
         /\ openedWith' \in Pairs \cup {0} /\ connected' \in BOOLEAN /\ busy' \in BOOLEAN
         /\ waiters' \in 0..Cardinality(Slots) /\ mishaps' \subseteq mishaps \cup {"crossed"}
         /\ ~IsOpen(sock', cur')
         /\ LiveHeard' /\ OneLive' /\ ConnectedIsTrue'
  <1> USE SlotFacts
  <1>0. sock \in [Slots -> Socks] /\ cur \in Slots \cup {0} /\ connected \in BOOLEAN
    BY DEF Inv, TypeOK, Socks
  <1> DEFINE S == IF Live(sock, cur) THEN [Shut(sock, cur) EXCEPT ![cur].heard = FALSE] ELSE sock
             c == IF Live(sock, cur) THEN 0 ELSE cur
  <1>1. /\ S \in [Slots -> Socks]
        /\ \A s \in Slots : ~(Live(sock, cur) /\ s = cur) => S[s] = sock[s]
        /\ Live(sock, cur) => S[cur].state \in {"closing", "aborting"}
    <2>1. CASE Live(sock, cur)
      <3>1. cur \in Slots
        BY <1>0, <2>1 DEF Live
      <3>2. /\ Shut(sock, cur) \in [Slots -> Socks]
            /\ Shut(sock, cur)[cur].state \in {"closing", "aborting"}
            /\ \A r \in Slots : r # cur => Shut(sock, cur)[r] = sock[r]
        BY <1>0, <2>1, <3>1, ShutOne
      <3> DEFINE M == Shut(sock, cur)
      <3>3. S = [M EXCEPT ![cur].heard = FALSE]
        BY <2>1
      <3>4. M \in [Slots -> Socks]
        BY <3>2
      <3>5. /\ [M EXCEPT ![cur].heard = FALSE] \in [Slots -> Socks]
            /\ [M EXCEPT ![cur].heard = FALSE][cur].state = M[cur].state
            /\ \A r \in Slots : r # cur => [M EXCEPT ![cur].heard = FALSE][r] = M[r]
        <4> HIDE DEF M
        <4> QED
          BY <3>1, <3>4, MuteOne
      <3>6. M[cur].state \in {"closing", "aborting"} /\ \A r \in Slots : r # cur => M[r] = sock[r]
        BY <3>2
      <3> HIDE DEF S, M
      <3> QED
        BY <2>1, <3>3, <3>5, <3>6
    <2>2. CASE ~Live(sock, cur)
      BY <1>0, <2>2
    <2> QED
      BY <2>1, <2>2
  <1>2. \A s \in Slots : ~(Live(sock, cur) /\ s = cur) => S[s] = sock[s]
    BY <1>1
  <1>3. Live(sock, cur) => S[cur].state \in {"closing", "aborting"}
    BY <1>1
  <1>4. c \in Slots \cup {0} /\ ~Live(S, c)
    BY <1>0, <1>2 DEF Live
  <1>5. \A s \in Slots : Live(S, s) => S[s] = sock[s] /\ Live(sock, s)
    BY <1>2, <1>3 DEF Live
  <1>6. "crossed" \notin mishaps => \A s \in Slots : ~Live(S, s)
    BY <1>2, <1>3 DEF Inv, OneLive, Live
  <1>7. connected' = (connected /\ ~Live(sock, cur))
    BY DEF Reconnect
  <1>8. ASSUME "crossed" \notin mishaps, connected'
        PROVE  \E w \in Slots : S[w].state = "closing" /\ S[w].heard
    <2>1. ~Live(sock, cur)
      BY <1>7, <1>8
    <2>2. PICK w \in Slots : sock[w].state = "closing" /\ sock[w].heard
      BY <1>7, <1>8, <2>1 DEF Inv, ConnectedIsTrue, Live
    <2> QED
      BY <2>1, <2>2
  <1>9. \/ /\ sock' = S /\ cur' = c /\ waiters' = waiters + 1 /\ busy' = TRUE
           /\ UNCHANGED <<openedWith, mishaps>>
        \/ Open(1, S, c, store) /\ UNCHANGED <<waiters, busy>>
    BY DEF Reconnect
  <1> HIDE DEF S, c
  <1>10. waiters' \in 0..Cardinality(Slots)
    <2>1. Closed(sock) \subseteq Slots
      BY DEF Closed
    <2>2. Cardinality(Closed(sock)) <= Cardinality(Slots) /\ Cardinality(Slots) \in Nat
          /\ Cardinality(Closed(sock)) \in Nat
      BY <2>1, FS_Subset, FS_CardinalityType
    <2>3. waiters \in 0..Cardinality(Slots)
      BY DEF Inv, TypeOK
    <2>4. waiters' \in {waiters, waiters + 1}
      BY <1>9
    <2> QED
      BY <2>2, <2>3, <2>4
  <1>11. CASE sock' = S /\ cur' = c /\ busy' = TRUE /\ UNCHANGED <<openedWith, mishaps>>
    <2>1. \A s \in Slots : Live(sock', s) => Live(sock, s) /\ sock'[s] = sock[s]
      BY <1>5, <1>11
    <2>2. ~IsOpen(sock', cur')
      BY <1>4, <1>11 DEF IsOpen, Live
    <2>3. LiveHeard' /\ OneLive'
      BY <1>6, <1>11, <2>1 DEF Inv, LiveHeard, OneLive
    <2>4. ConnectedIsTrue'
      BY <1>8, <1>11, <2>2 DEF ConnectedIsTrue, IsOpen
    <2>5. openedWith' \in Pairs \cup {0} /\ connected' \in BOOLEAN
      BY <1>0, <1>7, <1>11 DEF Inv, TypeOK
    <2> QED
      BY <1>1, <1>4, <1>10, <1>11, <2>2, <2>3, <2>4, <2>5
  <1>12. CASE Open(1, S, c, store) /\ UNCHANGED <<waiters, busy>>
    <2>1. /\ sock' \in [Slots -> Socks] /\ cur' \in Slots /\ openedWith' = store
          /\ sock'[cur'].state = "connecting"
          /\ \A s \in Slots : \/ sock'[s] = S[s]
                              \/ S[s].state = "closed" /\ sock'[s].state = "connecting" /\ sock'[s].heard
          /\ mishaps' \subseteq mishaps \cup {"crossed"}
          /\ "crossed" \notin mishaps' => /\ "crossed" \notin mishaps
                                 /\ \A s \in Slots : s # cur' => sock'[s] = S[s]
      BY <1>1, <1>12, Opening
    <2>2. ~IsOpen(sock', cur')
      BY <2>1 DEF IsOpen
    <2>3. LiveHeard'
      BY <1>5, <2>1 DEF Inv, LiveHeard, Live
    <2>4. OneLive'
      BY <1>6, <2>1 DEF OneLive, Live
    <2>5. ConnectedIsTrue'
      <3> SUFFICES ASSUME "crossed" \notin mishaps', connected'
                   PROVE  \E w \in Slots : sock'[w].state = "closing" /\ sock'[w].heard
        BY <2>2 DEF ConnectedIsTrue, IsOpen
      <3>1. PICK w \in Slots : S[w].state = "closing" /\ S[w].heard
        BY <1>8, <2>1
      <3> QED
        BY <2>1, <3>1
    <2>6. openedWith' \in Pairs \cup {0} /\ connected' \in BOOLEAN /\ busy' \in BOOLEAN
      BY <1>0, <1>7, <1>12, <2>1 DEF Inv, TypeOK
    <2> QED
      BY <1>10, <2>1, <2>2, <2>3, <2>4, <2>5, <2>6
  <1> QED
    BY <1>9, <1>11, <1>12

-----------------------------------------------------------------------------
(* A subscription changes the topics of an open this.ws and nothing else.  *)
LEMMA Sending ==
  ASSUME Inv, NEW T \in SUBSET {"status", "chat"}, Sent(T)
  PROVE  /\ sock' \in [Slots -> Socks]
         /\ \A s \in Slots : sock'[s].state = sock[s].state /\ sock'[s].heard = sock[s].heard
         /\ IsOpen(sock, cur) => sock'[cur].subs = T
  <1>1. sock \in [Slots -> Socks] /\ cur \in Slots \cup {0}
    BY DEF Inv, TypeOK, Socks
  <1>2. CASE IsOpen(sock, cur)
    <2>1. sock' = [sock EXCEPT ![cur] = [sock[cur] EXCEPT !.subs = T]] /\ cur \in Slots
      BY <1>1, <1>2 DEF Sent, IsOpen
    <2>2. /\ [sock[cur] EXCEPT !.subs = T] \in Socks
          /\ [sock[cur] EXCEPT !.subs = T].state = sock[cur].state
          /\ [sock[cur] EXCEPT !.subs = T].heard = sock[cur].heard
          /\ [sock[cur] EXCEPT !.subs = T].subs = T
      BY <1>1, <2>1, SubsType
    <2> QED
      BY <1>1, <2>1, <2>2
  <1>3. CASE ~IsOpen(sock, cur)
    <2>1. sock' = sock
      BY <1>3 DEF Sent, IsOpen
    <2> QED
      BY <1>1, <1>3, <2>1
  <1> QED
    BY <1>2, <1>3

(* What is only about states and handlers survives such a step. *)
LEMMA SameStates ==
  ASSUME Inv, UNCHANGED <<cur, connected, mishaps>>,
         \A s \in Slots : sock'[s].state = sock[s].state /\ sock'[s].heard = sock[s].heard
  PROVE  LiveHeard' /\ OneLive' /\ ConnectedIsTrue' /\ (IsOpen(sock', cur') <=> IsOpen(sock, cur))
  <1>1. cur \in Slots \cup {0}
    BY DEF Inv, TypeOK
  <1>2. \A s \in Slots : Live(sock', s) <=> Live(sock, s)
    BY DEF Live
  <1>3. IsOpen(sock', cur') <=> IsOpen(sock, cur)
    BY <1>1 DEF IsOpen
  <1>4. ConnectedIsTrue'
    BY <1>1 DEF Inv, ConnectedIsTrue
  <1> QED
    BY <1>2, <1>3, <1>4 DEF Inv, LiveHeard, OneLive

LEMMA MountStep ==
  ASSUME Inv, NEW h \in Hooks, Mount(h)
  PROVE  Inv'
  <1>1. mounted' = mounted \cup {h} /\ mounted \subseteq Hooks /\ channels' = channels \cup Topics[h]
    BY DEF Mount, Inv, TypeOK
  <1>2. RoutesApart'
    BY <1>1 DEF Mount, Routed, Inv, RoutesApart
  <1>3. ChannelsWanted' /\ channels' \in SUBSET {"status", "chat"}
    <2>1. channels' = Wanted(mounted')
      BY <1>1, WantedMore DEF Inv, ChannelsWanted
    <2>2. mounted' \in SUBSET Hooks
      BY <1>1
    <2> QED
      BY <2>1, <2>2, WantedType DEF ChannelsWanted
  <1>4. UNCHANGED <<store, ageing, timer, drops>>
    BY DEF Mount
  <1>5. CASE Kept /\ Sent(channels') /\ UNCHANGED <<cur, openedWith, connected, waiters, mishaps, busy>>
    <2>1. /\ sock' \in [Slots -> Socks]
          /\ \A s \in Slots : sock'[s].state = sock[s].state /\ sock'[s].heard = sock[s].heard
          /\ IsOpen(sock, cur) => sock'[cur].subs = channels'
      BY <1>3, <1>5, Sending
    <2>2. LiveHeard' /\ OneLive' /\ ConnectedIsTrue' /\ (IsOpen(sock', cur') <=> IsOpen(sock, cur))
      BY <1>5, <2>1, SameStates
    <2>3. Carries'
      BY <1>5, <2>1, <2>2 DEF Carries
    <2>4. TypeOK'
      BY <1>1, <1>3, <1>4, <1>5, <2>1 DEF Inv, TypeOK, Socks
    <2> QED
      BY <1>2, <1>3, <2>2, <2>3, <2>4 DEF Inv
  <1>6. CASE Reconnect
    <2>1. /\ sock' \in [Slots -> Socks] /\ cur' \in Slots \cup {0}
          /\ openedWith' \in Pairs \cup {0} /\ connected' \in BOOLEAN /\ busy' \in BOOLEAN
          /\ waiters' \in 0..Cardinality(Slots) /\ mishaps' \subseteq mishaps \cup {"crossed"}
          /\ ~IsOpen(sock', cur')
          /\ LiveHeard' /\ OneLive' /\ ConnectedIsTrue'
      BY <1>6, Reconnecting DEF Mount
    <2>2. TypeOK'
      BY <1>1, <1>3, <1>4, <2>1 DEF Inv, TypeOK, Socks
    <2> QED
      BY <1>2, <1>3, <2>1, <2>2 DEF Inv, Carries
  <1> QED
    BY <1>5, <1>6 DEF Mount

LEMMA UnmountStep ==
  ASSUME Inv, NEW h \in Hooks, Unmount(h)
  PROVE  Inv'
  <1>1. /\ h \in mounted /\ mounted' = mounted \ {h} /\ mounted \in SUBSET Hooks
        /\ channels' = channels \ Topics[h] /\ Sent(channels')
        /\ UNCHANGED <<tokenVars, cur, openedWith, connected, timer, waiters, drops, mishaps>>
    BY DEF Unmount, Inv, TypeOK
  <1>2. RoutesApart'
    BY <1>1 DEF Inv, RoutesApart
  <1>3. ChannelsWanted' /\ channels' \in SUBSET {"status", "chat"}
    <2>1. channels' = Wanted(mounted')
      BY <1>1, WantedLess DEF Inv, ChannelsWanted, RoutesApart
    <2> QED
      BY <1>1, <2>1 DEF ChannelsWanted, Inv, TypeOK
  <1>4. /\ sock' \in [Slots -> Socks]
        /\ \A s \in Slots : sock'[s].state = sock[s].state /\ sock'[s].heard = sock[s].heard
        /\ IsOpen(sock, cur) => sock'[cur].subs = channels'
    BY <1>1, <1>3, Sending
  <1>5. LiveHeard' /\ OneLive' /\ ConnectedIsTrue' /\ (IsOpen(sock', cur') <=> IsOpen(sock, cur))
    BY <1>1, <1>4, SameStates
  <1>6. Carries'
    BY <1>1, <1>4, <1>5 DEF Carries
  <1>7. TypeOK'
    BY <1>1, <1>3, <1>4 DEF Inv, TypeOK, Socks, tokenVars
  <1> QED
    BY <1>2, <1>3, <1>5, <1>6, <1>7 DEF Inv

-----------------------------------------------------------------------------
(* Whichever socket opens, it is the open this.ws that subscribes. *)
LEMMA OpensStep ==
  ASSUME Inv, NEW s \in Slots, Opens(s)
  PROVE  Inv'
  <1> USE SlotFacts
  <1>0. sock \in [Slots -> Socks] /\ cur \in Slots \cup {0} /\ channels \in SUBSET {"status", "chat"}
    BY DEF Inv, TypeOK, Socks
  <1>1. sock[s].state = "connecting" /\ connected' = TRUE
        /\ UNCHANGED <<tokenVars, cur, openedWith, timer, waiters, channels, mounted, drops, mishaps>>
    BY DEF Opens
  <1> DEFINE S == [sock EXCEPT ![s] = [sock[s] EXCEPT !.state = "open"]]
  <1>2. /\ S \in [Slots -> Socks] /\ S[s].state = "open" /\ S[s].heard = sock[s].heard
        /\ \A r \in Slots : r # s => S[r] = sock[r]
    <2>1. /\ [sock[s] EXCEPT !.state = "open"] \in Socks
          /\ [sock[s] EXCEPT !.state = "open"].state = "open"
          /\ [sock[s] EXCEPT !.state = "open"].heard = sock[s].heard
      BY <1>0, SockType
    <2> QED
      BY <1>0, <2>1
  <1>3. sock' = IF cur # 0 /\ S[cur].state = "open"
                THEN [S EXCEPT ![cur] = [S[cur] EXCEPT !.subs = channels]] ELSE S
    BY DEF Opens
  <1> HIDE DEF S
  <1>4. /\ sock' \in [Slots -> Socks]
        /\ \A r \in Slots : sock'[r].state = S[r].state /\ sock'[r].heard = S[r].heard
        /\ IsOpen(S, cur) => sock'[cur].subs = channels
    <2>1. CASE IsOpen(S, cur)
      <3>1. cur \in Slots /\ sock' = [S EXCEPT ![cur] = [S[cur] EXCEPT !.subs = channels]]
        BY <1>0, <1>3, <2>1 DEF IsOpen
      <3>2. /\ [S[cur] EXCEPT !.subs = channels] \in Socks
            /\ [S[cur] EXCEPT !.subs = channels].state = S[cur].state
            /\ [S[cur] EXCEPT !.subs = channels].heard = S[cur].heard
            /\ [S[cur] EXCEPT !.subs = channels].subs = channels
        BY <1>0, <1>2, <3>1, SubsType
      <3> QED
        BY <1>2, <3>1, <3>2
    <2>2. CASE ~IsOpen(S, cur)
      BY <1>2, <1>3, <2>2 DEF IsOpen
    <2> QED
      BY <2>1, <2>2
  <1>5. Carries'
    BY <1>0, <1>1, <1>4 DEF Carries, IsOpen
  <1>6. \A r \in Slots : /\ Live(sock', r) <=> Live(sock, r)
                         /\ sock'[r].heard = sock[r].heard
    BY <1>1, <1>2, <1>4 DEF Live
  <1>7. LiveHeard' /\ OneLive'
    BY <1>1, <1>6 DEF Inv, LiveHeard, OneLive
  <1>8. "crossed" \notin mishaps => IsOpen(sock', cur')
    BY <1>1, <1>2, <1>4 DEF Inv, OneLive, Live, IsOpen
  <1>9. ConnectedIsTrue'
    BY <1>1, <1>8 DEF ConnectedIsTrue, IsOpen
  <1>10. TypeOK'
    BY <1>1, <1>4 DEF Inv, TypeOK, Socks, tokenVars
  <1>11. RoutesApart' /\ ChannelsWanted'
    BY <1>1 DEF Inv, RoutesApart, ChannelsWanted
  <1> QED
    BY <1>5, <1>7, <1>9, <1>10, <1>11 DEF Inv

(* The end of a connection, and with an error the close of this.ws before  *)
(* it.  The page is told that it is gone, which is wrong only when it is   *)
(* another socket than this.ws: a mishap.                                  *)
LEMMA CloseStep ==
  ASSUME Inv, NEW s \in Slots, NEW S \in [Slots -> Socks], OnClose(s, S), S[s] = sock[s],
         \A r \in Slots : \/ S[r] = sock[r]
                          \/ /\ r = cur /\ Live(sock, cur)
                             /\ S[r].state = (IF sock[r].state = "open" THEN "closing" ELSE "aborting")
                             /\ S[r].heard = sock[r].heard,
         UNCHANGED <<tokenVars, cur, openedWith, waiters, channels, mounted>>,
         drops' \in 0..MaxDrops
  PROVE  Inv'
  <1> USE SlotFacts
  <1>0. sock \in [Slots -> Socks] /\ cur \in Slots \cup {0} /\ connected \in BOOLEAN /\ timer \in BOOLEAN
    BY DEF Inv, TypeOK, Socks
  <1>1. /\ sock' = [S EXCEPT ![s] = Free]
        /\ connected' = (connected /\ ~S[s].heard)
        /\ timer' = (timer \/ S[s].heard)
    BY DEF OnClose
  <1>2. /\ sock' \in [Slots -> Socks] /\ sock'[s].state = "closed"
        /\ \A r \in Slots : r # s => sock'[r] = S[r]
    BY <1>1, FreeType
  <1>3. /\ mishaps' \subseteq mishaps \cup {"crossed"}
        /\ "crossed" \notin mishaps' => "crossed" \notin mishaps /\ ~(S[s].heard /\ s # cur /\ IsOpen(S, cur))
    BY DEF OnClose, IsOpen
  <1>4. \A r \in Slots : Live(sock', r) => Live(sock, r) /\ sock'[r] = sock[r] /\ r # s
    BY <1>2 DEF Live
  <1>5. LiveHeard' /\ OneLive'
    BY <1>3, <1>4 DEF Inv, LiveHeard, OneLive
  <1>6. Carries'
    BY <1>0, <1>4 DEF Inv, Carries, IsOpen, Live
  <1>7. ConnectedIsTrue'
    <2> SUFFICES ASSUME "crossed" \notin mishaps'
                 PROVE  /\ IsOpen(sock', cur) => connected'
                        /\ connected' => \/ IsOpen(sock', cur)
                                         \/ \E w \in Slots : sock'[w].state = "closing" /\ sock'[w].heard
      BY DEF ConnectedIsTrue, IsOpen
    <2>1. ASSUME IsOpen(sock', cur) PROVE connected'
      <3>1. s # cur /\ IsOpen(sock, cur) /\ S[cur] = sock'[cur]
        BY <1>0, <1>2, <1>4, <2>1 DEF IsOpen, Live
      <3>2. ~S[s].heard
        BY <1>3, <2>1, <3>1 DEF IsOpen
      <3> QED
        BY <1>1, <1>3, <3>1, <3>2 DEF Inv, ConnectedIsTrue, IsOpen
    <2>2. ASSUME connected'
          PROVE  \/ IsOpen(sock', cur)
                 \/ \E w \in Slots : sock'[w].state = "closing" /\ sock'[w].heard
      <3>1. connected /\ ~sock[s].heard /\ "crossed" \notin mishaps
        BY <1>1, <1>3, <2>2
      <3>2. CASE IsOpen(sock, cur)
        <4>1. cur \in Slots /\ cur # s /\ sock[cur].heard
          BY <1>0, <3>1, <3>2 DEF Inv, LiveHeard, Live, IsOpen
        <4>2. sock'[cur] = S[cur]
          BY <1>2, <4>1
        <4> QED
          BY <3>2, <4>1, <4>2 DEF IsOpen
      <3>3. CASE ~IsOpen(sock, cur)
        <4>1. PICK w \in Slots : sock[w].state = "closing" /\ sock[w].heard
          BY <3>1, <3>3 DEF Inv, ConnectedIsTrue, IsOpen
        <4>2. w # s /\ S[w] = sock[w]
          BY <3>1, <4>1 DEF Live
        <4> QED
          BY <1>2, <4>1, <4>2
      <3> QED
        BY <3>2, <3>3
    <2> QED
      BY <2>1, <2>2
  <1>8. TypeOK'
    <2>1. connected' \in BOOLEAN /\ timer' \in BOOLEAN
      BY <1>0, <1>1, SockType
    <2> QED
      BY <1>2, <1>3, <2>1 DEF Inv, TypeOK, Socks, tokenVars
  <1>9. RoutesApart' /\ ChannelsWanted'
    BY DEF Inv, RoutesApart, ChannelsWanted
  <1> QED
    BY <1>5, <1>6, <1>7, <1>8, <1>9 DEF Inv

LEMMA EndsStep ==
  ASSUME Inv, NEW s \in Slots, Closes(s) \/ Refused(s) \/ Drops(s)
  PROVE  Inv'
  <1> USE SlotFacts
  <1>0. sock \in [Slots -> Socks] /\ cur \in Slots \cup {0} /\ drops \in 0..MaxDrops
    BY DEF Inv, TypeOK, Socks
  <1>1. OnClose(s, sock) \/ OnClose(s, OnError(s))
    BY DEF Closes, Refused, Drops
  <1>2. drops' \in 0..MaxDrops /\ UNCHANGED <<tokenVars, cur, openedWith, waiters, channels, mounted>>
    BY <1>0, SocketAssumption DEF Closes, Refused, Drops
  <1>3. CASE OnClose(s, sock)
    BY <1>0, <1>2, <1>3, CloseStep
  <1>4. CASE OnClose(s, OnError(s)) /\ s # cur /\ Live(sock, cur)
    <2>1. cur \in Slots /\ OnError(s) = Shut(sock, cur)
      BY <1>0, <1>4 DEF Live, OnError
    <2>2. /\ OnError(s) \in [Slots -> Socks] /\ OnError(s)[cur].heard = sock[cur].heard
          /\ OnError(s)[cur].state = IF sock[cur].state = "open" THEN "closing" ELSE "aborting"
          /\ \A r \in Slots : r # cur => OnError(s)[r] = sock[r]
      BY <1>0, <1>4, <2>1, ShutOne
    <2> QED
      BY <1>2, <1>4, <2>2, CloseStep
  <1>5. CASE OnClose(s, OnError(s)) /\ ~(s # cur /\ Live(sock, cur))
    <2>1. OnClose(s, sock)
      BY <1>5 DEF OnError
    <2> QED
      BY <1>0, <1>2, <2>1, CloseStep
  <1> QED
    BY <1>1, <1>3, <1>4, <1>5

LEMMA TimerStep ==
  ASSUME Inv, TimerFires
  PROVE  Inv'
  <1>1. timer' = FALSE /\ UNCHANGED <<store, ageing, channels, mounted, drops>>
    BY DEF TimerFires
  <1>2. RoutesApart' /\ ChannelsWanted'
    BY <1>1 DEF Inv, RoutesApart, ChannelsWanted
  <1>3. CASE UNCHANGED <<busy, sock, cur, openedWith, connected, waiters, mishaps>>
    BY ZenonT(30), <1>1, <1>2, <1>3 DEF Inv, TypeOK, Carries, IsOpen, LiveHeard, OneLive, Live, ConnectedIsTrue
  <1>4. CASE Reconnect
    <2>1. /\ sock' \in [Slots -> Socks] /\ cur' \in Slots \cup {0}
          /\ openedWith' \in Pairs \cup {0} /\ connected' \in BOOLEAN /\ busy' \in BOOLEAN
          /\ waiters' \in 0..Cardinality(Slots) /\ mishaps' \subseteq mishaps \cup {"crossed"}
          /\ ~IsOpen(sock', cur')
          /\ LiveHeard' /\ OneLive' /\ ConnectedIsTrue'
      BY <1>4, Reconnecting DEF TimerFires
    <2>2. TypeOK'
      BY <1>1, <2>1 DEF Inv, TypeOK, Socks
    <2> QED
      BY <1>2, <2>1, <2>2 DEF Inv, Carries
  <1> QED
    BY <1>3, <1>4 DEF TimerFires

-----------------------------------------------------------------------------
LEMMA TokensTyped ==
  ASSUME store \in Pairs \cup {0}, ageing \in BOOLEAN, busy \in BOOLEAN
  PROVE  /\ \A n \in Pairs : Replaced(n) => store' \in Pairs \cup {0} /\ ageing' \in BOOLEAN
         /\ Cleared => store' \in Pairs \cup {0} /\ ageing' \in BOOLEAN
         /\ \A n \in Pairs : Refreshed(n) => /\ store' \in Pairs \cup {0} /\ ageing' \in BOOLEAN
                                             /\ busy' \in BOOLEAN
         /\ RefreshRefused \/ RefreshFailed \/ StartRefresh \/ Age =>
              store' \in Pairs \cup {0} /\ ageing' \in BOOLEAN /\ busy' \in BOOLEAN
  BY DEF Replaced, Cleared, Refreshed, RefreshRefused, RefreshFailed, StartRefresh, Age

LEMMA RefreshStep ==
  ASSUME Inv, RefreshEnds
  PROVE  Inv'
  <1> USE SlotFacts
  <1>0. /\ sock \in [Slots -> Socks] /\ waiters \in Nat
        /\ store \in Pairs \cup {0} /\ ageing \in BOOLEAN /\ busy \in BOOLEAN
    <2>1. Cardinality(Slots) \in Nat /\ waiters \in 0..Cardinality(Slots)
      BY FS_CardinalityType DEF Inv, TypeOK
    <2>2. waiters \in Nat
      BY <2>1
    <2> QED
      BY <2>2 DEF Inv, TypeOK, Socks
  <1>1. waiters' = 0 /\ UNCHANGED <<connected, timer, channels, mounted, drops>>
    BY DEF RefreshEnds
  <1>2. RoutesApart' /\ ChannelsWanted'
    BY <1>1 DEF Inv, RoutesApart, ChannelsWanted
  <1>3. store' \in Pairs \cup {0} /\ ageing' \in BOOLEAN /\ busy' \in BOOLEAN
    BY <1>0, TokensTyped DEF RefreshEnds
  <1>4. waiters' \in 0..Cardinality(Slots)
    BY <1>1, FS_CardinalityType
  <1>5. CASE UNCHANGED <<sock, cur, openedWith>> /\ mishaps \subseteq mishaps'
                                      /\ mishaps' \subseteq mishaps \cup {"stranded"}
    <2>1. "crossed" \notin mishaps' => "crossed" \notin mishaps
      BY <1>5
    <2>2. TypeOK'
      BY <1>1, <1>3, <1>4, <1>5 DEF Inv, TypeOK
    <2> QED
      BY <1>1, <1>2, <1>5, <2>1, <2>2 DEF Inv, Carries, IsOpen, LiveHeard, OneLive, Live, ConnectedIsTrue
  <1>6. ASSUME NEW n \in Pairs, Open(waiters, sock, cur, n)
        PROVE  Inv'
    <2>1. /\ sock' \in [Slots -> Socks] /\ cur' \in Slots /\ openedWith' = n
          /\ sock'[cur'].state = "connecting"
          /\ \A s \in Slots : \/ sock'[s] = sock[s]
                              \/ sock[s].state = "closed" /\ sock'[s].state = "connecting" /\ sock'[s].heard
          /\ mishaps' \subseteq mishaps \cup {"crossed"}
          /\ "crossed" \notin mishaps' => /\ "crossed" \notin mishaps /\ ~Live(sock, cur)
                                 /\ \A s \in Slots : s # cur' => sock'[s] = sock[s]
      BY <1>0, <1>6, Opening
    <2>2. Carries'
      BY <2>1 DEF Carries, IsOpen
    <2>3. LiveHeard'
      BY <2>1 DEF Inv, LiveHeard, Live
    <2>4. OneLive'
      BY <2>1 DEF Inv, OneLive, Live
    <2>5. ConnectedIsTrue'
      <3> SUFFICES ASSUME "crossed" \notin mishaps', connected'
                   PROVE  \E w \in Slots : sock'[w].state = "closing" /\ sock'[w].heard
        BY <2>1 DEF ConnectedIsTrue
      <3>1. PICK w \in Slots : sock[w].state = "closing" /\ sock[w].heard
        BY <1>1, <2>1 DEF Inv, ConnectedIsTrue, Live
      <3> QED
        BY <2>1, <3>1
    <2>6. TypeOK'
      BY <1>1, <1>3, <1>4, <2>1 DEF Inv, TypeOK, Socks
    <2> QED
      BY <1>2, <2>2, <2>3, <2>4, <2>5, <2>6 DEF Inv
  <1>7. Unrefreshed => UNCHANGED <<sock, cur, openedWith>> /\ mishaps \subseteq mishaps'
                                      /\ mishaps' \subseteq mishaps \cup {"stranded"}
    BY DEF Unrefreshed
  <1> QED
    BY <1>5, <1>6, <1>7 DEF RefreshEnds

LEMMA DisconnectStep ==
  ASSUME Inv, Disconnect
  PROVE  Inv'
  <1> USE SlotFacts
  <1>0. sock \in [Slots -> Socks] /\ cur \in Slots \cup {0}
        /\ store \in Pairs \cup {0} /\ ageing \in BOOLEAN /\ busy \in BOOLEAN
    BY DEF Inv, TypeOK, Socks
  <1>1. /\ Cleared /\ openedWith' = 0 /\ timer' = FALSE /\ cur' = 0
        /\ mounted' = mounted \ {"bell"}
        /\ UNCHANGED <<busy, connected, waiters, channels, drops>>
    BY DEF Disconnect
  <1>2. mishaps' \subseteq mishaps \cup {"stranded"} /\ ("crossed" \notin mishaps' => "crossed" \notin mishaps)
    BY DEF Disconnect
  <1>4. ~Live(sock, cur) => sock' = sock
    BY DEF Disconnect
  <1>5. /\ sock' \in [Slots -> Socks]
        /\ \A s \in Slots : /\ Live(sock', s) => Live(sock, s) /\ sock'[s] = sock[s] /\ s # cur
                            /\ sock[s].state = "closing" => sock'[s] = sock[s]
        /\ IsOpen(sock, cur) => cur \in Slots /\ sock'[cur].state = "closing" /\ sock'[cur].heard
    <2>1. CASE Live(sock, cur)
      <3>1. cur \in Slots /\ sock' = Shut(sock, cur)
        BY <1>0, <2>1 DEF Disconnect, Live
      <3>2. /\ sock' \in [Slots -> Socks] /\ sock'[cur].heard
            /\ sock'[cur].state = IF sock[cur].state = "open" THEN "closing" ELSE "aborting"
            /\ \A s \in Slots : s # cur => sock'[s] = sock[s]
        BY <1>0, <2>1, <3>1, ShutOne DEF Inv, LiveHeard
      <3> QED
        BY <2>1, <3>1, <3>2 DEF Live, IsOpen
    <2>2. CASE ~Live(sock, cur)
      BY <1>0, <1>4, <2>2 DEF Live, IsOpen
    <2> QED
      BY <2>1, <2>2
  <1>6. LiveHeard' /\ OneLive'
    BY <1>2, <1>5 DEF Inv, LiveHeard, OneLive
  <1>7. Carries'
    BY <1>1 DEF Carries, IsOpen
  <1>8. ConnectedIsTrue'
    <2> SUFFICES ASSUME "crossed" \notin mishaps', connected'
                 PROVE  \E w \in Slots : sock'[w].state = "closing" /\ sock'[w].heard
      BY <1>1 DEF ConnectedIsTrue
    <2>1. CASE IsOpen(sock, cur)
      BY <1>5, <2>1
    <2>2. CASE ~IsOpen(sock, cur)
      <3>1. PICK w \in Slots : sock[w].state = "closing" /\ sock[w].heard
        BY <1>1, <1>2, <2>2 DEF Inv, ConnectedIsTrue, IsOpen
      <3> QED
        BY <1>5, <3>1
    <2> QED
      BY <2>1, <2>2
  <1>9. RoutesApart' /\ mounted' \subseteq Hooks
    BY <1>1 DEF Inv, RoutesApart, TypeOK
  <1>10. ChannelsWanted'
    <2>1. \A t : t \in Wanted(mounted) <=> t \in Wanted(mounted')
      BY <1>1, InWanted, TopicFacts
    <2>2. Wanted(mounted) = Wanted(mounted')
      BY <2>1 DEF Wanted
    <2> QED
      BY <1>1, <2>2 DEF Inv, ChannelsWanted
  <1>11. store' \in Pairs \cup {0} /\ ageing' \in BOOLEAN
    BY <1>0, <1>1, TokensTyped
  <1>12. TypeOK'
    BY <1>1, <1>2, <1>5, <1>9, <1>11 DEF Inv, TypeOK, Socks
  <1> QED
    BY <1>6, <1>7, <1>8, <1>9, <1>10, <1>12 DEF Inv

LEMMA TokensStep ==
  ASSUME Inv, TokenStep
  PROVE  Inv'
  <1>1. store' \in Pairs \cup {0} /\ ageing' \in BOOLEAN /\ busy' \in BOOLEAN
    BY TokensTyped DEF TokenStep, Inv, TypeOK
  <1>2. UNCHANGED socketVars
    BY DEF TokenStep
  <1> QED
    BY <1>1, <1>2
    DEF socketVars, Inv, TypeOK, RoutesApart, ChannelsWanted, Carries, IsOpen, LiveHeard, OneLive, Live,
        ConnectedIsTrue

LEMMA InvNext == Inv /\ [Next]_vars => Inv'
  <1> SUFFICES ASSUME Inv, [Next]_vars PROVE Inv'
    OBVIOUS
  <1>1. CASE UNCHANGED vars
    <2>1. UNCHANGED <<store, ageing, busy>> /\ UNCHANGED socketVars
      BY <1>1 DEF vars, tokenVars
    <2>2. TypeOK' /\ RoutesApart' /\ ChannelsWanted'
      BY ZenonT(30), <2>1 DEF socketVars, Inv, TypeOK, RoutesApart, ChannelsWanted
    <2> QED
      BY <2>1, <2>2
      DEF socketVars, Inv, TypeOK, RoutesApart, ChannelsWanted, Carries, IsOpen,
          LiveHeard, OneLive, Live, ConnectedIsTrue
  <1> QED
    BY <1>1, MountStep, UnmountStep, OpensStep, EndsStep, TimerStep, RefreshStep, DisconnectStep,
       TokensStep DEF Next

LEMMA Invariant == Spec => []Inv
  BY InvInit, InvNext, PTL DEF Spec

(* Every variable of the tab keeps its type (Socket). *)
THEOREM TypeCorrect == Spec => []TypeOK
  <1>1. Inv => TypeOK
    BY DEF Inv
  <1> QED
    BY <1>1, Invariant, PTL

(* An open this.ws carries the topics of the hooks that are mounted,       *)
(* whichever sockets were opened over one another, given up, dropped or    *)
(* opened late, and whatever happened to the session.  No mishap is        *)
(* excluded.                                                               *)
THEOREM AlwaysHearsThePage == Spec => []HearsThePage
  <1>1. Inv => HearsThePage
    BY DEF Inv, Carries, IsOpen, ChannelsWanted, Wanted, HearsThePage
  <1> QED
    BY <1>1, Invariant, PTL

(* Until two sockets got in each other's way (one opened over another, or   *)
(* the close of an older one reported late) the page is shown as connected *)
(* when this.ws is open, and otherwise only while a close is still to be   *)
(* reported; failed refreshes and cleared timers are not excluded.         *)
THEOREM ConnectedAlwaysTrue == Spec => []ConnectedIsTrue
  <1>1. Inv => ConnectedIsTrue
    BY DEF Inv
  <1> QED
    BY <1>1, Invariant, PTL
=============================================================================
