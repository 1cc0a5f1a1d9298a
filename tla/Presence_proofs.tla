---------------------------- MODULE Presence_proofs ----------------------------
(***************************************************************************)
(* Proofs about Presence, for any number of accounts, sockets and backends, *)
(* and any placing of sockets on backends.  The first invariant says what  *)
(* the lock protects: an agent inside disconnect holds the lock of its     *)
(* backend, and the socket it disconnects is the only one about which      *)
(* channel_peers and the connections may disagree.  The second is about    *)
(* the Redis set.                                                          *)
(***************************************************************************)
EXTENDS Presence, TLAPS

DropHolds(x) ==
  LET c == drop[x].conn
  IN /\ lock[Home(x)] = x
     /\ c \in Conns /\ InstanceOf[c] = Home(x)
     /\ c \notin registered /\ (handler[c] # "off" \/ c \in abandoned)
     /\ x \in Conns => c = x
     /\ drop[x].pc \in {"removing", "ending"} => c \notin peers

DropsHold == \A x \in Agents : drop[x].pc # "no" => DropHolds(x)

ClosingDrops == \A c \in Conns : handler[c] = "closing" <=> drop[c].pc # "no"

(* The socket c is being disconnected. *)
InDrop(c) == \E x \in Agents : drop[x].pc # "no" /\ drop[x].conn = c

PeersSplit ==
  /\ peers \subseteq channels
  /\ \A c \in Conns \ cut : InDrop(c) \/ (c \in peers <=> c \in channels)

(* What a failing call left behind: a cut socket is on the topic and not   *)
(* registered, the handler of an abandoned one has ended.                  *)
LeftBehind ==
  /\ cut \subseteq channels \ registered
  /\ \A c \in abandoned : handler[c] = "off" /\ c \notin channels

Inv ==
  TypeOK /\ LockHasHolder /\ DropsHold /\ ClosingDrops /\ PeersSplit /\ LeftBehind /\ NoGhost

-----------------------------------------------------------------------------
LEMMA Places ==
  /\ \A c \in Conns : InstanceOf[c] \in Instances /\ AccountOf[c] \in Accounts
  /\ \A x \in Agents : Home(x) \in Instances
  /\ \A c \in Conns : c \in Agents /\ Home(c) = InstanceOf[c]
  /\ \A i \in Instances : i \in Agents /\ i \notin Conns /\ Home(i) = i
  /\ Free \notin Agents
  BY ConnAssumption, NamesAssumption DEF Agents, Home

(* While the lock of a backend is free nobody disconnects its sockets. *)
LEMMA FreeMeansNoDrop ==
  ASSUME Inv, NEW c \in Conns, lock[InstanceOf[c]] = Free
  PROVE  /\ ~InDrop(c)
         /\ \A x \in Agents : Home(x) = InstanceOf[c] => drop[x].pc = "no"
  BY Places DEF Inv, DropsHold, DropHolds, InDrop

(* A socket that is being disconnected has one agent at it, which holds    *)
(* the lock.                                                               *)
LEMMA OneAgent ==
  ASSUME Inv, NEW x \in Agents, drop[x].pc # "no"
  PROVE  /\ DropHolds(x)
         /\ \A y \in Agents : y # x /\ drop[y].pc # "no" =>
              Home(y) # Home(x) /\ drop[y].conn # drop[x].conn
  BY Places DEF Inv, DropsHold, DropHolds

LEMMA InvInit == Init => Inv
  BY Places, BoundAssumption
  DEF Init, Inv, TypeOK, LockHasHolder, DropsHold, ClosingDrops, PeersSplit, LeftBehind, NoGhost, NoDrop

-----------------------------------------------------------------------------
LEMMA ConnectStep ==
  ASSUME Inv, NEW c \in Conns, Connect(c)
  PROVE  Inv'
  <1> USE Places DEF Inv, Connect, dicts, left, bounds
  <1>1. TypeOK'
    BY DEF TypeOK, Note
  <1>2. LockHasHolder'
    BY DEF LockHasHolder
  <1>3. DropsHold'
    BY DEF DropsHold, DropHolds, TypeOK
  <1>4. ClosingDrops'
    BY DEF ClosingDrops, TypeOK
  <1>5. PeersSplit'
    BY DEF PeersSplit, InDrop
  <1>6. NoGhost'
    BY DEF NoGhost, TypeOK
  <1>7. LeftBehind'
    BY DEF LeftBehind, NoGhost, TypeOK
  <1> QED
    BY <1>1, <1>2, <1>3, <1>4, <1>5, <1>6, <1>7

LEMMA SubscribeStep ==
  ASSUME Inv, NEW c \in Conns, Subscribe(c)
  PROVE  Inv'
  <1> USE Places DEF Inv, Subscribe, dicts, left, bounds
  <1>0. ~InDrop(c)
    BY FreeMeansNoDrop
  <1>1. TypeOK'
    BY DEF TypeOK, Note
  <1>2. LockHasHolder'
    BY DEF LockHasHolder
  <1>3. DropsHold'
    BY <1>0 DEF DropsHold, DropHolds, TypeOK, InDrop
  <1>4. ClosingDrops'
    BY DEF ClosingDrops, TypeOK
  <1>5. PeersSplit'
    BY DEF PeersSplit, InDrop
  <1>6. NoGhost'
    BY DEF NoGhost, TypeOK
  <1>7. LeftBehind'
    BY DEF LeftBehind, NoGhost, TypeOK
  <1> QED
    BY <1>1, <1>2, <1>3, <1>4, <1>5, <1>6, <1>7

LEMMA UnsubscribeStep ==
  ASSUME Inv, NEW c \in Conns, Unsubscribe(c)
  PROVE  Inv'
  <1> USE Places DEF Inv, Unsubscribe, dicts, left, bounds
  <1>0. ~InDrop(c)
    BY FreeMeansNoDrop
  <1>1. TypeOK'
    BY DEF TypeOK, Note
  <1>2. LockHasHolder'
    BY DEF LockHasHolder
  <1>3. DropsHold'
    BY <1>0 DEF DropsHold, DropHolds, TypeOK, InDrop
  <1>4. ClosingDrops'
    BY DEF ClosingDrops, TypeOK
  <1>5. PeersSplit'
    BY DEF PeersSplit, InDrop
  <1>6. NoGhost'
    BY DEF NoGhost, TypeOK
  <1>7. LeftBehind'
    BY DEF LeftBehind, NoGhost, TypeOK
  <1> QED
    BY <1>1, <1>2, <1>3, <1>4, <1>5, <1>6, <1>7

(* SADD and SREM of a handler change the set and where the handler is. *)
LEMMA CallStep ==
  ASSUME Inv, NEW c \in Conns, PresenceAdd(c) \/ PresenceRemove(c)
  PROVE  Inv'
  <1> USE Places DEF Inv, PresenceAdd, PresenceRemove, dicts, left, bounds
  <1>1. TypeOK'
    <2>1. unsure' \subseteq Accounts
      BY DEF TypeOK, Note
    <2>2. present' \subseteq Accounts /\ handler' = [handler EXCEPT ![c] = "idle"]
      BY DEF TypeOK
    <2> QED
      BY <2>1, <2>2 DEF TypeOK
  <1>2. LockHasHolder'
    BY DEF LockHasHolder
  <1>3. DropsHold'
    BY DEF DropsHold, DropHolds, TypeOK
  <1>4. ClosingDrops'
    BY DEF ClosingDrops, TypeOK
  <1>5. PeersSplit'
    BY DEF PeersSplit, InDrop
  <1>6. NoGhost'
    BY DEF NoGhost, TypeOK
  <1>7. LeftBehind'
    BY DEF LeftBehind, NoGhost, TypeOK
  <1> QED
    BY <1>1, <1>2, <1>3, <1>4, <1>5, <1>6, <1>7

-----------------------------------------------------------------------------
(* disconnect takes the lock: in the handler (Close) or in the listener *)
LEMMA BeginStep ==
  ASSUME Inv, NEW x \in Agents, NEW c \in Conns, Begin(x, c), InstanceOf[c] = Home(x),
         \/ x \in Conns /\ c = x /\ handler[c] \in {"idle", "broken"}
              /\ handler' = [handler EXCEPT ![c] = "closing"]
         \/ x \in Instances /\ c \in registered /\ UNCHANGED handler
  PROVE  Inv'
  <1> USE Places DEF Inv, Begin, dicts, left, bounds
  <1>0. ~InDrop(c) /\ \A y \in Agents : Home(y) = Home(x) => drop[y].pc = "no"
    BY FreeMeansNoDrop
  <1>1. TypeOK'
    <2>1. unsure' \subseteq Accounts
      BY DEF TypeOK, Note
    <2> QED
      BY <2>1 DEF TypeOK
  <1>2. /\ drop'[x].pc # "no" /\ drop'[x].conn = c
        /\ drop'[x].pc \in {"removing", "ending"} => c \notin channels
        /\ \A y \in Agents \ {x} : drop'[y] = drop[y] /\ (drop[y].pc # "no" => Home(y) # Home(x))
        /\ lock'[Home(x)] = x
        /\ \A i \in Instances \ {Home(x)} : lock'[i] = lock[i]
        /\ handler[c] # "off" \/ c \in abandoned
        /\ handler'[c] # "off" \/ c \in abandoned
    BY <1>0 DEF TypeOK, NoGhost
  <1>3. LockHasHolder'
    BY <1>2 DEF LockHasHolder
  <1>4. DropsHold'
    <2>1. c \notin channels => c \notin peers
      BY DEF PeersSplit
    <2>2. DropHolds(x)'
      BY <1>2, <2>1 DEF DropHolds
    <2>3. ASSUME NEW y \in Agents \ {x}, drop'[y].pc # "no"
          PROVE  DropHolds(y)'
      <3>1. DropHolds(y) /\ drop[y].conn # c
        BY <1>0, <1>2, <2>3 DEF DropsHold, InDrop
      <3> QED
        BY <1>2, <2>3, <3>1 DEF DropHolds, TypeOK
    <2> QED
      BY <2>2, <2>3 DEF DropsHold
  <1>5. ClosingDrops'
    BY <1>2 DEF ClosingDrops, TypeOK
  <1>6. PeersSplit'
    <2>1. InDrop(c)'
      BY <1>2 DEF InDrop
    <2>2. ASSUME NEW d \in Conns, InDrop(d)
          PROVE  InDrop(d)'
      BY <1>0, <1>2, <2>2 DEF InDrop
    <2>3. peers' = peers /\ channels' = channels
      OBVIOUS
    <2> QED
      BY <2>1, <2>2, <2>3 DEF PeersSplit
  <1>7. NoGhost'
    BY <1>2 DEF NoGhost, TypeOK
  <1>8. LeftBehind'
    BY DEF LeftBehind, NoGhost, TypeOK
  <1> QED
    BY <1>1, <1>3, <1>4, <1>5, <1>6, <1>7, <1>8

LEMMA CloseStep ==
  ASSUME Inv, NEW c \in Conns, Close(c)
  PROVE  Inv'
  BY BeginStep, Places DEF Close

LEMMA SendFailsStep ==
  ASSUME Inv, NEW i \in Instances, SendFails(i)
  PROVE  Inv'
  <1>1. PICK c \in Conns : c \in registered /\ InstanceOf[c] = i /\ Begin(i, c)
    BY DEF SendFails, Inv, TypeOK
  <1> QED
    BY <1>1, BeginStep, Places DEF SendFails

LEMMA LeaveStep ==
  ASSUME Inv, NEW x \in Agents, Leave(x)
  PROVE  Inv'
  <1> USE Places DEF Inv, Leave, dicts, left, bounds
  <1>0. /\ DropHolds(x)
        /\ \A y \in Agents : y # x /\ drop[y].pc # "no" =>
             Home(y) # Home(x) /\ drop[y].conn # drop[x].conn
    BY OneAgent
  <1>1. TypeOK'
    BY DEF TypeOK, Note
  <1>2. /\ drop'[x].pc \in {"removing", "ending"} /\ drop'[x].conn = drop[x].conn
        /\ \A y \in Agents \ {x} : drop'[y] = drop[y]
    BY DEF TypeOK
  <1>3. LockHasHolder'
    BY <1>2 DEF LockHasHolder
  <1>4. DropsHold'
    BY <1>0, <1>2 DEF DropsHold, DropHolds
  <1>5. ClosingDrops'
    BY <1>2 DEF ClosingDrops
  <1>6. PeersSplit'
    BY <1>2 DEF PeersSplit, InDrop
  <1>7. NoGhost'
    BY DEF NoGhost
  <1>8. LeftBehind'
    BY DEF LeftBehind, NoGhost, TypeOK
  <1> QED
    BY <1>1, <1>3, <1>4, <1>5, <1>6, <1>7, <1>8

LEMMA LeaveRemoveStep ==
  ASSUME Inv, NEW x \in Agents, LeaveRemove(x)
  PROVE  Inv'
  <1> USE Places DEF Inv, LeaveRemove, dicts, left, bounds
  <1>1. TypeOK'
    BY DEF TypeOK, Note
  <1>2. /\ drop'[x].pc = "ending" /\ drop'[x].conn = drop[x].conn
        /\ \A y \in Agents \ {x} : drop'[y] = drop[y]
    BY DEF TypeOK
  <1>3. LockHasHolder'
    BY <1>2 DEF LockHasHolder
  <1>4. DropsHold'
    BY <1>2 DEF DropsHold, DropHolds
  <1>5. ClosingDrops'
    BY <1>2 DEF ClosingDrops
  <1>6. PeersSplit'
    BY <1>2 DEF PeersSplit, InDrop
  <1>7. NoGhost'
    BY DEF NoGhost
  <1>8. LeftBehind'
    BY DEF LeftBehind, NoGhost, TypeOK
  <1> QED
    BY <1>1, <1>3, <1>4, <1>5, <1>6, <1>7, <1>8

(* disconnect gives the lock back: nobody else was at its socket. *)
LEMMA EndStep ==
  ASSUME Inv, NEW x \in Agents, End(x)
  PROVE  Inv'
  <1> USE Places DEF Inv, End, dicts, left, bounds, Returns
  <1>0. /\ DropHolds(x)
        /\ \A y \in Agents : y # x /\ drop[y].pc # "no" =>
             Home(y) # Home(x) /\ drop[y].conn # drop[x].conn
    BY OneAgent
  <1>1. TypeOK'
    BY DEF TypeOK, Note, NoDrop
  <1>2. /\ drop'[x].pc = "no" /\ drop[x].conn \notin peers'
        /\ drop[x].conn \notin channels' /\ drop[x].conn \notin registered'
        /\ \A y \in Agents \ {x} : drop'[y] = drop[y]
        /\ \A i \in Instances \ {Home(x)} : lock'[i] = lock[i]
        /\ lock'[Home(x)] = Free
    BY <1>0 DEF TypeOK, NoDrop, DropHolds
  <1>3. LockHasHolder'
    BY <1>2 DEF LockHasHolder
  <1>4. DropsHold'
    BY <1>0, <1>2 DEF DropsHold, DropHolds, TypeOK
  <1>5. ClosingDrops'
    BY <1>2 DEF ClosingDrops, TypeOK
  <1>6. PeersSplit'
    BY <1>2 DEF PeersSplit, InDrop
  <1>7. NoGhost'
    BY <1>0, <1>2 DEF NoGhost, TypeOK, DropHolds
  <1>8. LeftBehind'
    BY DEF LeftBehind, NoGhost, TypeOK
  <1> QED
    BY <1>1, <1>3, <1>4, <1>5, <1>6, <1>7, <1>8

(* The memory of a backend disappears as a whole. *)
LEMMA CrashStep ==
  ASSUME Inv, NEW i \in Instances, Crash(i)
  PROVE  Inv'
  <1> USE Places DEF Inv, Crash, dicts, left, bounds
  <1> DEFINE here == {c \in Conns : InstanceOf[c] = i}
  <1>1. TypeOK'
    BY BoundAssumption DEF TypeOK, NoDrop
  <1>2. /\ \A x \in Agents : IF Home(x) = i THEN drop'[x].pc = "no" ELSE drop'[x] = drop[x]
        /\ \A c \in Conns : IF InstanceOf[c] = i THEN handler'[c] = "off" ELSE handler'[c] = handler[c]
        /\ lock'[i] = Free /\ \A j \in Instances \ {i} : lock'[j] = lock[j]
        /\ registered' = registered \ here /\ channels' = channels \ here /\ peers' = peers \ here
    BY DEF TypeOK, NoDrop
  <1>3. LockHasHolder'
    <2> SUFFICES ASSUME NEW j \in Instances, lock'[j] # Free
                 PROVE  Home(lock'[j]) = j /\ drop'[lock'[j]].pc # "no"
      BY DEF LockHasHolder
    <2>1. j # i /\ lock'[j] = lock[j] /\ lock[j] \in Agents
      BY <1>2 DEF TypeOK
    <2>2. Home(lock[j]) = j /\ drop[lock[j]].pc # "no"
      BY <2>1 DEF LockHasHolder
    <2> QED
      BY <1>2, <2>1, <2>2
  <1>4. DropsHold'
    <2> SUFFICES ASSUME NEW x \in Agents, drop'[x].pc # "no"
                 PROVE  DropHolds(x)'
      BY DEF DropsHold
    <2>1. Home(x) # i /\ drop'[x] = drop[x] /\ DropHolds(x)
      BY <1>2 DEF DropsHold
    <2> QED
      BY <1>2, <2>1 DEF DropHolds
  <1>5. ClosingDrops'
    BY <1>2 DEF ClosingDrops
  <1>6. PeersSplit'
    <2>0. peers' \subseteq channels' /\ cut' = cut \ here
      BY <1>2 DEF PeersSplit
    <2> SUFFICES ASSUME NEW c \in Conns \ cut', ~InDrop(c)'
                 PROVE  c \in peers' <=> c \in channels'
      BY <2>0 DEF PeersSplit
    <2>1. CASE InstanceOf[c] = i
      BY <1>2, <2>1
    <2>2. CASE InstanceOf[c] # i
      <3>1. ~InDrop(c) /\ c \notin cut
        BY <1>2, <2>0, <2>2 DEF InDrop, DropsHold, DropHolds
      <3> QED
        BY <1>2, <2>2, <3>1 DEF PeersSplit
    <2> QED
      BY <2>1, <2>2
  <1>7. NoGhost'
    BY <1>2 DEF NoGhost
  <1>8. LeftBehind'
    BY DEF LeftBehind, NoGhost, TypeOK
  <1> QED
    BY <1>1, <1>3, <1>4, <1>5, <1>6, <1>7, <1>8

-----------------------------------------------------------------------------
(* The calls that fail *)
LEMMA PersonalAddFailsStep ==
  ASSUME Inv, NEW c \in Conns, PersonalAddFails(c)
  PROVE  Inv'
  <1> USE Places DEF Inv, PersonalAddFails, dicts, left, bounds
  <1>0. c \notin channels /\ c \notin peers /\ ~InDrop(c)
    BY DEF NoGhost, InDrop, DropsHold, DropHolds
  <1>1. TypeOK'
    BY BoundAssumption DEF TypeOK, Note, Fails
  <1>2. LockHasHolder'
    BY DEF LockHasHolder
  <1>3. DropsHold'
    BY <1>0 DEF DropsHold, DropHolds, TypeOK, InDrop
  <1>4. ClosingDrops'
    BY DEF ClosingDrops, TypeOK
  <1>5. PeersSplit'
    BY DEF PeersSplit, InDrop
  <1>6. NoGhost'
    BY DEF NoGhost, TypeOK
  <1>7. LeftBehind'
    BY <1>0 DEF LeftBehind, TypeOK
  <1> QED
    BY <1>1, <1>2, <1>3, <1>4, <1>5, <1>6, <1>7

LEMMA CallFailsStep ==
  ASSUME Inv, NEW c \in Conns, AddFails(c) \/ RemoveFails(c)
  PROVE  Inv'
  <1> USE Places DEF Inv
  <1>0. /\ handler[c] \in {"adding", "removing"} /\ handler' = [handler EXCEPT ![c] = "broken"]
        /\ UNCHANGED <<registered, channels, peers, lock, drop, abandoned, cut, crashes>>
        /\ failures < MaxFailures /\ failures' = failures + 1
        /\ present' \subseteq Accounts /\ unsure' \subseteq Accounts
    BY DEF AddFails, RemoveFails, Fails, Missed, Note, TypeOK, dicts, left
  <1>1. TypeOK'
    BY <1>0, BoundAssumption DEF TypeOK
  <1>2. LockHasHolder'
    BY <1>0 DEF LockHasHolder
  <1>3. DropsHold'
    BY <1>0 DEF DropsHold, DropHolds, TypeOK
  <1>4. ClosingDrops'
    BY <1>0 DEF ClosingDrops, TypeOK
  <1>5. PeersSplit'
    BY <1>0 DEF PeersSplit, InDrop
  <1>6. NoGhost'
    BY <1>0 DEF NoGhost, TypeOK
  <1>7. LeftBehind'
    BY <1>0 DEF LeftBehind, TypeOK
  <1> QED
    BY <1>1, <1>2, <1>3, <1>4, <1>5, <1>6, <1>7

(* disconnect raises: the lock is given back with the socket on the topic. *)
LEMMA DropFailsStep ==
  ASSUME Inv, NEW x \in Agents, DropFails(x)
  PROVE  Inv'
  <1> USE Places DEF Inv, DropFails, dicts, Returns
  <1> DEFINE c == drop[x].conn
  <1>0. /\ DropHolds(x)
        /\ \A y \in Agents : y # x /\ drop[y].pc # "no" =>
             Home(y) # Home(x) /\ drop[y].conn # c
    BY OneAgent
  <1>1. TypeOK'
    BY <1>0, BoundAssumption DEF TypeOK, Missed, Fails, NoDrop, DropHolds
  <1>2. /\ drop'[x].pc = "no" /\ c \notin registered'
        /\ c \in channels => c \in cut'
        /\ c \in peers => c \in cut'
        /\ \A y \in Agents \ {x} : drop'[y] = drop[y]
        /\ \A i \in Instances \ {Home(x)} : lock'[i] = lock[i]
        /\ lock'[Home(x)] = Free
    BY <1>0 DEF TypeOK, NoDrop, DropHolds, PeersSplit
  <1>3. LockHasHolder'
    BY <1>2 DEF LockHasHolder
  <1>4. DropsHold'
    BY <1>0, <1>2 DEF DropsHold, DropHolds, TypeOK
  <1>5. ClosingDrops'
    BY <1>2 DEF ClosingDrops, TypeOK
  <1>6. PeersSplit'
    BY <1>2 DEF PeersSplit, InDrop
  <1>7. NoGhost'
    BY <1>0, <1>2 DEF NoGhost, TypeOK, DropHolds
  <1>8. LeftBehind'
    BY <1>0, <1>2 DEF LeftBehind, TypeOK, DropHolds, ClosingDrops
  <1> QED
    BY <1>1, <1>3, <1>4, <1>5, <1>6, <1>7, <1>8

-----------------------------------------------------------------------------
THEOREM InvNext == Inv /\ [Next]_vars => Inv'
  <1> SUFFICES ASSUME Inv, [Next]_vars
               PROVE  Inv'
    OBVIOUS
  <1>1. CASE UNCHANGED vars
    BY <1>1 DEF vars, dicts, left, bounds, Inv, TypeOK, LockHasHolder, DropsHold, DropHolds,
                ClosingDrops, PeersSplit, InDrop, LeftBehind, NoGhost
  <1>2. CASE \E c \in Conns : \/ Connect(c) \/ Subscribe(c) \/ Unsubscribe(c) \/ Close(c)
                              \/ PresenceAdd(c) \/ PresenceRemove(c) \/ CallFails(c)
    BY <1>2, ConnectStep, SubscribeStep, UnsubscribeStep, CloseStep, CallStep,
       PersonalAddFailsStep, CallFailsStep DEF CallFails
  <1>3. CASE \E i \in Instances : SendFails(i) \/ Crash(i)
    BY <1>3, SendFailsStep, CrashStep
  <1>4. CASE \E x \in Agents : DropStep(x)
    BY <1>4, LeaveStep, LeaveRemoveStep, EndStep, DropFailsStep DEF DropStep
  <1> QED
    BY <1>1, <1>2, <1>3, <1>4 DEF Next

(* The invariant holds in every behaviour. *)
THEOREM Invariant == Spec => []Inv
  <1>1. Inv /\ UNCHANGED vars => Inv'
    BY InvNext
  <1> QED
    BY InvInit, InvNext, PTL DEF Spec

(* The manager's dictionaries, its lock and the Redis set keep their types. *)
THEOREM TypeCorrect == Spec => []TypeOK
  <1>1. Inv => TypeOK
    BY DEF Inv
  <1> QED
    BY <1>1, Invariant, PTL

(* Nobody holds the lock of a backend outside disconnect. *)
THEOREM LockAlwaysHasHolder == Spec => []LockHasHolder
  <1>1. Inv => LockHasHolder
    BY DEF Inv
  <1> QED
    BY <1>1, Invariant, PTL

(* Whenever the lock is free, channel_peers and the connections' own         *)
(* channels say the same about every socket that no failing disconnect       *)
(* stopped at, for any number of sockets, backends and failing calls.        *)
THEOREM PeersAlwaysAgree == Spec => []PeersAgree
  <1>1. Inv => PeersAgree
    BY FreeMeansNoDrop DEF Inv, PeersAgree, PeersSplit
  <1> QED
    BY <1>1, Invariant, PTL

(* A socket whose handler has ended is nowhere in the manager, even if the   *)
(* listener dropped it first and it subscribed again, unless a failing call  *)
(* left it: among the connections or on the topic, but not both.             *)
THEOREM NoGhostEver == Spec => []NoGhost
  <1>1. Inv => NoGhost
    BY DEF Inv
  <1> QED
    BY <1>1, Invariant, PTL

-----------------------------------------------------------------------------
(***************************************************************************)
(* PresenceExact: the Redis set holds exactly the accounts that listen,    *)
(* except those whose removal raced with an arrival.  An account in the    *)
(* set is backed by a socket that no disconnect is about to take off the   *)
(* topic, or has a removal on its way; a socket that listens has its       *)
(* account in the set once its SADD was answered.                          *)
(***************************************************************************)
(* Sockets whose disconnect has only to clear their channels *)
Inside == {drop[x].conn : x \in {y \in Agents : drop[y].pc = "ending"}}

Backing(a) == (Of(a) \cap channels) \ (Inside \cup cut)

Sure == Accounts \ unsure

Apart == \A a \in Sure : ~(Removing(a) /\ Arriving(a))

Listed ==
  \A a \in Sure : \A d \in Of(a) :
    d \in registered \cap channels /\ handler[d] \notin {"adding", "broken"} => a \in present

Backed == \A a \in Sure : Claims(a) => Backing(a) # {} \/ Removing(a)

SetInv == Apart /\ Listed /\ Backed

-----------------------------------------------------------------------------
LEMMA NoteApart ==
  ASSUME Note
  PROVE  Apart' /\ Sure' \subseteq Sure
  BY DEF Note, Apart, Sure

(* A registered socket is in no disconnect, nor was it cut off in one. *)
LEMMA RegisteredIsOutside ==
  ASSUME Inv
  PROVE  \A c \in registered : c \notin Inside \cup cut
  BY DEF Inv, DropsHold, DropHolds, Inside, LeftBehind

LEMMA FreeIsOutside ==
  ASSUME Inv, NEW c \in Conns, lock[InstanceOf[c]] = Free
  PROVE  c \notin Inside
  BY FreeMeansNoDrop DEF InDrop, Inside

LEMMA SetInit == Init => SetInv
  BY DEF Init, SetInv, Apart, Listed, Backed, Claims, Removing, Arriving, NoDrop, Of

-----------------------------------------------------------------------------
LEMMA ConnectSet ==
  ASSUME Inv, SetInv, NEW c \in Conns, Connect(c)
  PROVE  SetInv'
  <1> USE DEF Connect, SetInv, dicts, left, bounds
  <1>1. Apart' /\ Sure' \subseteq Sure
    BY NoteApart
  <1>2. /\ c \notin channels
        /\ \A d \in Conns : d # c => handler'[d] = handler[d]
        /\ handler'[c] = "idle" /\ handler[c] = "off"
    BY DEF Inv, TypeOK, NoGhost
  <1>3. Listed'
    BY <1>1, <1>2 DEF Listed, Of
  <1>4. \A a \in Accounts : /\ Removing(a) <=> Removing(a)'
                            /\ Claims(a) <=> Claims(a)'
    BY <1>2 DEF Removing, Claims, Of
  <1>5. \A a \in Accounts : Backing(a)' = Backing(a)
    BY DEF Backing, Inside, Of
  <1>6. Backed'
    BY <1>1, <1>4, <1>5 DEF Backed, Sure
  <1> QED
    BY <1>1, <1>3, <1>6

LEMMA SubscribeSet ==
  ASSUME Inv, SetInv, NEW c \in Conns, Subscribe(c)
  PROVE  SetInv'
  <1> USE DEF Subscribe, SetInv, dicts, left, bounds
  <1>1. Apart' /\ Sure' \subseteq Sure
    BY NoteApart
  <1>2. /\ \A d \in Conns : d # c => handler'[d] = handler[d]
        /\ handler'[c] = "adding" /\ handler[c] = "idle"
        /\ c \notin Inside /\ Inside' = Inside
    BY FreeIsOutside DEF Inv, TypeOK, Inside
  <1>3. Listed'
    BY <1>1, <1>2 DEF Listed, Of
  <1>4. \A a \in Accounts : Removing(a) <=> Removing(a)'
    BY <1>2 DEF Removing, Of
  <1>5. Backed'
    <2> SUFFICES ASSUME NEW a \in Sure', Claims(a)'
                 PROVE  Backing(a)' # {} \/ Removing(a)'
      BY DEF Backed
    <2>1. CASE AccountOf[c] = a
      BY <1>2, <2>1 DEF Backing, Of
    <2>2. CASE AccountOf[c] # a
      <3>1. Claims(a)
        BY <1>2, <2>2 DEF Claims, Of
      <3>2. Backing(a) \subseteq Backing(a)'
        BY <1>2 DEF Backing, Of
      <3> QED
        BY <1>1, <1>4, <3>1, <3>2 DEF Backed, Sure
    <2> QED
      BY <2>1, <2>2
  <1> QED
    BY <1>1, <1>3, <1>5

LEMMA PresenceAddSet ==
  ASSUME Inv, SetInv, NEW c \in Conns, PresenceAdd(c)
  PROVE  SetInv'
  <1> USE DEF PresenceAdd, SetInv, dicts, left, bounds
  <1>1. Apart' /\ Sure' \subseteq Sure
    BY NoteApart
  <1>2. /\ \A d \in Conns : d # c => handler'[d] = handler[d]
        /\ handler'[c] = "idle" /\ handler[c] = "adding"
        /\ Inside' = Inside
    BY DEF Inv, TypeOK, Inside
  <1>3. Listed'
    BY <1>1, <1>2 DEF Listed, Of
  <1>4. \A a \in Accounts : /\ Removing(a) <=> Removing(a)'
                            /\ Claims(a)' => Claims(a)
                            /\ Backing(a)' = Backing(a)
    BY <1>2 DEF Removing, Claims, Backing, Of
  <1>5. Backed'
    BY <1>1, <1>4 DEF Backed, Sure
  <1> QED
    BY <1>1, <1>3, <1>5

LEMMA UnsubscribeSet ==
  ASSUME Inv, SetInv, NEW c \in Conns, Unsubscribe(c)
  PROVE  SetInv'
  <1> USE DEF Unsubscribe, SetInv, dicts, left, bounds
  <1>1. Apart' /\ Sure' \subseteq Sure
    BY NoteApart
  <1>2. /\ \A d \in Conns : d # c => handler'[d] = handler[d]
        /\ handler'[c] \in {"idle", "removing"} /\ handler[c] = "idle"
        /\ Inside' = Inside
    BY DEF Inv, TypeOK, Inside
  <1>3. Listed'
    BY <1>1, <1>2 DEF Listed, Of
  <1>4. \A a \in Accounts : /\ Removing(a) => Removing(a)'
                            /\ Claims(a)' => Claims(a)
    BY <1>2 DEF Removing, Claims, Of
  <1>5. Backed'
    <2> SUFFICES ASSUME NEW a \in Sure', Claims(a)'
                 PROVE  Backing(a)' # {} \/ Removing(a)'
      BY DEF Backed
    <2>1. CASE AccountOf[c] = a /\ handler'[c] = "removing"
      BY <2>1 DEF Removing, Of
    <2>2. CASE AccountOf[c] = a /\ handler'[c] = "idle"
      <3>1. PICK q \in registered \cap (channels \ {c}) : AccountOf[q] = AccountOf[c]
        BY <2>2 DEF StillLocal, Inv, TypeOK
      <3>2. q \in Backing(a)'
        BY <1>2, <2>2, <3>1, RegisteredIsOutside DEF Backing, Of, Inv, TypeOK
      <3> QED
        BY <3>2
    <2>3. CASE AccountOf[c] # a
      <3>1. Backing(a)' = Backing(a)
        BY <1>2, <2>3 DEF Backing, Of
      <3> QED
        BY <1>1, <1>4, <3>1 DEF Backed, Sure
    <2> QED
      BY <1>2, <2>1, <2>2, <2>3
  <1> QED
    BY <1>1, <1>3, <1>5

(* The removal of an account that is sure finds no socket of it listening   *)
(* and none arriving.                                                       *)
LEMMA RemovalIsRight ==
  ASSUME SetInv, NEW a \in Sure, Removing(a)
  PROVE  /\ \A d \in Of(a) : d \notin registered \cap channels /\ handler[d] # "adding"
  BY DEF SetInv, Apart, Arriving

LEMMA PresenceRemoveSet ==
  ASSUME Inv, SetInv, NEW c \in Conns, PresenceRemove(c)
  PROVE  SetInv'
  <1> USE DEF PresenceRemove, dicts, left, bounds
  <1>1. Apart' /\ Sure' \subseteq Sure
    BY NoteApart
  <1>2. /\ \A d \in Conns : d # c => handler'[d] = handler[d]
        /\ handler'[c] = "idle" /\ handler[c] = "removing"
        /\ Inside' = Inside /\ Removing(AccountOf[c])
    BY DEF Inv, TypeOK, Inside, Removing, Of
  <1>3. Listed'
    BY <1>1, <1>2, RemovalIsRight DEF SetInv, Listed, Of
  <1>4. Backed'
    <2> SUFFICES ASSUME NEW a \in Sure', Claims(a)'
                 PROVE  Backing(a)' # {} \/ Removing(a)'
      BY DEF Backed
    <2>1. CASE AccountOf[c] = a
      BY <1>1, <1>2, <2>1, RemovalIsRight DEF Claims, Of
    <2>2. CASE AccountOf[c] # a
      <3>1. Backing(a)' = Backing(a) /\ Claims(a) /\ (Removing(a) => Removing(a)')
        BY <1>2, <2>2 DEF Backing, Claims, Removing, Of
      <3> QED
        BY <1>1, <3>1 DEF SetInv, Backed, Sure
    <2> QED
      BY <2>1, <2>2
  <1> QED
    BY <1>1, <1>3, <1>4 DEF SetInv

-----------------------------------------------------------------------------
(* disconnect begins: a socket that does not listen backs nobody. *)
LEMMA BeginSet ==
  ASSUME Inv, SetInv, NEW x \in Agents, NEW c \in Conns, Begin(x, c), InstanceOf[c] = Home(x),
         handler' = [handler EXCEPT ![c] = "closing"] \/ UNCHANGED handler,
         handler' = handler \/ handler[c] \in {"idle", "broken"}
  PROVE  SetInv'
  <1> USE DEF Begin, SetInv, dicts, left, bounds
  <1>1. Apart' /\ Sure' \subseteq Sure
    BY NoteApart
  <1>2. /\ \A d \in Conns : d # c => handler'[d] = handler[d]
        /\ \/ handler'[c] = handler[c] /\ handler' = handler
           \/ handler[c] \in {"idle", "broken"} /\ handler'[c] = "closing"
        /\ drop[x].pc = "no" /\ drop'[x].conn = c
        /\ drop'[x].pc = IF c \in channels THEN "leaving" ELSE "ending"
        /\ \A y \in Agents : y # x => drop'[y] = drop[y]
    BY FreeMeansNoDrop DEF Inv, TypeOK
  <1>3. Listed'
    BY <1>1, <1>2 DEF Listed, Of
  <1>4. \A a \in Accounts : /\ Removing(a) <=> Removing(a)'
                            /\ Claims(a)' <=> Claims(a)
    BY <1>2 DEF Removing, Claims, Of
  <1>5. \A a \in Accounts : Backing(a)' = Backing(a)
    <2>1. IF c \in channels THEN Inside' = Inside ELSE Inside' \subseteq Inside \cup {c}
      BY <1>2 DEF Inside
    <2>2. Inside \subseteq Inside'
      BY <1>2 DEF Inside
    <2> QED
      BY <2>1, <2>2 DEF Backing, Of
  <1>6. Backed'
    BY <1>1, <1>4, <1>5 DEF Backed, Sure
  <1> QED
    BY <1>1, <1>3, <1>6

LEMMA CloseSet ==
  ASSUME Inv, SetInv, NEW c \in Conns, Close(c)
  PROVE  SetInv'
  BY BeginSet, Places DEF Close

LEMMA SendFailsSet ==
  ASSUME Inv, SetInv, NEW i \in Instances, SendFails(i)
  PROVE  SetInv'
  <1>1. PICK c \in Conns : InstanceOf[c] = i /\ Begin(i, c)
    BY DEF SendFails, Inv, TypeOK
  <1>2. UNCHANGED handler
    BY DEF SendFails
  <1> QED
    BY <1>1, <1>2, BeginSet, Places

LEMMA LeaveSet ==
  ASSUME Inv, SetInv, NEW x \in Agents, Leave(x)
  PROVE  SetInv'
  <1> DEFINE c == drop[x].conn
  <1> USE DEF Leave, SetInv, dicts, left, bounds
  <1>1. Apart' /\ Sure' \subseteq Sure
    BY NoteApart
  <1>2. /\ drop'[x].pc = (IF StillLocal(c, registered, channels) THEN "ending" ELSE "removing")
        /\ drop'[x].conn = c /\ drop[x].pc = "leaving"
        /\ \A y \in Agents : y # x => drop'[y] = drop[y]
        /\ c \in Conns
    BY DEF Inv, TypeOK, DropsHold, DropHolds
  <1>3. Listed'
    BY <1>1 DEF Listed, Of
  <1>4. \A a \in Accounts : /\ Removing(a) => Removing(a)'
                            /\ Claims(a)' <=> Claims(a)
    BY <1>2 DEF Removing, Claims, Of
  <1>5. Inside' \subseteq Inside \cup {c}
    BY <1>2 DEF Inside
  <1>6. Backed'
    <2> SUFFICES ASSUME NEW a \in Sure', Claims(a)'
                 PROVE  Backing(a)' # {} \/ Removing(a)'
      BY DEF Backed
    <2>1. CASE AccountOf[c] = a /\ ~StillLocal(c, registered, channels)
      BY <1>2, <2>1 DEF Removing, Of
    <2>2. CASE AccountOf[c] = a /\ StillLocal(c, registered, channels)
      <3>1. PICK q \in registered \cap channels : AccountOf[q] = AccountOf[c]
        BY <2>2 DEF StillLocal
      <3>2. q \notin Inside \cup cut /\ q # c
        BY <3>1, <1>2, RegisteredIsOutside DEF Inv, DropsHold, DropHolds
      <3>3. q \in Backing(a)'
        BY <1>5, <2>2, <3>1, <3>2 DEF Backing, Of, Inv, TypeOK
      <3> QED
        BY <3>3
    <2>3. CASE AccountOf[c] # a
      <3>1. Backing(a) \subseteq Backing(a)'
        BY <1>5, <2>3 DEF Backing, Of
      <3> QED
        BY <1>1, <1>4, <3>1 DEF Backed, Sure
    <2> QED
      BY <2>1, <2>2, <2>3
  <1> QED
    BY <1>1, <1>3, <1>6

LEMMA LeaveRemoveSet ==
  ASSUME Inv, SetInv, NEW x \in Agents, LeaveRemove(x)
  PROVE  SetInv'
  <1> DEFINE c == drop[x].conn
  <1> USE DEF LeaveRemove, dicts, left, bounds
  <1>1. Apart' /\ Sure' \subseteq Sure
    BY NoteApart
  <1>2. /\ drop'[x].pc = "ending" /\ drop'[x].conn = c /\ drop[x].pc = "removing"
        /\ \A y \in Agents : y # x => drop'[y] = drop[y]
        /\ c \in Conns /\ Removing(AccountOf[c])
    BY DEF Inv, TypeOK, DropsHold, DropHolds, Removing
  <1>3. Listed'
    BY <1>1, <1>2, RemovalIsRight DEF SetInv, Listed, Of
  <1>4. Inside' \subseteq Inside \cup {c}
    BY <1>2 DEF Inside
  <1>5. Backed'
    <2> SUFFICES ASSUME NEW a \in Sure', Claims(a)'
                 PROVE  Backing(a)' # {} \/ Removing(a)'
      BY DEF Backed
    <2>1. CASE AccountOf[c] = a
      BY <1>1, <1>2, <2>1, RemovalIsRight DEF Claims, Of
    <2>2. CASE AccountOf[c] # a
      <3>1. Backing(a) \subseteq Backing(a)' /\ Claims(a) /\ (Removing(a) => Removing(a)')
        BY <1>2, <1>4, <2>2 DEF Backing, Claims, Removing, Of
      <3> QED
        BY <1>1, <3>1 DEF SetInv, Backed, Sure
    <2> QED
      BY <2>1, <2>2
  <1> QED
    BY <1>1, <1>3, <1>5 DEF SetInv

(* disconnect ends: its socket backed nobody any more. *)
LEMMA EndSet ==
  ASSUME Inv, SetInv, NEW x \in Agents, End(x)
  PROVE  SetInv'
  <1> DEFINE c == drop[x].conn
  <1> USE DEF End, SetInv, dicts, left, bounds, Returns
  <1>1. Apart' /\ Sure' \subseteq Sure
    BY NoteApart
  <1>2. /\ drop'[x].pc = "no" /\ drop[x].pc = "ending"
        /\ \A y \in Agents : y # x => drop'[y] = drop[y]
        /\ c \in Conns /\ c \in Inside
    BY DEF Inv, TypeOK, DropsHold, DropHolds, NoDrop, Inside
  <1>3. \A d \in Conns : handler'[d] = handler[d] \/ (handler[d] = "closing" /\ handler'[d] = "off")
    BY <1>2 DEF Inv, TypeOK, ClosingDrops
  <1>4. Listed'
    BY <1>1, <1>3 DEF Listed, Of
  <1>5. \A a \in Accounts : /\ Removing(a) => Removing(a)'
                            /\ Claims(a)' => Claims(a)
    BY <1>2, <1>3 DEF Removing, Claims, Of
  <1>6. Inside' \subseteq Inside
    BY <1>2 DEF Inside
  <1>7. \A a \in Accounts : Backing(a) \subseteq Backing(a)'
    BY <1>2, <1>6 DEF Backing, Of
  <1>8. Backed'
    BY <1>1, <1>5, <1>7 DEF Backed, Sure
  <1> QED
    BY <1>1, <1>4, <1>8

(* A crash says nothing of the accounts it disconnects, and the sockets of  *)
(* the others live elsewhere.                                               *)
LEMMA CrashSet ==
  ASSUME Inv, SetInv, NEW i \in Instances, Crash(i)
  PROVE  SetInv'
  <1> DEFINE here == {c \in Conns : InstanceOf[c] = i}
  <1> USE DEF Crash, SetInv, dicts, left, bounds
  <1>1. Sure' \subseteq Sure
    BY DEF Sure
  <1>2. \A a \in Sure' : \A c \in Of(a) : c \in Conns /\ InstanceOf[c] # i
    BY DEF Sure, Of
  <1>3. /\ \A x \in Agents : IF Home(x) = i THEN drop'[x].pc = "no" ELSE drop'[x] = drop[x]
        /\ \A c \in Conns : InstanceOf[c] # i => handler'[c] = handler[c]
        /\ registered' = registered \ here /\ channels' = channels \ here
        /\ \A x \in Agents : drop[x].pc # "no" => InstanceOf[drop[x].conn] = Home(x)
        /\ \A x \in Agents : drop[x].pc # "no" => drop[x].conn \in Conns
    BY DEF Inv, TypeOK, NoDrop, DropsHold, DropHolds
  <1>4. \A a \in Sure' : /\ Removing(a)' <=> Removing(a)
                         /\ Arriving(a)' <=> Arriving(a)
                         /\ Claims(a)' <=> Claims(a)
    <2> TAKE a \in Sure'
    <2>1. \A c \in Of(a) : handler'[c] = handler[c]
      BY <1>2, <1>3
    <2>2. \A x \in Agents : drop'[x].pc = "removing" => drop'[x] = drop[x]
      BY <1>3
    <2>3. \A x \in Agents :
            drop[x].pc = "removing" /\ AccountOf[drop[x].conn] = a => drop'[x] = drop[x]
      BY <1>2, <1>3 DEF Of
    <2>4. Removing(a)' <=> Removing(a)
      BY <2>1, <2>2, <2>3 DEF Removing, Of
    <2>5. Arriving(a)' <=> Arriving(a)
      BY <1>2, <1>3 DEF Arriving, Of
    <2>6. Claims(a)' <=> Claims(a)
      BY <1>2, <1>3 DEF Claims, Of
    <2> QED
      BY <2>4, <2>5, <2>6
  <1>5. Apart'
    BY <1>1, <1>4 DEF Apart
  <1>6. Listed'
    BY <1>1, <1>2, <1>3 DEF Listed, Of
  <1>7. \A a \in Sure' : Backing(a) \subseteq Backing(a)'
    <2>1. \A x \in Agents : drop'[x].pc = "ending" => drop[x] = drop'[x]
      BY <1>3
    <2>2. Inside' \subseteq Inside
      BY <2>1 DEF Inside
    <2> QED
      BY <1>2, <1>3, <2>2 DEF Backing, Of
  <1>8. Backed'
    BY <1>1, <1>4, <1>7 DEF Backed
  <1> QED
    BY <1>5, <1>6, <1>8

-----------------------------------------------------------------------------
(* The calls that fail *)
LEMMA PersonalAddFailsSet ==
  ASSUME Inv, SetInv, NEW c \in Conns, PersonalAddFails(c)
  PROVE  SetInv'
  <1> USE DEF PersonalAddFails, SetInv
  <1>1. Apart' /\ Sure' \subseteq Sure
    BY NoteApart
  <1>2. c \notin channels
    BY DEF Inv, NoGhost
  <1>3. Listed'
    BY <1>1, <1>2 DEF Listed, Of
  <1>4. \A a \in Accounts : /\ Removing(a) <=> Removing(a)'
                            /\ Claims(a) <=> Claims(a)'
    BY DEF Removing, Claims, Of
  <1>5. \A a \in Accounts : Backing(a)' = Backing(a)
    BY DEF Backing, Inside, Of
  <1>6. Backed'
    BY <1>1, <1>4, <1>5 DEF Backed, Sure
  <1> QED
    BY <1>1, <1>3, <1>6

LEMMA AddFailsSet ==
  ASSUME Inv, SetInv, NEW c \in Conns, AddFails(c)
  PROVE  SetInv'
  <1> USE DEF AddFails, SetInv, dicts, left
  <1>1. Apart' /\ Sure' \subseteq Sure
    BY NoteApart
  <1>2. /\ \A d \in Conns : d # c => handler'[d] = handler[d]
        /\ handler'[c] = "broken" /\ handler[c] = "adding"
        /\ Inside' = Inside /\ present \subseteq present'
    BY DEF Inv, TypeOK, Inside
  <1>3. Listed'
    BY <1>1, <1>2 DEF Listed, Of
  <1>4. \A a \in Accounts : /\ Removing(a) <=> Removing(a)'
                            /\ Claims(a)' => Claims(a)
                            /\ Backing(a)' = Backing(a)
    BY <1>2 DEF Removing, Claims, Backing, Of
  <1>5. Backed'
    BY <1>1, <1>4 DEF Backed, Sure
  <1> QED
    BY <1>1, <1>3, <1>5

LEMMA RemoveFailsSet ==
  ASSUME Inv, SetInv, NEW c \in Conns, RemoveFails(c)
  PROVE  SetInv'
  <1> USE DEF RemoveFails, dicts, left
  <1>1. Sure' \subseteq Sure /\ \A a \in Sure' : Claims(a)' => AccountOf[c] # a
    BY DEF Missed, Sure
  <1>2. /\ \A d \in Conns : d # c => handler'[d] = handler[d]
        /\ handler'[c] = "broken" /\ handler[c] = "removing"
        /\ Inside' = Inside /\ Removing(AccountOf[c])
    BY DEF Inv, TypeOK, Inside, Removing, Of
  <1>3. Apart'
    <2>1. \A a \in Accounts : /\ Removing(a)' => Removing(a)
                              /\ Arriving(a)' => Arriving(a)
      BY <1>2 DEF Removing, Arriving, Of
    <2> QED
      BY <1>1, <2>1 DEF SetInv, Apart, Sure
  <1>4. Listed'
    BY <1>1, <1>2, RemovalIsRight DEF SetInv, Listed, Of
  <1>5. Backed'
    <2> SUFFICES ASSUME NEW a \in Sure', Claims(a)'
                 PROVE  Backing(a)' # {} \/ Removing(a)'
      BY DEF Backed
    <2>1. Backing(a)' = Backing(a) /\ Claims(a) /\ (Removing(a) => Removing(a)')
      BY <1>1, <1>2 DEF Backing, Claims, Removing, Of
    <2> QED
      BY <1>1, <2>1 DEF SetInv, Backed, Sure
  <1> QED
    BY <1>3, <1>4, <1>5 DEF SetInv

(* The account of a disconnect that failed before its removal was made is   *)
(* not sure; after it the socket backed nobody.                             *)
LEMMA DropFailsSet ==
  ASSUME Inv, SetInv, NEW x \in Agents, DropFails(x)
  PROVE  SetInv'
  <1> DEFINE c == drop[x].conn
  <1> USE DEF DropFails, dicts, Returns
  <1>1. /\ Sure' \subseteq Sure
        /\ \A a \in Sure' : Claims(a)' /\ drop[x].pc # "ending" => AccountOf[c] # a
    BY DEF Missed, Sure
  <1>2. /\ drop'[x].pc = "no" /\ drop[x].pc # "no" /\ c \in Conns
        /\ \A y \in Agents : y # x => drop'[y] = drop[y]
        /\ cut' = cut \cup ({c} \cap channels)
        /\ present' = present \/ (drop[x].pc = "removing" /\ present' = present \ {AccountOf[c]})
    BY DEF Inv, TypeOK, DropsHold, DropHolds, NoDrop
  <1>3. \A d \in Conns : handler'[d] = handler[d] \/ (handler[d] = "closing" /\ handler'[d] = "off")
    BY <1>2 DEF Inv, TypeOK, ClosingDrops
  <1>4. Apart'
    <2>1. \A a \in Accounts : /\ Removing(a)' => Removing(a)
                              /\ Arriving(a)' => Arriving(a)
      BY <1>2, <1>3 DEF Removing, Arriving, Of
    <2> QED
      BY <1>1, <2>1 DEF SetInv, Apart, Sure
  <1>5. drop[x].pc = "removing" => Removing(AccountOf[c])
    BY DEF Removing
  <1>6. Listed'
    BY <1>1, <1>2, <1>3, <1>5, RemovalIsRight DEF SetInv, Listed, Of
  <1>7. Backed'
    <2> SUFFICES ASSUME NEW a \in Sure', Claims(a)'
                 PROVE  Backing(a)' # {} \/ Removing(a)'
      BY DEF Backed
    <2>1. Claims(a)
      BY <1>2, <1>3 DEF Claims, Of
    <2>2. Removing(a) => Removing(a)'
      BY <1>1, <1>2, <1>3 DEF Removing, Of
    <2>3. Inside' \subseteq Inside
      BY <1>2 DEF Inside
    <2>4. drop[x].pc = "ending" => c \in Inside
      BY DEF Inside
    <2>5. Backing(a) \subseteq Backing(a)'
      BY <1>1, <1>2, <2>3, <2>4 DEF Backing, Of
    <2> QED
      BY <1>1, <2>1, <2>2, <2>5 DEF SetInv, Backed, Sure
  <1> QED
    BY <1>4, <1>6, <1>7 DEF SetInv

-----------------------------------------------------------------------------
THEOREM SetNext == Inv /\ SetInv /\ [Next]_vars => SetInv'
  <1> SUFFICES ASSUME Inv, SetInv, [Next]_vars
               PROVE  SetInv'
    OBVIOUS
  <1>1. CASE UNCHANGED vars
    BY <1>1 DEF vars, dicts, left, SetInv, Apart, Listed, Backed, Sure, Claims, Backing, Inside,
                Removing, Arriving, Of
  <1>2. CASE \E c \in Conns : \/ Connect(c) \/ Subscribe(c) \/ Unsubscribe(c) \/ Close(c)
                              \/ PresenceAdd(c) \/ PresenceRemove(c) \/ CallFails(c)
    BY <1>2, ConnectSet, SubscribeSet, UnsubscribeSet, CloseSet, PresenceAddSet, PresenceRemoveSet,
       PersonalAddFailsSet, AddFailsSet, RemoveFailsSet DEF CallFails
  <1>3. CASE \E i \in Instances : SendFails(i) \/ Crash(i)
    BY <1>3, SendFailsSet, CrashSet
  <1>4. CASE \E x \in Agents : DropStep(x)
    BY <1>4, LeaveSet, LeaveRemoveSet, EndSet, DropFailsSet DEF DropStep
  <1> QED
    BY <1>1, <1>2, <1>3, <1>4 DEF Next

(* _presence_add and _presence_remove: once the calls of an account have     *)
(* ended the Redis set is right about it, unless a removal of it raced with  *)
(* an arrival or was never made, or one of its backends stopped.             *)
THEOREM PresenceAlwaysExact == Spec => []PresenceExact
  <1>1. Inv /\ SetInv => PresenceExact
    <2> SUFFICES ASSUME Inv, SetInv, NEW a \in Accounts \ unsure, Settled(a)
                 PROVE  /\ Of(a) \cap registered \cap channels # {} => a \in present
                        /\ a \in present => (Of(a) \cap channels) \ cut # {}
      BY DEF PresenceExact
    <2>1. ~Removing(a)
      BY DEF Settled, Removing, Of, Inv, DropsHold, DropHolds
    <2>2. Of(a) \cap registered \cap channels # {} => a \in present
      BY DEF SetInv, Listed, Sure, Settled
    <2>3. a \in present => (Of(a) \cap channels) \ cut # {}
      BY <2>1 DEF SetInv, Backed, Sure, Claims, Backing
    <2> QED
      BY <2>2, <2>3
  <1>2. Init => SetInv
    BY SetInit
  <1>3. Inv /\ SetInv /\ [Next]_vars => SetInv'
    BY SetNext
  <1> QED
    BY <1>1, <1>2, <1>3, Invariant, PTL DEF Spec
=============================================================================
