------------------------------ MODULE Presence ------------------------------
(***************************************************************************)
(* The ConnectionManager (realtime/manager.py) for one topic: which        *)
(* sockets listen to it, in the memory of each backend, and which accounts *)
(* are present, in a Redis set that all backends share.                    *)
(*                                                                         *)
(* A socket is served by its handler, one message after the other.  The    *)
(* listener task of a backend delivers events to its sockets, and drops a  *)
(* socket that cannot be written to while the handler is still at work.    *)
(* A call to Redis may fail, with or without having changed the set: what  *)
(* the handler or disconnect had still to do is then left undone.          *)
(***************************************************************************)
EXTENDS Naturals

CONSTANTS
  Accounts, Conns, Instances,
  AccountOf,    \* the account of a socket
  InstanceOf,   \* the backend that serves a socket
  Free, NoConn,
  MaxCrashes,   \* bound on backends that stop without disconnecting anybody
  MaxFailures   \* bound on calls to Redis that fail

ASSUME ConnAssumption ==
  AccountOf \in [Conns -> Accounts] /\ InstanceOf \in [Conns -> Instances]
ASSUME NamesAssumption ==
  /\ Free \notin Conns \cup Instances /\ NoConn \notin Conns
  /\ Conns \cap Instances = {}
ASSUME BoundAssumption == MaxCrashes \in Nat /\ MaxFailures \in Nat

(* disconnect runs in the handler of the socket or in the listener. *)
Agents == Conns \cup Instances

VARIABLES
  registered,   \* manager.connections
  channels,     \* sockets whose Connection.channels holds the topic
  peers,        \* manager.channel_peers of the topic
  lock,         \* manager._lock of each backend: the agent that holds it
  handler,      \* where the handler of each socket is
  drop,         \* the disconnect() each agent is in
  present,      \* the Redis set adda:presence:<topic>
  unsure,       \* history: accounts a removal raced with an arrival of, or failed for
  abandoned,    \* history: registered sockets whose handler ended before its try
  cut,          \* history: sockets a failing disconnect left on the topic
  crashes, failures

dicts == <<registered, channels, peers>>
left == <<abandoned, cut>>
bounds == <<crashes, failures>>
vars == <<dicts, lock, handler, drop, present, unsure, left, bounds>>

Home(x) == IF x \in Instances THEN x ELSE InstanceOf[x]

Of(a) == {c \in Conns : AccountOf[c] = a}

NoDrop == [pc |-> "no", conn |-> NoConn]

Init ==
  /\ registered = {} /\ channels = {} /\ peers = {}
  /\ lock = [i \in Instances |-> Free]
  /\ handler = [c \in Conns |-> "off"]
  /\ drop = [x \in Agents |-> NoDrop]
  /\ present = {} /\ unsure = {} /\ abandoned = {} /\ cut = {}
  /\ crashes = 0 /\ failures = 0

-----------------------------------------------------------------------------
(* History: an SREM on its way to Redis that will remove an account with a *)
(* socket that listens, or one whose SADD is on its way too.               *)

Removing(a) ==
  \/ \E c \in Of(a) : handler[c] = "removing"
  \/ \E x \in Agents : drop[x].pc = "removing" /\ AccountOf[drop[x].conn] = a

Arriving(a) == \E c \in Of(a) : handler[c] = "adding" \/ c \in registered \cap channels

Note == unsure' = unsure \cup {a \in Accounts : Removing(a)' /\ Arriving(a)'}

-----------------------------------------------------------------------------
(* The gateway accepts a socket and registers it. *)
Connect(c) ==
  /\ handler[c] = "off" /\ c \notin abandoned \cup cut
  /\ handler' = [handler EXCEPT ![c] = "idle"]
  /\ registered' = registered \cup {c}
  /\ UNCHANGED <<channels, peers, lock, drop, present, left, bounds>>
  /\ Note

Subscribe(c) ==
  /\ handler[c] = "idle" /\ lock[InstanceOf[c]] = Free
  /\ channels' = channels \cup {c}
  /\ peers' = peers \cup {c}
  /\ cut' = cut \ {c}
  /\ handler' = [handler EXCEPT ![c] = "adding"]
  /\ UNCHANGED <<registered, lock, drop, present, abandoned, bounds>>
  /\ Note

PresenceAdd(c) ==
  /\ handler[c] = "adding"
  /\ present' = present \cup {AccountOf[c]}
  /\ handler' = [handler EXCEPT ![c] = "idle"]
  /\ UNCHANGED <<dicts, lock, drop, left, bounds>>
  /\ Note

(* Faulty variant: the account's sockets count whatever they listen to. *)
StillLocalAny(c, R, C) ==
  \E q \in R : AccountOf[q] = AccountOf[c] /\ InstanceOf[q] = InstanceOf[c]

(* _presence_remove: another socket of the account listens on this backend. *)
StillLocal(c, R, C) ==
  \E q \in R \cap C : AccountOf[q] = AccountOf[c] /\ InstanceOf[q] = InstanceOf[c]

(* A socket may leave a topic it never joined. *)
Unsubscribe(c) ==
  /\ handler[c] = "idle" /\ lock[InstanceOf[c]] = Free
  /\ channels' = channels \ {c}
  /\ peers' = peers \ {c}
  /\ cut' = cut \ {c}
  /\ handler' = [handler EXCEPT ![c] = IF StillLocal(c, registered, channels \ {c})
                                       THEN "idle" ELSE "removing"]
  /\ UNCHANGED <<registered, lock, drop, present, abandoned, bounds>>
  /\ Note

PresenceRemove(c) ==
  /\ handler[c] = "removing"
  /\ present' = present \ {AccountOf[c]}
  /\ handler' = [handler EXCEPT ![c] = "idle"]
  /\ UNCHANGED <<dicts, lock, drop, left, bounds>>
  /\ Note

-----------------------------------------------------------------------------
(* disconnect, which holds the lock until the last removal was answered *)

Begin(x, c) ==
  /\ lock[Home(x)] = Free
  /\ lock' = [lock EXCEPT ![Home(x)] = x]
  /\ registered' = registered \ {c}
  /\ drop' = [drop EXCEPT ![x] = [pc |-> IF c \in channels THEN "leaving" ELSE "ending", conn |-> c]]
  /\ UNCHANGED <<channels, peers, present, left, bounds>>
  /\ Note

(* Faulty variant: a socket that is not registered has nothing to leave. *)
CloseRegistered(c) ==
  /\ handler[c] \in {"idle", "broken"}
  /\ IF c \in registered
     THEN handler' = [handler EXCEPT ![c] = "closing"] /\ Begin(c, c)
     ELSE /\ handler' = [handler EXCEPT ![c] = "off"]
          /\ UNCHANGED <<dicts, lock, drop, present, left, bounds>> /\ Note

(* The socket is closed or a call of its handler failed: the handler       *)
(* disconnects it, whether it is still registered or not.                  *)
Close(c) ==
  /\ handler[c] \in {"idle", "broken"}
  /\ handler' = [handler EXCEPT ![c] = "closing"]
  /\ Begin(c, c)

(* send_to fails for a socket the listener delivers to, on whatever topic. *)
SendFails(i) ==
  /\ drop[i].pc = "no"
  /\ UNCHANGED handler
  /\ \E c \in registered : InstanceOf[c] = i /\ Begin(i, c)

(* Faulty variant: the socket stays among the peers. *)
LeaveKeepsPeer(x) ==
  /\ drop[x].pc = "leaving"
  /\ drop' = [drop EXCEPT ![x].pc = IF StillLocal(drop[x].conn, registered, channels)
                                    THEN "ending" ELSE "removing"]
  /\ UNCHANGED <<dicts, lock, handler, present, left, bounds>>
  /\ Note

Leave(x) ==
  /\ drop[x].pc = "leaving"
  /\ peers' = peers \ {drop[x].conn}
  /\ drop' = [drop EXCEPT ![x].pc = IF StillLocal(drop[x].conn, registered, channels)
                                    THEN "ending" ELSE "removing"]
  /\ UNCHANGED <<registered, channels, lock, handler, present, left, bounds>>
  /\ Note

LeaveRemove(x) ==
  /\ drop[x].pc = "removing"
  /\ present' = present \ {AccountOf[drop[x].conn]}
  /\ drop' = [drop EXCEPT ![x].pc = "ending"]
  /\ UNCHANGED <<dicts, lock, handler, left, bounds>>
  /\ Note

(* disconnect returns or raises; a handler has then ended. *)
Returns(x) ==
  /\ drop' = [drop EXCEPT ![x] = NoDrop]
  /\ handler' = IF x \in Conns THEN [handler EXCEPT ![x] = "off"] ELSE handler
  /\ abandoned' = abandoned \ {drop[x].conn}

(* Faulty variant: the lock is kept when the socket listened to nothing. *)
EndKeepsLock(x) ==
  /\ drop[x].pc = "ending"
  /\ lock' = IF drop[x].conn \in channels THEN [lock EXCEPT ![Home(x)] = Free] ELSE lock
  /\ channels' = channels \ {drop[x].conn}
  /\ Returns(x)
  /\ cut' = cut \ {drop[x].conn}
  /\ UNCHANGED <<registered, peers, present, bounds>>
  /\ Note

End(x) ==
  /\ drop[x].pc = "ending"
  /\ channels' = channels \ {drop[x].conn}
  /\ lock' = [lock EXCEPT ![Home(x)] = Free]
  /\ Returns(x)
  /\ cut' = cut \ {drop[x].conn}
  /\ UNCHANGED <<registered, peers, present, bounds>>
  /\ Note

(* A backend stops: its memory is gone, what it wrote to Redis stays. *)
Crash(i) ==
  /\ crashes < MaxCrashes
  /\ LET here == {c \in Conns : InstanceOf[c] = i}
     IN /\ registered' = registered \ here
        /\ channels' = channels \ here
        /\ peers' = peers \ here
        /\ handler' = [c \in Conns |-> IF c \in here THEN "off" ELSE handler[c]]
        /\ drop' = [x \in Agents |-> IF Home(x) = i THEN NoDrop ELSE drop[x]]
        /\ unsure' = unsure \cup {AccountOf[c] : c \in here}
        /\ abandoned' = abandoned \ here
        /\ cut' = cut \ here
  /\ lock' = [lock EXCEPT ![i] = Free]
  /\ crashes' = crashes + 1
  /\ UNCHANGED <<present, failures>>

-----------------------------------------------------------------------------
(* A call to Redis raises.  SADD and SREM may have changed the set before  *)
(* the answer was lost.                                                    *)
Fails == failures < MaxFailures /\ failures' = failures + 1

(* The personal channel is subscribed to before the try of the gateway:    *)
(* the handler ends and nobody disconnects the socket it registered.       *)
PersonalAddFails(c) ==
  /\ Fails
  /\ handler[c] = "off" /\ c \notin abandoned \cup cut
  /\ registered' = registered \cup {c}
  /\ abandoned' = abandoned \cup {c}
  /\ UNCHANGED <<channels, peers, lock, handler, drop, present, cut, crashes>>
  /\ Note

(* The exception leaves the loop of the gateway, which ends in disconnect. *)
AddFails(c) ==
  /\ Fails
  /\ handler[c] = "adding"
  /\ present' \in {present, present \cup {AccountOf[c]}}
  /\ handler' = [handler EXCEPT ![c] = "broken"]
  /\ UNCHANGED <<dicts, lock, drop, left, crashes>>
  /\ Note

(* The account is in the set, or an SADD is about to put it there. *)
Claims(a) == a \in present \/ \E c \in Of(a) : handler[c] = "adding"

(* A removal that was not made leaves the account in the set. *)
Missed(a) == unsure' = unsure \cup {b \in {a} : Claims(b)'}

RemoveFails(c) ==
  /\ Fails
  /\ handler[c] = "removing"
  /\ present' \in {present, present \ {AccountOf[c]}}
  /\ handler' = [handler EXCEPT ![c] = "broken"]
  /\ Missed(AccountOf[c])
  /\ UNCHANGED <<dicts, lock, drop, left, crashes>>

(* A removal in disconnect fails, for this topic or for another one of the *)
(* socket, before or after it: the topics that come later are not left,    *)
(* the channels of the socket are not cleared, and the lock is given back. *)
DropFails(x) ==
  /\ Fails
  /\ drop[x].pc # "no"
  /\ lock' = [lock EXCEPT ![Home(x)] = Free]
  /\ Returns(x)
  /\ LET c == drop[x].conn
         a == AccountOf[c]
     IN /\ cut' = cut \cup ({c} \cap channels)
        /\ \/ present' = present
           \/ drop[x].pc = "removing" /\ present' = present \ {a}
        /\ IF drop[x].pc = "ending" THEN UNCHANGED unsure ELSE Missed(a)
  /\ UNCHANGED <<dicts, crashes>>

-----------------------------------------------------------------------------
DropStep(x) == Leave(x) \/ LeaveRemove(x) \/ End(x) \/ DropFails(x)

CallFails(c) == PersonalAddFails(c) \/ AddFails(c) \/ RemoveFails(c)

Next ==
  \/ \E c \in Conns : \/ Connect(c) \/ Subscribe(c) \/ Unsubscribe(c) \/ Close(c)
                      \/ PresenceAdd(c) \/ PresenceRemove(c) \/ CallFails(c)
  \/ \E i \in Instances : SendFails(i) \/ Crash(i)
  \/ \E x \in Agents : DropStep(x)

Spec == Init /\ [][Next]_vars

-----------------------------------------------------------------------------
(* Types: what the manager's dictionaries, its lock and Redis hold. *)
TypeOK ==
  /\ registered \subseteq Conns /\ channels \subseteq Conns /\ peers \subseteq Conns
  /\ lock \in [Instances -> Agents \cup {Free}]
  /\ handler \in [Conns -> {"off", "idle", "adding", "removing", "broken", "closing"}]
  /\ drop \in [Agents -> [pc : {"no", "leaving", "removing", "ending"}, conn : Conns \cup {NoConn}]]
  /\ present \subseteq Accounts /\ unsure \subseteq Accounts
  /\ abandoned \subseteq Conns /\ cut \subseteq Conns
  /\ crashes \in 0..MaxCrashes /\ failures \in 0..MaxFailures

(* disconnect and the lock: while nobody holds the lock, the two views of  *)
(* who listens, channel_peers and the channels of the connections, agree,  *)
(* but for a socket a failing disconnect stopped at, until it is left.     *)
PeersAgree ==
  \A c \in Conns \ cut : lock[InstanceOf[c]] = Free => (c \in peers <=> c \in channels)

(* A socket whose handler has ended is in none of the dictionaries, even   *)
(* when the listener dropped it before and it subscribed again.  Only the  *)
(* two failing calls leave one behind: the SADD before the try leaves it   *)
(* among the connections, an SREM in disconnect on the topic, never both.  *)
NoGhost ==
  \A c \in Conns : handler[c] = "off" =>
    /\ c \in registered => c \in abandoned
    /\ c \in channels \cup peers => c \in cut
    /\ c \notin abandoned \cap cut

(* The presence set: once its calls have ended, an account that listens is *)
(* present and one that is present has a socket that subscribed and was    *)
(* not cut off, unless a removal raced with an arrival, on this backend or *)
(* on another, or was never made because a call failed.                    *)
Settled(a) ==
  /\ \A c \in Of(a) : handler[c] \notin {"adding", "removing", "broken"}
  /\ \A x \in Agents : drop[x].conn \notin Of(a)

PresenceExact ==
  \A a \in Accounts \ unsure : Settled(a) =>
    /\ Of(a) \cap registered \cap channels # {} => a \in present
    /\ a \in present => (Of(a) \cap channels) \ cut # {}

(* disconnect and the lock: the lock of a backend is held by an agent of   *)
(* that backend that is inside disconnect, so it is given back in the end.  *)
LockHasHolder ==
  \A i \in Instances : lock[i] # Free => Home(lock[i]) = i /\ drop[lock[i]].pc # "no"
=============================================================================
