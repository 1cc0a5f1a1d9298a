------------------------------ MODULE Monitor ------------------------------
(***************************************************************************)
(* The stream monitor (streaming/service/monitor.py) of every backend: it  *)
(* compares the streams the media server has with those recorded in Redis, *)
(* records each change, tells the channel and rings the followers' bells.  *)
(* The backends share Redis and the followers, and nothing keeps their     *)
(* ticks apart.  Closing the expired polls, with which a tick begins, is   *)
(* the closer of Polls.                                                    *)
(***************************************************************************)
EXTENDS Naturals

CONSTANTS
  Channels,
  Followers,     \* accounts that follow the channels with their bell on
  Backends,
  NoChannel,
  MaxChanges,    \* bound on streams that begin or end
  MaxFailures,   \* bound on calls of the media server, Redis or Postgres that fail
  MaxStops       \* bound on backends that stop

ASSUME NoChannelAssumption == NoChannel \notin Channels
ASSUME FollowersAssumption == Followers # {}
ASSUME BoundsAssumption == {MaxChanges, MaxFailures, MaxStops} \subseteq Nat

VARIABLES
  live,       \* channels with a ready path on the media server
  started,    \* keys of the Redis hash adda:stream:started
  watch,      \* the tick of each backend
  thumbs,     \* thumbs._tasks of each backend
  aired,      \* channels the last stream_status event called live
  bells,      \* went_live rows of each follower since the stream began
  mistaken,   \* history: streams an outage or two backends made look new again,
              \* or that began while the one before was being told
  missed,     \* history: streams the bells of which were cut short, or that
              \* began before the end of the one before was noticed
  astray,     \* history: channels whose last event got lost or was overtaken
  changes, failed, stops

monVars == <<live, started, watch, thumbs, aired, bells, mistaken, missed, astray,
             changes, failed, stops>>

Asleep ==
  [pc |-> "asleep", seen |-> {}, fresh |-> {}, gone |-> {}, chan |-> NoChannel, left |-> {}]

Down == [Asleep EXCEPT !.pc = "down"]

MonitorInit ==
  /\ live = {} /\ started = {} /\ aired = {}
  /\ watch = [b \in Backends |-> Asleep]
  /\ thumbs = [b \in Backends |-> {}]
  /\ bells = [c \in Channels |-> [f \in Followers |-> 0]]
  /\ mistaken = {} /\ missed = {} /\ astray = {}
  /\ changes = 0 /\ failed = 0 /\ stops = 0

-----------------------------------------------------------------------------
(* Streams: publishers connect to the media server and leave it. *)

(* Nobody is about to act on what the channel was. *)
Quiet(c) ==
  \A b \in Backends : /\ watch[b].pc # "listed" /\ watch[b].chan # c
                      /\ c \notin watch[b].fresh \cup watch[b].gone

StreamBegins(c) ==
  /\ changes < MaxChanges /\ c \notin live
  /\ live' = live \cup {c}
  /\ bells' = [bells EXCEPT ![c] = [f \in Followers |-> 0]]
  /\ mistaken' = IF Quiet(c) THEN mistaken \ {c}
                 ELSE IF \E b \in Backends : watch[b].chan = c THEN mistaken \cup {c} ELSE mistaken
  /\ missed' = IF c \in started THEN missed \cup {c} ELSE missed
  /\ changes' = changes + 1
  /\ UNCHANGED <<started, watch, thumbs, aired, astray, failed, stops>>

StreamEnds(c) ==
  /\ changes < MaxChanges /\ c \in live
  /\ live' = live \ {c}
  /\ changes' = changes + 1
  /\ UNCHANGED <<started, watch, thumbs, aired, bells, mistaken, missed, astray, failed, stops>>

-----------------------------------------------------------------------------
(* One tick: _tick, _announce and _notify_followers *)

In(b, pc) == watch[b].pc = pc

Move(b, w) == watch' = [watch EXCEPT ![b] = w]

(* The loops go on with the next channel, or the tick is over. *)
GoOn(w) ==
  IF w.fresh \cup w.gone = {} THEN Asleep
  ELSE [w EXCEPT !.pc = "working", !.chan = NoChannel, !.left = {}]

List(b) ==
  /\ In(b, "asleep")
  /\ Move(b, [Asleep EXCEPT !.pc = "listed", !.seen = live])
  /\ UNCHANGED <<live, started, thumbs, aired, bells, mistaken, missed, astray, changes, failed, stops>>

(* list_paths returns an empty list when the media server does not answer: *)
(* every stream seems to have ended.                                       *)
ListFails(b) ==
  /\ In(b, "asleep") /\ failed < MaxFailures
  /\ Move(b, [Asleep EXCEPT !.pc = "listed"])
  /\ mistaken' = mistaken \cup (live \cap started)
  /\ failed' = failed + 1
  /\ UNCHANGED <<live, started, thumbs, aired, bells, missed, astray, changes, stops>>

(* Faulty variant: thumbnails start and stop with the transitions. *)
SyncTransitions(b, ids) ==
  thumbs' = [thumbs EXCEPT ![b] = (@ \cup (ids \ started)) \ (started \ ids)]

(* thumbs.sync: a capture task for every live channel and no other.        *)
Sync(b, ids) == thumbs' = [thumbs EXCEPT ![b] = ids]

(* hkeys was answered: thumbs.sync and the two differences follow without  *)
(* an await.                                                               *)
Compare(b) ==
  LET w == watch[b]
  IN /\ In(b, "listed")
     /\ Sync(b, w.seen)
     /\ Move(b, GoOn([w EXCEPT !.seen = {}, !.fresh = w.seen \ started, !.gone = started \ w.seen]))
     /\ UNCHANGED <<live, started, aired, bells, mistaken, missed, astray, changes, failed, stops>>

(* History: another backend is about to treat c as a change of its own.    *)
Crossed(b, c, isLive) ==
  \E k \in Backends \ {b} :
    \/ In(k, "listed") /\ (c \in watch[k].seen) # isLive
    \/ c \in watch[k].fresh \cup watch[k].gone \cup {watch[k].chan}

(* The record of c is written. *)
Write(b, c, isLive) ==
  /\ started' = IF isLive THEN started \cup {c} ELSE started \ {c}
  /\ mistaken' = IF Crossed(b, c, isLive) THEN mistaken \cup {c} ELSE mistaken
  /\ astray' = IF Crossed(b, c, isLive) THEN astray \cup {c} ELSE astray \ {c}
  /\ missed' = IF isLive THEN missed \ {c} ELSE missed

RecordLive(b, c) ==
  /\ In(b, "working") /\ c \in watch[b].fresh
  /\ Write(b, c, TRUE)
  /\ Move(b, [watch[b] EXCEPT !.pc = "airing", !.fresh = @ \ {c}, !.chan = c])
  /\ UNCHANGED <<live, thumbs, aired, bells, changes, failed, stops>>

(* Faulty variant: the end of a stream is recorded, and told to nobody. *)
RecordGoneSilent(b, c) ==
  /\ In(b, "working") /\ watch[b].fresh = {} /\ c \in watch[b].gone
  /\ Write(b, c, FALSE)
  /\ Move(b, GoOn([watch[b] EXCEPT !.gone = @ \ {c}]))
  /\ UNCHANGED <<live, thumbs, aired, bells, changes, failed, stops>>

RecordGone(b, c) ==
  /\ In(b, "working") /\ watch[b].fresh = {} /\ c \in watch[b].gone
  /\ Write(b, c, FALSE)
  /\ Move(b, [watch[b] EXCEPT !.pc = "ending", !.gone = @ \ {c}, !.chan = c])
  /\ UNCHANGED <<live, thumbs, aired, bells, changes, failed, stops>>

(* _announce, after viewer_count when the stream is live. *)
Air(b) ==
  LET w == watch[b]
  IN /\ w.pc \in {"airing", "ending"}
     /\ IF w.pc = "airing"
        THEN aired' = aired \cup {w.chan} /\ Move(b, [w EXCEPT !.pc = "ringing", !.left = Followers])
        ELSE aired' = aired \ {w.chan} /\ Move(b, GoOn(w))
     /\ UNCHANGED <<live, started, thumbs, bells, mistaken, missed, astray, changes, failed, stops>>

(* notify_went_live: one follower's row is committed, then pushed. *)
Ring(b, f) ==
  LET w == watch[b]
  IN /\ w.pc = "ringing" /\ f \in w.left
     /\ bells' = [bells EXCEPT ![w.chan][f] = @ + 1]
     /\ Move(b, IF w.left = {f} THEN GoOn(w) ELSE [w EXCEPT !.left = @ \ {f}])
     /\ UNCHANGED <<live, started, thumbs, aired, mistaken, missed, astray, changes, failed, stops>>

-----------------------------------------------------------------------------
(* Failures *)

(* What a backend was doing for a channel is cut short. *)
CutShort(w) ==
  /\ astray' = IF w.pc \in {"airing", "ending"} THEN astray \cup {w.chan} ELSE astray
  /\ missed' = IF w.pc \in {"airing", "ringing"} THEN missed \cup {w.chan} ELSE missed

(* _run: an exception of hkeys, hset, hdel or the broadcast ends the tick. *)
TickFails(b) ==
  /\ watch[b].pc \in {"listed", "working", "airing", "ending"} /\ failed < MaxFailures
  /\ Move(b, Asleep)
  /\ CutShort(watch[b])
  /\ failed' = failed + 1
  /\ UNCHANGED <<live, started, thumbs, aired, bells, mistaken, changes, stops>>

(* Faulty variant: the followers are gone through again from the first. *)
RingFailsRetries(b) ==
  /\ In(b, "ringing") /\ failed < MaxFailures
  /\ Move(b, [watch[b] EXCEPT !.left = Followers])
  /\ failed' = failed + 1
  /\ UNCHANGED <<live, started, thumbs, aired, bells, mistaken, missed, astray, changes, stops>>

(* _notify_followers swallows what is raised: the followers that are left  *)
(* get nothing, and the tick goes on.                                      *)
RingFails(b) ==
  /\ In(b, "ringing") /\ failed < MaxFailures
  /\ Move(b, GoOn(watch[b]))
  /\ CutShort(watch[b])
  /\ failed' = failed + 1
  /\ UNCHANGED <<live, started, thumbs, aired, bells, mistaken, changes, stops>>

(* The process stops, or stop() cancels the task, at whichever await.      *)
BackendStops(b) ==
  /\ stops < MaxStops /\ ~In(b, "down")
  /\ Move(b, Down)
  /\ thumbs' = [thumbs EXCEPT ![b] = {}]
  /\ CutShort(watch[b])
  /\ stops' = stops + 1
  /\ UNCHANGED <<live, started, aired, bells, mistaken, changes, failed>>

(* monitor.start in the lifespan of the new process. *)
Boot(b) ==
  /\ In(b, "down")
  /\ Move(b, Asleep)
  /\ UNCHANGED <<live, started, thumbs, aired, bells, mistaken, missed, astray, changes, failed, stops>>

-----------------------------------------------------------------------------
(* What a backend does by itself as long as its calls are answered: the    *)
(* loop of _run never ends, and the container restarts a stopped backend.  *)
(* The runs assume weak fairness of it.                                    *)
WatchStep(b) ==
  \/ Boot(b) \/ List(b) \/ Compare(b) \/ Air(b)
  \/ \E c \in Channels : RecordLive(b, c) \/ RecordGone(b, c)
  \/ \E f \in Followers : Ring(b, f)

MonitorNext ==
  \/ \E c \in Channels : StreamBegins(c) \/ StreamEnds(c)
  \/ \E b \in Backends : \/ WatchStep(b)
                         \/ ListFails(b) \/ TickFails(b) \/ RingFails(b) \/ BackendStops(b)

MonitorSpec == MonitorInit /\ [][MonitorNext]_monVars

-----------------------------------------------------------------------------
(* Types: the hash, the tasks and where a tick is. *)
WatchType ==
  [pc : {"down", "asleep", "listed", "working", "airing", "ringing", "ending"},
   seen : SUBSET Channels, fresh : SUBSET Channels, gone : SUBSET Channels,
   chan : Channels \cup {NoChannel}, left : SUBSET Followers]

MonitorTypeOK ==
  /\ live \subseteq Channels /\ started \subseteq Channels /\ aired \subseteq Channels
  /\ mistaken \subseteq Channels /\ missed \subseteq Channels /\ astray \subseteq Channels
  /\ watch \in [Backends -> WatchType]
  /\ thumbs \in [Backends -> SUBSET Channels]
  /\ bells \in [Channels -> [Followers -> Nat]]
  /\ changes \in Nat /\ failed \in Nat /\ stops \in Nat

(* _tick: what the room was told last is what is recorded, once nobody is  *)
(* about to tell it, unless that event was lost with its backend or call,  *)
(* or two backends found changes of the channel at once.                   *)
AiredIsRecorded ==
  \A c \in Channels \ astray :
    (\A b \in Backends : watch[b].chan # c) => (c \in aired <=> c \in started)

(* _notify_followers: a stream rings no bell twice, whatever fails and     *)
(* stops, and every bell once when nothing did; unless an outage or two    *)
(* backends at once make it look new again.                                *)
BellOncePerStream ==
  \A c \in Channels \ mistaken : \A f \in Followers :
    /\ bells[c][f] <= 1
    /\ c \in started \ missed /\ (\A b \in Backends : watch[b].chan # c) => bells[c][f] = 1

(* _tick and thumbs.sync: whatever failed and stopped, in the end the      *)
(* record and the thumbnail tasks of every backend are those of the streams. *)
FollowsTheStreams ==
  <>[](started = live /\ \A b \in Backends : thumbs[b] = live)
=============================================================================
