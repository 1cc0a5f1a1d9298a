------------------------------- MODULE ChatSend -------------------------------
(***************************************************************************)
(* Sending a message to the chat of one channel (chat/service/messages.py, *)
(* limits.py): the checks of send_message in their order, each a call to   *)
(* Postgres or Redis, against moderators who restrict accounts and change  *)
(* the settings, followers who come and go, and Redis keys that expire.    *)
(* The settings matter only where a request reads them, once, and may      *)
(* change at any time: a request finds any.                                *)
(*                                                                         *)
(* A socket handles one message after the other, but an account may have   *)
(* several sockets, on any backend.  The checks of their messages overlap. *)
(***************************************************************************)
EXTENDS Naturals, FiniteSets

CONSTANTS
  Accounts, Conns,
  AccountOf,    \* the account of a socket
  Texts,        \* contents that pass clean_content
  BadText,      \* a content that does not
  Burst,        \* RATE_BURST
  MaxDeaths     \* bound on handlers that end half-way

ASSUME ConnAssumption == AccountOf \in [Conns -> Accounts] /\ IsFiniteSet(Conns)
ASSUME TextAssumption == BadText \notin Texts
ASSUME BoundAssumption == Burst \in Nat \ {0} /\ MaxDeaths \in Nat

VARIABLES
  moderates,   \* accounts that can_moderate the channel
  restricted,  \* accounts with an active row in channel_bans
  following,   \* accounts with a follow row
  req,         \* the message each socket is sending
  slow,        \* accounts whose slow-mode key has time left
  rate,        \* the counter of each account, and whether it expires
  recent,      \* duplicate keys: <<account, text>>
  sent,        \* history: messages stored since the counter last expired
  spaced,      \* history: messages stored under slow mode since its key last ran out
  posted,      \* history: <<account, text>> stored since the duplicate key was set
  orphaned,    \* history: accounts a handler of which died before its EXPIRE
  deaths

vars == <<moderates, restricted, following, req, slow, rate, recent,
          sent, spaced, posted, orphaned, deaths>>
channel == <<moderates, restricted, following>>
history == <<sent, spaced, posted, orphaned, deaths>>

Sockets(a) == {c \in Conns : AccountOf[c] = a}

Fresh == [n |-> 0, expires |-> FALSE]

(* barred: why a request should be refused, known since it was loaded. *)
Idle == [pc |-> "idle", text |-> BadText, slow |-> FALSE, followersOnly |-> FALSE, barred |-> {}]

Init ==
  /\ moderates \in SUBSET Accounts
  /\ restricted = {} /\ following \in SUBSET Accounts
  /\ req = [c \in Conns |-> Idle]
  /\ slow = {} /\ rate = [a \in Accounts |-> Fresh] /\ recent = {}
  /\ sent = [a \in Accounts |-> 0] /\ spaced = [a \in Accounts |-> 0]
  /\ posted = {} /\ orphaned = {} /\ deaths = 0

-----------------------------------------------------------------------------
(* The order of the checks.  The settings are those of the community row   *)
(* that _load_channel read.                                                *)

Privileged(c) == AccountOf[c] \in moderates

At(c, pc) == req[c].pc = pc

Goto(c, pc) == req' = [req EXCEPT ![c].pc = pc]

Finish(c) == req' = [req EXCEPT ![c] = Idle]

(* clean_content comes after the rate limit. *)
Cleaned(c) == IF req[c].text = BadText THEN "reject" ELSE "dup"

PastSlow(c) == IF Privileged(c) THEN Cleaned(c) ELSE "rate"

PastFollow(c) == IF req[c].slow /\ ~Privileged(c) THEN "slow" ELSE PastSlow(c)

PastBan(c) == IF req[c].followersOnly /\ ~Privileged(c) THEN "follow" ELSE PastFollow(c)

Proceed(c, pc) == IF pc = "reject" THEN Finish(c) ELSE Goto(c, pc)

-----------------------------------------------------------------------------
(* _handle_chat and send_message *)

Reasons(c, followersOnly) ==
  LET a == AccountOf[c]
  IN (IF a \in restricted THEN {"ban"} ELSE {})
       \cup (IF followersOnly /\ a \notin following \cup moderates THEN {"follow"} ELSE {})

(* The community row with the settings is read, and the account's role. *)
Load(c) ==
  /\ At(c, "idle")
  /\ \E t \in Texts \cup {BadText}, slowMode, followersOnly \in BOOLEAN :
       req' = [req EXCEPT ![c] = [pc |-> "ban", text |-> t, slow |-> slowMode,
                                  followersOnly |-> followersOnly,
                                  barred |-> Reasons(c, followersOnly)]]
  /\ UNCHANGED <<channel, slow, rate, recent, history>>

(* Faulty variant: moderators are not checked for a ban. *)
CheckBanOfViewers(c) ==
  /\ At(c, "ban")
  /\ IF AccountOf[c] \in restricted /\ ~Privileged(c) THEN Finish(c) ELSE Proceed(c, PastBan(c))
  /\ UNCHANGED <<channel, slow, rate, recent, history>>

CheckBan(c) ==
  /\ At(c, "ban")
  /\ IF AccountOf[c] \in restricted THEN Finish(c) ELSE Proceed(c, PastBan(c))
  /\ UNCHANGED <<channel, slow, rate, recent, history>>

CheckFollow(c) ==
  /\ At(c, "follow")
  /\ IF AccountOf[c] \notin following THEN Finish(c) ELSE Proceed(c, PastFollow(c))
  /\ UNCHANGED <<channel, slow, rate, recent, history>>

(* A TTL under half a second reads as 0: the key counts as run out then. *)
CheckSlow(c) ==
  /\ At(c, "slow")
  /\ IF AccountOf[c] \in slow THEN Finish(c) ELSE Proceed(c, PastSlow(c))
  /\ UNCHANGED <<channel, slow, rate, recent, history>>

(* Faulty variant: one message more than the burst. *)
WithinOneMore(n) == n <= Burst + 1

Within(n) == n <= Burst

(* INCR; counts above Burst + 1 make no difference, so the model stops     *)
(* counting there.                                                         *)
TakeToken(c) ==
  LET a == AccountOf[c]
      n == IF rate[a].n > Burst THEN rate[a].n ELSE rate[a].n + 1
  IN /\ At(c, "rate")
     /\ rate' = [rate EXCEPT ![a].n = n]
     /\ CASE n = 1          -> Goto(c, "expire")
          [] n > 1 /\ Within(n) -> Proceed(c, Cleaned(c))
          [] OTHER          -> Finish(c)
  /\ UNCHANGED <<channel, slow, recent, history>>

(* Faulty variant: the counter is not given a life. *)
NoExpire(c) ==
  /\ At(c, "expire")
  /\ Proceed(c, Cleaned(c))
  /\ UNCHANGED <<channel, slow, rate, recent, history>>

Expire(c) ==
  /\ At(c, "expire")
  /\ rate' = [rate EXCEPT ![AccountOf[c]].expires = TRUE]
  /\ Proceed(c, Cleaned(c))
  /\ UNCHANGED <<channel, slow, recent, history>>

DupKey(c) == <<AccountOf[c], req[c].text>>

(* Faulty variant: the key is looked up and not set. *)
CheckDuplicateGet(c) ==
  /\ At(c, "dup")
  /\ IF DupKey(c) \in recent THEN Finish(c) ELSE Goto(c, "insert")
  /\ UNCHANGED <<channel, slow, rate, recent, history>>

(* SET NX *)
CheckDuplicate(c) ==
  /\ At(c, "dup")
  /\ recent' = recent \cup {DupKey(c)}
  /\ IF DupKey(c) \in recent THEN Finish(c) ELSE Goto(c, "insert")
  /\ UNCHANGED <<channel, slow, rate, history>>

(* The row is committed.  Mentions, notifications and the broadcast follow *)
(* at the end; they touch nothing that is modelled here.                   *)
Insert(c) ==
  LET a == AccountOf[c]
      spacing == req[c].slow /\ ~Privileged(c)
  IN /\ At(c, "insert")
     /\ IF spacing THEN Goto(c, "start") ELSE Finish(c)
     /\ sent' = IF Privileged(c) THEN sent ELSE [sent EXCEPT ![a] = @ + 1]
     /\ spaced' = IF spacing THEN [spaced EXCEPT ![a] = @ + 1] ELSE spaced
     /\ posted' = posted \cup {<<a, req[c].text>>}
  /\ UNCHANGED <<channel, slow, rate, recent, orphaned, deaths>>

(* Faulty variant: the key is not set. *)
StartSlowNever(c) ==
  /\ At(c, "start")
  /\ Finish(c)
  /\ UNCHANGED <<channel, slow, rate, recent, history>>

StartSlow(c) ==
  /\ At(c, "start")
  /\ slow' = slow \cup {AccountOf[c]}
  /\ Finish(c)
  /\ UNCHANGED <<channel, rate, recent, history>>

(* A call of the handler raises, or the backend stops. *)
Dies(c) ==
  /\ deaths < MaxDeaths /\ ~At(c, "idle")
  /\ deaths' = deaths + 1
  /\ orphaned' = IF At(c, "expire") THEN orphaned \cup {AccountOf[c]} ELSE orphaned
  /\ Finish(c)
  /\ UNCHANGED <<channel, slow, rate, recent, sent, spaced, posted>>

-----------------------------------------------------------------------------
(* What happens meanwhile *)

(* ban_user commits.  "ban" is not yet a reason for requests under way. *)
BanUser(a) ==
  /\ a \notin restricted
  /\ restricted' = restricted \cup {a}
  /\ UNCHANGED <<moderates, following, req, slow, rate, recent, history>>

Excuse(a, reason) ==
  req' = [c \in Conns |-> IF AccountOf[c] = a THEN [req[c] EXCEPT !.barred = @ \ {reason}] ELSE req[c]]

(* lift, or the end of a timeout *)
Free(a) ==
  /\ a \in restricted
  /\ restricted' = restricted \ {a}
  /\ Excuse(a, "ban")
  /\ UNCHANGED <<moderates, following, slow, rate, recent, history>>

Follow(a) ==
  /\ a \notin following
  /\ following' = following \cup {a}
  /\ Excuse(a, "follow")
  /\ UNCHANGED <<moderates, restricted, slow, rate, recent, history>>

Unfollow(a) ==
  /\ a \in following
  /\ following' = following \ {a}
  /\ UNCHANGED <<moderates, restricted, req, slow, rate, recent, history>>

SlowEnds(a) ==
  /\ a \in slow
  /\ slow' = slow \ {a}
  /\ spaced' = [spaced EXCEPT ![a] = 0]
  /\ UNCHANGED <<channel, req, rate, recent, sent, posted, orphaned, deaths>>

RateEnds(a) ==
  /\ rate[a].expires
  /\ rate' = [rate EXCEPT ![a] = Fresh]
  /\ sent' = [sent EXCEPT ![a] = 0]
  /\ UNCHANGED <<channel, req, slow, recent, spaced, posted, orphaned, deaths>>

(* DUPLICATE_SECONDS are much longer than what lies between SET and the    *)
(* commit.                                                                 *)
DuplicateEnds(k) ==
  /\ \A c \in Conns : At(c, "insert") => DupKey(c) # k
  /\ recent' = recent \ {k}
  /\ posted' = posted \ {k}
  /\ UNCHANGED <<channel, req, slow, rate, sent, spaced, orphaned, deaths>>

-----------------------------------------------------------------------------
SendStep(c) ==
  \/ CheckBan(c) \/ CheckFollow(c) \/ CheckSlow(c) \/ TakeToken(c) \/ Expire(c)
  \/ CheckDuplicate(c) \/ Insert(c) \/ StartSlow(c)

Next ==
  \/ \E c \in Conns : Load(c) \/ SendStep(c) \/ Dies(c)
  \/ \E a \in Accounts :
       BanUser(a) \/ Free(a) \/ Follow(a) \/ Unfollow(a) \/ SlowEnds(a) \/ RateEnds(a)
  \/ \E k \in recent : DuplicateEnds(k)

Spec == Init /\ [][Next]_vars

-----------------------------------------------------------------------------
(* Types: the rows, the keys in Redis and the requests. *)
TypeOK ==
  /\ moderates \subseteq Accounts /\ restricted \subseteq Accounts /\ following \subseteq Accounts
  /\ req \in [Conns -> [pc : {"idle", "ban", "follow", "slow", "rate", "expire", "dup", "insert",
                              "start"},
                        text : Texts \cup {BadText}, slow : BOOLEAN, followersOnly : BOOLEAN,
                        barred : SUBSET {"ban", "follow"}]]
  /\ slow \subseteq Accounts /\ recent \subseteq Accounts \X Texts
  /\ rate \in [Accounts -> [n : 0..(Burst + 1), expires : BOOLEAN]]
  /\ sent \in [Accounts -> Nat] /\ spaced \in [Accounts -> Nat]
  /\ posted \subseteq Accounts \X Texts
  /\ orphaned \subseteq Accounts /\ deaths \in 0..MaxDeaths

(* send_message, "banned or timed out, followers-only" first: a message    *)
(* that was on its way when its account was already barred, and is still,  *)
(* is not stored and leaves no mark in the limits; moderators may chat     *)
(* without following but not while banned.                                 *)
BarredStaysOut ==
  \A c \in Conns : req[c].pc \in {"slow", "rate", "expire", "dup", "insert", "start"} =>
                     req[c].barred = {}

(* Slow mode is checked before the message is stored and starts after: in  *)
(* one window an account gets through a message per socket, and one for    *)
(* every handler that died in between, and not more.                       *)
SlowModeHolds == \A a \in Accounts : spaced[a] <= Cardinality(Sockets(a)) + deaths

(* The counter is taken before the message is stored: in one window an     *)
(* account gets through a burst, and what was on its way before it.        *)
RateHolds == \A a \in Accounts : sent[a] <= Burst + Cardinality(Sockets(a))

(* take_rate_token: a counter without a life of its own, which would shut  *)
(* the account out for good, has a handler that is about to give it one,   *)
(* unless that handler died.                                               *)
CounterHasLife ==
  \A a \in Accounts : rate[a].n > 0 /\ ~rate[a].expires =>
    a \in orphaned \/ \E c \in Sockets(a) : At(c, "expire")

(* is_duplicate: of the same text sent by several sockets of an account at *)
(* the same time only one is stored.                                       *)
DuplicateDropped ==
  \A c \in Conns : At(c, "insert") =>
    /\ <<AccountOf[c], req[c].text>> \notin posted
    /\ \A d \in Sockets(AccountOf[c]) \ {c} : ~(At(d, "insert") /\ req[d].text = req[c].text)
=============================================================================
