-------------------------------- MODULE Polls --------------------------------
(***************************************************************************)
(* One channel poll (backend/modules/chat/service/polls.py).  Votes are    *)
(* rows in Postgres, one per account; the live tally is a Redis hash that  *)
(* each vote increments after its row is committed and that a reader       *)
(* rebuilds from the rows when it finds none; closing a poll copies the    *)
(* tally into the database and deletes the hash.                           *)
(*                                                                         *)
(* Every call to Postgres or Redis is an await: other requests run there.  *)
(* A step below is one such call and the code up to the next one.          *)
(***************************************************************************)
EXTENDS Integers, FiniteSets

CONSTANTS
  Accounts,      \* accounts that vote
  Options,       \* options of the poll
  Ballots,       \* slots for vote requests in flight
  Readers,       \* slots for coroutines that read the tally
  Updater,       \* the task of schedule_update, a reader of its own
  NoVote,        \* no row in poll_votes
  Missing,       \* no hash in Redis
  MaxLosses,     \* bound on Redis restarts
  MaxFaults,     \* bound on failed Redis calls
  MaxRestarts    \* bound on restarts of the backend

ASSUME NamesAssumption ==
  /\ NoVote \notin Options /\ Updater \notin Readers \cup Ballots
  /\ Readers \cap Ballots = {}
ASSUME BoundAssumption == {MaxLosses, MaxFaults, MaxRestarts} \subseteq Nat
ASSUME FinitenessAssumption == IsFiniteSet(Accounts) /\ IsFiniteSet(Ballots)

VARIABLES
  status,    \* polls.status, "none" before the poll
  expired,   \* closes_at has passed
  votes,     \* poll_votes: the option each account voted for
  stored,    \* poll_options.votes, written when the poll closes
  key,       \* the Redis hash adda:poll:<id>
  ballot,    \* vote requests
  reader,    \* coroutines inside state() or close()
  room,      \* the status the last poll event told the channel ("reopened":
             \* open, after the channel was told that the poll is closed)
  answered,  \* accounts whose vote request was answered 204
  due,       \* history: the answered votes when the close that committed began
  torn,      \* history: a vote was separated from its count
  late,      \* history: a vote was in flight while the poll was being closed
  lowered,   \* history: a close left a count alone that another had lowered
  losses, faults, restarts

vars == <<status, expired, votes, stored, key, ballot, reader, room,
          answered, due, torn, late, lowered, losses, faults, restarts>>

(* A vote that came over the socket goes on as a reader, in its own slot. *)
Coroutines == Readers \cup Ballots \cup {Updater}

Zero == [o \in Options |-> 0]

CountOf(S) == [o \in Options |-> Cardinality({a \in S : votes[a] = o})]

Voted == {a \in Accounts : votes[a] # NoVote}

Counts == CountOf(Voted)

NoBallot == [pc |-> "idle", account |-> NoVote, option |-> NoVote]

NoReader == [pc |-> "idle", role |-> "view", tally |-> Zero, loaded |-> Zero, acked |-> Zero]

(* A closer remembers which votes were answered when it set out. *)
Reading(pc, role) ==
  [NoReader EXCEPT !.pc = pc, !.role = role,
                   !.acked = IF role = "close" THEN CountOf(answered) ELSE Zero]

InFlight(o) == Cardinality({b \in Ballots : ballot[b].pc = "counting" /\ ballot[b].option = o})

Init ==
  /\ status = "none" /\ expired = FALSE
  /\ votes = [a \in Accounts |-> NoVote]
  /\ stored = Zero /\ key = Missing
  /\ ballot = [b \in Ballots |-> NoBallot]
  /\ reader = [c \in Coroutines |-> NoReader]
  /\ room = "none"
  /\ answered = {} /\ due = Zero
  /\ torn = FALSE /\ late = FALSE /\ lowered = FALSE
  /\ losses = 0 /\ faults = 0 /\ restarts = 0

-----------------------------------------------------------------------------
(* History.  A rebuild that overlaps a vote, an increment of a hash that   *)
(* has lost counted votes, and a vote that dies before its increment       *)
(* separate a vote from its count.                                         *)

Rebuilding == \E c \in Coroutines : reader[c].pc \in {"rebuilding", "filling"}

Counting == \E b \in Ballots : ballot[b].pc = "counting"

Voting == \E b \in Ballots : ballot[b].pc \in {"checked", "counting"}

Closing == \E c \in Coroutines : reader[c].pc # "idle" /\ reader[c].role = "close"

Note(tears) ==
  /\ torn' = (torn \/ tears \/ (Rebuilding' /\ Counting'))
  /\ late' = (late \/ (Closing' /\ Voting'))

Same(tears) == Note(tears) /\ UNCHANGED <<losses, faults, restarts>>

-----------------------------------------------------------------------------
(* vote *)

VoteCheck(b) ==
  /\ ballot[b].pc = "idle" /\ reader[b].pc = "idle"
  /\ status = "open" /\ ~expired
  /\ \E a \in Accounts, o \in Options :
       ballot' = [ballot EXCEPT ![b] = [pc |-> "checked", account |-> a, option |-> o]]
  /\ UNCHANGED <<status, expired, votes, stored, key, reader, room, answered, due, lowered>>
  /\ Same(FALSE)

(* uq_poll_vote_poll_user refuses the second row of an account. *)
VoteCommit(b) ==
  /\ ballot[b].pc = "checked"
  /\ LET a == ballot[b].account
     IN \/ /\ votes[a] = NoVote
           /\ votes' = [votes EXCEPT ![a] = ballot[b].option]
           /\ ballot' = [ballot EXCEPT ![b].pc = "counting"]
        \/ /\ votes[a] # NoVote
           /\ ballot' = [ballot EXCEPT ![b] = NoBallot]
           /\ UNCHANGED votes
  /\ UNCHANGED <<status, expired, stored, key, reader, room, answered, due, lowered>>
  /\ Same(FALSE)

(* HINCRBY creates the hash when there is none. *)
Incremented(o) == IF key = Missing THEN [Zero EXCEPT ![o] = 1] ELSE [key EXCEPT ![o] = @ + 1]

LosesOthers(b) ==
  key = Missing /\ \E a \in Voted : \A q \in Ballots :
                     ballot[q].pc = "counting" => ballot[q].account # a

VoteCount(b) ==
  /\ ballot[b].pc = "counting"
  /\ key' = Incremented(ballot[b].option)
  /\ ballot' = [ballot EXCEPT ![b].pc = "scheduling"]
  /\ UNCHANGED <<status, expired, votes, stored, reader, room, answered, due, lowered>>
  /\ Same(LosesOthers(b))

(* schedule_update: one task at a time; a vote that finds one goes with it. *)
Scheduled ==
  IF reader[Updater].pc # "idle" THEN reader
  ELSE [reader EXCEPT ![Updater] = [NoReader EXCEPT !.pc = "sleeping", !.role = "update"]]

(* A vote over HTTP is answered; one over the socket (_handle_vote) goes on *)
(* to read the tally, with the poll row it loaded while the poll was open.  *)
Schedule(b) ==
  /\ ballot[b].pc = "scheduling"
  /\ \/ reader' = Scheduled
     \/ reader' = [Scheduled EXCEPT ![b] = Reading("asked", "view")]
  /\ answered' = answered \cup {ballot[b].account}
  /\ ballot' = [ballot EXCEPT ![b] = NoBallot]
  /\ UNCHANGED <<status, expired, votes, stored, key, room, due, lowered>>
  /\ Same(FALSE)

-----------------------------------------------------------------------------
(* Who reads the tally. *)

At(c, pc, role) == reader[c].pc = pc /\ reader[c].role = role

Goto(c, pc) == reader' = [reader EXCEPT ![c].pc = pc]

Leave(c) == reader' = [reader EXCEPT ![c] = NoReader]

(* state() answers a viewer; the others go on, a closer with the tally. *)
Tallied(c, tally) ==
  reader' = [reader EXCEPT ![c] =
    CASE reader[c].role = "view"  -> NoReader
      [] reader[c].role = "close" -> [@ EXCEPT !.pc = "tallied", !.tally = tally]
      [] OTHER -> [NoReader EXCEPT !.pc = "tallied", !.role = reader[c].role]]

Enter(c, pc, role) == reader' = [reader EXCEPT ![c] = Reading(pc, role)]

(* create: the row and its options are committed, then the room is told. *)
Create(c) ==
  /\ status = "none"
  /\ status' = "open"
  /\ Enter(c, "asked", "start")
  /\ UNCHANGED <<expired, votes, stored, key, ballot, room, answered, due, lowered>>
  /\ Same(FALSE)

Expire ==
  /\ status = "open" /\ ~expired
  /\ expired' = TRUE
  /\ UNCHANGED <<status, votes, stored, key, ballot, reader, room, answered, due, lowered>>
  /\ Same(FALSE)

(* GET of the poll or of the chat state *)
View(c) ==
  /\ reader[c].pc = "idle" /\ status = "open"
  /\ Enter(c, "asked", "view")
  /\ UNCHANGED <<status, expired, votes, stored, key, ballot, room, answered, due, lowered>>
  /\ Same(FALSE)

(* The interval of the update task is over: it reads the row first. *)
UpdateWake ==
  /\ At(Updater, "sleeping", "update")
  /\ IF status = "open" THEN Goto(Updater, "asked") ELSE Leave(Updater)
  /\ UNCHANGED <<status, expired, votes, stored, key, ballot, room, answered, due, lowered>>
  /\ Same(FALSE)

(* end, or close_expired from a request or from the stream monitor *)
CloseBegin(c) ==
  /\ reader[c].pc = "idle" /\ status = "open"
  /\ Enter(c, "options", "close")
  /\ UNCHANGED <<status, expired, votes, stored, key, ballot, room, answered, due, lowered>>
  /\ Same(FALSE)

CloseOptions(c) ==
  /\ reader[c].pc = "options"
  /\ reader' = [reader EXCEPT ![c].pc = "asked", ![c].loaded = stored]
  /\ UNCHANGED <<status, expired, votes, stored, key, ballot, room, answered, due, lowered>>
  /\ Same(FALSE)

-----------------------------------------------------------------------------
(* _tally of a poll whose row was open when it was read *)

(* Faulty variant: a missing hash counts as no votes. *)
HGetAllNoRebuild(c) ==
  /\ reader[c].pc = "asked"
  /\ Tallied(c, IF key = Missing THEN Zero ELSE key)
  /\ UNCHANGED <<status, expired, votes, stored, key, ballot, room, answered, due, lowered>>
  /\ Same(FALSE)

(* Faulty variant: a missing hash is an error. *)
HGetAllRaises(c) ==
  /\ reader[c].pc = "asked"
  /\ IF key = Missing THEN Leave(c) ELSE Tallied(c, key)
  /\ UNCHANGED <<status, expired, votes, stored, key, ballot, room, answered, due, lowered>>
  /\ Same(FALSE)

HGetAll(c) ==
  /\ reader[c].pc = "asked"
  /\ IF key = Missing THEN Goto(c, "rebuilding") ELSE Tallied(c, key)
  /\ UNCHANGED <<status, expired, votes, stored, key, ballot, room, answered, due, lowered>>
  /\ Same(FALSE)

ReadRows(c) ==
  /\ reader[c].pc = "rebuilding"
  /\ IF Counts = Zero THEN Tallied(c, Counts)
     ELSE reader' = [reader EXCEPT ![c].pc = "filling", ![c].tally = Counts]
  /\ UNCHANGED <<status, expired, votes, stored, key, ballot, room, answered, due, lowered>>
  /\ Same(FALSE)

(* Faulty variant: the rebuilt counts are added to the hash. *)
FillAdds(c) ==
  /\ reader[c].pc = "filling"
  /\ key' = IF key = Missing THEN reader[c].tally
            ELSE [o \in Options |-> key[o] + reader[c].tally[o]]
  /\ Tallied(c, reader[c].tally)
  /\ UNCHANGED <<status, expired, votes, stored, ballot, room, answered, due, lowered>>
  /\ Same(FALSE)

Fill(c) ==
  /\ reader[c].pc = "filling"
  /\ key' = reader[c].tally
  /\ Tallied(c, reader[c].tally)
  /\ UNCHANGED <<status, expired, votes, stored, ballot, room, answered, due, lowered>>
  /\ Same(FALSE)

Publish(c) ==
  /\ At(c, "tallied", "start") \/ At(c, "tallied", "update")
  /\ room' = IF room \in {"closed", "reopened"} THEN "reopened" ELSE "open"
  /\ Leave(c)
  /\ UNCHANGED <<status, expired, votes, stored, key, ballot, answered, due, lowered>>
  /\ Same(FALSE)

(* Faulty variant: the status is saved and the tally is not. *)
CloseCommitForgets(c) ==
  /\ At(c, "tallied", "close")
  /\ status' = "closed"
  /\ due' = reader[c].acked
  /\ Goto(c, "dropping")
  /\ UNCHANGED <<expired, votes, stored, key, ballot, room, answered, lowered>>
  /\ Same(FALSE)

(* close: the session writes the columns whose value it changed.  A third    *)
(* close may have written less meanwhile to a column that is left alone.     *)
CloseCommit(c) ==
  /\ At(c, "tallied", "close")
  /\ LET Changed(o) == reader[c].tally[o] # reader[c].loaded[o]
     IN /\ stored' = [o \in Options |-> IF Changed(o) THEN reader[c].tally[o] ELSE stored[o]]
        /\ lowered' = (lowered \/ \E o \in Options : ~Changed(o) /\ stored[o] < reader[c].tally[o])
  /\ status' = "closed"
  /\ due' = reader[c].acked
  /\ Goto(c, "dropping")
  /\ UNCHANGED <<expired, votes, key, ballot, room, answered>>
  /\ Same(FALSE)

(* Faulty variant: close returns once the hash is gone. *)
DropKeyReturns(c) ==
  /\ reader[c].pc = "dropping"
  /\ key' = Missing
  /\ Leave(c)
  /\ UNCHANGED <<status, expired, votes, stored, ballot, room, answered, due, lowered>>
  /\ Same(FALSE)

DropKey(c) ==
  /\ reader[c].pc = "dropping"
  /\ key' = Missing
  /\ Goto(c, "telling")
  /\ UNCHANGED <<status, expired, votes, stored, ballot, room, answered, due, lowered>>
  /\ Same(FALSE)

Tell(c) ==
  /\ reader[c].pc = "telling"
  /\ room' = "closed"
  /\ Leave(c)
  /\ UNCHANGED <<status, expired, votes, stored, key, ballot, answered, due, lowered>>
  /\ Same(FALSE)

-----------------------------------------------------------------------------
(* Faults *)

(* Redis restarts without its data. *)
LoseRedis ==
  /\ losses < MaxLosses /\ key # Missing
  /\ key' = Missing
  /\ UNCHANGED <<status, expired, votes, stored, ballot, reader, room, answered, due, lowered, faults, restarts>>
  /\ losses' = losses + 1
  /\ Note(FALSE)

(* A Redis call raises: the vote stays without its increment, ... *)
CountFails(b) ==
  /\ faults < MaxFaults /\ ballot[b].pc = "counting"
  /\ ballot' = [ballot EXCEPT ![b] = NoBallot]
  /\ UNCHANGED <<status, expired, votes, stored, key, reader, room, answered, due, lowered, losses, restarts>>
  /\ faults' = faults + 1
  /\ Note(TRUE)

(* ... and a reader or a closer stops where it is. *)
ReadFails(c) ==
  /\ faults < MaxFaults
  /\ \/ reader[c].pc \in {"asked", "filling", "dropping", "telling"}
     \/ reader[c].pc = "tallied" /\ reader[c].role \in {"start", "update"}
  /\ Leave(c)
  /\ UNCHANGED <<status, expired, votes, stored, key, ballot, room, answered, due, lowered, losses, restarts>>
  /\ faults' = faults + 1
  /\ Note(FALSE)

(* The backend stops and comes back: requests and tasks are gone. *)
Restart ==
  /\ restarts < MaxRestarts
  /\ ballot' = [b \in Ballots |-> NoBallot]
  /\ reader' = [c \in Coroutines |-> NoReader]
  /\ UNCHANGED <<status, expired, votes, stored, key, room, answered, due, lowered, losses, faults>>
  /\ restarts' = restarts + 1
  /\ Note(Counting)

-----------------------------------------------------------------------------
ReaderStep(c) ==
  \/ CloseOptions(c) \/ HGetAll(c) \/ ReadRows(c) \/ Fill(c)
  \/ Publish(c) \/ CloseCommit(c) \/ DropKey(c) \/ Tell(c)

Next ==
  \/ \E b \in Ballots : VoteCheck(b) \/ VoteCommit(b) \/ VoteCount(b) \/ Schedule(b) \/ CountFails(b)
  \/ \E c \in Readers : Create(c) \/ View(c) \/ CloseBegin(c)
  \/ \E c \in Coroutines : ReaderStep(c) \/ ReadFails(c)
  \/ UpdateWake \/ Expire \/ LoseRedis \/ Restart

Spec == Init /\ [][Next]_vars

(* The stream monitor closes expired polls on every tick (a slot is free    *)
(* again and again, since every request ends), and the event loop runs      *)
(* every coroutine whose call was answered.                                 *)
FairSpec ==
  /\ Spec
  /\ \A c \in Coroutines : WF_vars(ReaderStep(c))
  /\ SF_vars(expired /\ \E c \in Readers : CloseBegin(c))

-----------------------------------------------------------------------------
(* Types: rows, hash, requests and readers hold what the code puts there. *)
TypeOK ==
  LET Tallies == [Options -> 0..(2 * Cardinality(Accounts))]
  IN /\ status \in {"none", "open", "closed"} /\ expired \in BOOLEAN
     /\ votes \in [Accounts -> Options \cup {NoVote}]
     /\ stored \in Tallies /\ key \in Tallies \cup {Missing} /\ due \in Tallies
     /\ ballot \in [Ballots -> [pc : {"idle", "checked", "counting", "scheduling"},
                                account : Accounts \cup {NoVote},
                                option : Options \cup {NoVote}]]
     /\ reader \in [Coroutines ->
                     [pc : {"idle", "sleeping", "options", "asked", "rebuilding", "filling",
                            "tallied", "dropping", "telling"},
                      role : {"start", "view", "update", "close"},
                      tally : Tallies, loaded : Tallies, acked : Tallies]]
     /\ room \in {"none", "open", "closed", "reopened"}
     /\ answered \subseteq Accounts
     /\ torn \in BOOLEAN /\ late \in BOOLEAN /\ lowered \in BOOLEAN
     /\ losses \in 0..MaxLosses /\ faults \in 0..MaxFaults /\ restarts \in 0..MaxRestarts

(* _tally: the hash of an open poll holds every vote that is not on its    *)
(* way, each once, as long as no vote was torn from its count.  A Redis    *)
(* restart alone tears nothing: the next reader repairs it.                *)
LiveTallyExact ==
  status = "open" /\ key # Missing /\ ~torn =>
    \A o \in Options : key[o] + InFlight(o) = Counts[o]

(* close: the final result holds every vote that was answered before the   *)
(* poll began to close, and no vote twice.  Three closes at once may lower *)
(* it: the session of one does not write the count it has loaded.          *)
ResultKeepsAnswered ==
  status = "closed" /\ ~torn /\ ~lowered =>
    \A o \in Options : due[o] <= stored[o] /\ stored[o] <= Counts[o]

(* close, "Safe to call twice": with no vote under way, a second close     *)
(* does not change the result.                                             *)
ResultFrozen ==
  [][status = "closed" /\ ~torn' /\ ~late' => stored' = stored]_vars

(* close_expired: a poll whose time is up is closed, whatever Redis does    *)
(* and wherever the backend is stopped.                                     *)
ExpiredCloses == expired ~> status = "closed"

(* close "tell the room": while Redis answers and the backend runs, a poll  *)
(* that was closed is announced as closed (an update that was on its way    *)
(* may follow it).                                                          *)
Undisturbed == faults = 0 /\ restarts = 0

EndIsTold == status = "closed" /\ Undisturbed ~> room \in {"closed", "reopened"} \/ ~Undisturbed
=============================================================================
