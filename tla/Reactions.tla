------------------------------ MODULE Reactions ------------------------------
(***************************************************************************)
(* Message reactions of one channel (chat/service/reactions.py and the     *)
(* "react" branch of the gateway).  A reaction is a row in Postgres;       *)
(* connections of one account toggle rows at the same time, each toggle    *)
(* one call to Postgres after the other.  After its toggle a connection    *)
(* marks the message in the ReactionBatcher, whose flush task sleeps, pops *)
(* the marked messages and publishes the counts of each.                   *)
(***************************************************************************)
EXTENDS Integers, FiniteSets

CONSTANTS
  Accounts, Messages, Emojis,
  Conns,        \* sockets
  AccountOf,    \* the account a socket belongs to
  Cap,          \* MAX_PER_USER_PER_MESSAGE
  Flushers,     \* slots for _flush tasks
  NoMessage, NoEmoji, Untold,
  Failing       \* whether a flush may raise

ASSUME ConnAssumption == AccountOf \in [Conns -> Accounts]
ASSUME BoundAssumption == Cap \in Nat /\ Failing \in BOOLEAN
ASSUME NamesAssumption == NoMessage \notin Messages /\ NoEmoji \notin Emojis
ASSUME FinitenessAssumption == IsFiniteSet(Accounts) /\ IsFiniteSet(Conns) /\ IsFiniteSet(Emojis)

VARIABLES
  rows,      \* message_reactions: <<message, account, emoji>>
  conn,      \* what each socket is doing
  dirty,     \* batcher._dirty of the channel
  task,      \* the _flush tasks
  current,   \* batcher._tasks of the channel: the slot of the latest task
  shown      \* the counts the channel was last told, by message; Untold when
             \* a flush that failed dropped them

vars == <<rows, conn, dirty, task, current, shown>>

Rows == Messages \X Accounts \X Emojis

Of(m, a) == {r \in rows : r[1] = m /\ r[2] = a}

(* counts: a message's number of reactions by emoji *)
CountsIn(R, m) == [e \in Emojis |-> Cardinality({r \in R : r[1] = m /\ r[3] = e})]

Counts(m) == CountsIn(rows, m)

None == [e \in Emojis |-> 0]

Done == [pc |-> "done", ids |-> {}, at |-> NoMessage, counts |-> None]

(* A socket with nothing under way, and one about to mark a message *)
Resting == [pc |-> "idle", message |-> NoMessage, emoji |-> NoEmoji]

ToMark(m) == [pc |-> "marking", message |-> m, emoji |-> NoEmoji]

Target(c) == <<conn[c].message, AccountOf[c], conn[c].emoji>>

Init ==
  /\ rows = {}
  /\ conn = [c \in Conns |-> Resting]
  /\ dirty = {}
  /\ task = [f \in Flushers |-> Done]
  /\ current \in Flushers
  /\ shown = [m \in Messages |-> None]

Rest(c) == conn' = [conn EXCEPT ![c] = Resting]

-----------------------------------------------------------------------------
(* toggle *)

(* _handle_react loads the message and toggle looks for the row.  A toggle  *)
(* it refuses (a deleted message, an unknown emoji) changes nothing here;    *)
(* one that finds nothing to do still marks the message.                     *)
React(c) ==
  /\ conn[c].pc = "idle"
  /\ \E m \in Messages, e \in Emojis, on \in BOOLEAN :
       LET there == <<m, AccountOf[c], e>> \in rows
       IN conn' = [conn EXCEPT ![c] =
                     CASE on /\ ~there   -> [pc |-> "counting", message |-> m, emoji |-> e]
                       [] ~on /\ there   -> [pc |-> "removing", message |-> m, emoji |-> e]
                       [] OTHER          -> ToMark(m)]
  /\ UNCHANGED <<rows, dirty, task, current, shown>>

(* Faulty variant: one reaction too many is let through. *)
CountHaveOver(c) ==
  /\ conn[c].pc = "counting"
  /\ IF Cardinality(Of(conn[c].message, AccountOf[c])) > Cap
     THEN Rest(c) ELSE conn' = [conn EXCEPT ![c].pc = "inserting"]
  /\ UNCHANGED <<rows, dirty, task, current, shown>>

CountHave(c) ==
  /\ conn[c].pc = "counting"
  /\ IF Cardinality(Of(conn[c].message, AccountOf[c])) >= Cap
     THEN Rest(c) ELSE conn' = [conn EXCEPT ![c].pc = "inserting"]
  /\ UNCHANGED <<rows, dirty, task, current, shown>>

(* uq_reaction_message_user_emoji: the second insert of a row raises, which *)
(* nothing catches; the socket closes, and the client connects again.       *)
Insert(c) ==
  /\ conn[c].pc = "inserting"
  /\ \/ /\ Target(c) \notin rows
        /\ rows' = rows \cup {Target(c)}
        /\ conn' = [conn EXCEPT ![c] = ToMark(@.message)]
     \/ /\ Target(c) \in rows
        /\ Rest(c)
        /\ UNCHANGED rows
  /\ UNCHANGED <<dirty, task, current, shown>>

(* The row is deleted by its id: another connection that found the same row *)
(* will delete nothing.                                                     *)
Remove(c) ==
  /\ conn[c].pc = "removing"
  /\ rows' = rows \ {Target(c)}
  /\ conn' = [q \in Conns |->
                IF conn[q].pc = "removing" /\ Target(q) = Target(c)
                THEN ToMark(conn[q].message) ELSE conn[q]]
  /\ UNCHANGED <<dirty, task, current, shown>>

-----------------------------------------------------------------------------
(* ReactionBatcher *)

Sleeping == [Done EXCEPT !.pc = "sleeping"]

(* Faulty variant: every mark starts a task. *)
MarkAlwaysStarts(c) ==
  /\ conn[c].pc = "marking"
  /\ dirty' = dirty \cup {conn[c].message}
  /\ \E f \in Flushers :
       /\ task[f].pc = "done" /\ current' = f
       /\ task' = [task EXCEPT ![f] = Sleeping]
  /\ Rest(c)
  /\ UNCHANGED <<rows, shown>>

(* mark: a new task only when the latest is done *)
Mark(c) ==
  /\ conn[c].pc = "marking"
  /\ dirty' = dirty \cup {conn[c].message}
  /\ \/ /\ task[current].pc # "done"
        /\ UNCHANGED <<task, current>>
     \/ /\ task[current].pc = "done"
        /\ \E f \in Flushers :
             /\ task[f].pc = "done" /\ current' = f
             /\ task' = [task EXCEPT ![f] = Sleeping]
  /\ Rest(c)
  /\ UNCHANGED <<rows, shown>>

(* _flush: the interval is over; the marked messages are popped. *)
Pop(f) ==
  /\ task[f].pc = "sleeping"
  /\ task' = [task EXCEPT ![f].pc = "flushing", ![f].ids = dirty]
  /\ dirty' = {}
  /\ UNCHANGED <<rows, conn, current, shown>>

ReadCounts(f) ==
  /\ task[f].pc = "flushing" /\ task[f].at = NoMessage
  /\ \E m \in task[f].ids :
       task' = [task EXCEPT ![f].at = m, ![f].counts = Counts(m)]
  /\ UNCHANGED <<rows, conn, dirty, current, shown>>

Publish(f) ==
  /\ task[f].pc = "flushing" /\ task[f].at # NoMessage
  /\ shown' = [shown EXCEPT ![task[f].at] = task[f].counts]
  /\ task' = [task EXCEPT ![f] = [Done EXCEPT !.pc = "flushing", !.ids = task[f].ids \ {task[f].at}]]
  /\ UNCHANGED <<rows, conn, dirty, current>>

Finish(f) ==
  /\ task[f].pc = "flushing" /\ task[f].ids = {}
  /\ task' = [task EXCEPT ![f] = Done]
  /\ UNCHANGED <<rows, conn, dirty, current, shown>>

(* A call of the flush raises: it is logged and the rest is dropped. *)
FlushFails(f) ==
  /\ Failing
  /\ task[f].pc = "flushing" /\ task[f].ids # {}
  /\ shown' = [m \in Messages |-> IF m \in task[f].ids THEN Untold ELSE shown[m]]
  /\ task' = [task EXCEPT ![f] = Done]
  /\ UNCHANGED <<rows, conn, dirty, current>>

-----------------------------------------------------------------------------
ToggleStep(c) == CountHave(c) \/ Insert(c) \/ Remove(c) \/ Mark(c)

FlushStep(f) == Pop(f) \/ ReadCounts(f) \/ Publish(f) \/ Finish(f)

Next ==
  \/ \E c \in Conns : React(c) \/ ToggleStep(c)
  \/ \E f \in Flushers : FlushStep(f) \/ FlushFails(f)

Spec == Init /\ [][Next]_vars

(* The event loop runs every coroutine whose call was answered or whose     *)
(* sleep is over.                                                           *)
FairSpec ==
  /\ Spec
  /\ \A c \in Conns : WF_vars(ToggleStep(c))
  /\ \A f \in Flushers : WF_vars(FlushStep(f))

-----------------------------------------------------------------------------
(* Types: what the tables, the batcher and the tasks hold. *)
TypeOK ==
  LET Tallies == [Emojis -> 0..Cardinality(Accounts)]
  IN /\ rows \subseteq Rows /\ dirty \subseteq Messages
     /\ conn \in [Conns -> [pc : {"idle", "counting", "inserting", "removing", "marking"},
                            message : Messages \cup {NoMessage}, emoji : Emojis \cup {NoEmoji}]]
     /\ \A c \in Conns :
          /\ conn[c].pc \in {"counting", "inserting", "removing"} => Target(c) \in Rows
          /\ conn[c].pc = "marking" => conn[c].message \in Messages
     /\ task \in [Flushers -> [pc : {"done", "sleeping", "flushing"}, ids : SUBSET Messages,
                               at : Messages \cup {NoMessage}, counts : Tallies]]
     /\ current \in Flushers /\ shown \in [Messages -> Tallies \cup {Untold}]

(* toggle, MAX_PER_USER_PER_MESSAGE: the check and the insert are two       *)
(* calls, so an account can go over the cap, but only by the inserts its    *)
(* other connections had under way: never by as many as its connections.    *)
CapWithinConnections ==
  \A m \in Messages, a \in Accounts :
    LET mine == {c \in Conns : AccountOf[c] = a}
    IN Cardinality(Of(m, a)) <= Cap + (IF mine = {} THEN 0 ELSE Cardinality(mine) - 1)

(* ReactionBatcher: no change of a message is forgotten.  What the channel  *)
(* was last told of a message are its counts, unless the message is marked, *)
(* about to be marked, in a flush, or dropped by a flush that failed.       *)
Settled(m) ==
  /\ m \notin dirty
  /\ \A f \in Flushers : m \notin task[f].ids
  /\ \A c \in Conns : ~(conn[c].pc = "marking" /\ conn[c].message = m)

ShownIsCounted == \A m \in Messages : Settled(m) => shown[m] \in {Counts(m), Untold}
=============================================================================
