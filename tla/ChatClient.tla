----------------------------- MODULE ChatClient -----------------------------
(***************************************************************************)
(* The chat of one tab (web/src/lib/use-community-chat.ts and the panel    *)
(* that shows it): history over REST, then live events over a socket that  *)
(* goes and comes back.  The room on the server is the environment: what   *)
(* is committed there is told to the room a little later, in any order.    *)
(* Messages are numbered in the order of created_at; of the reactions to a *)
(* message only this account's own is followed; the pin, the settings and  *)
(* the poll are numbered by their changes (a poll is open at odd numbers). *)
(***************************************************************************)
EXTENDS Integers, FiniteSetsExt, SequencesExt

CONSTANTS
  Keep,          \* messages a tab keeps (KEEP)
  HistoryPage,   \* messages of a first page
  SincePage,     \* messages of a catch-up page
  Fields,        \* the parts of the chat state, among them the poll
  Sanctions,     \* "timeout", "ban"
  MaxRoomChanges, \* bounds: changes of the room, ...
  MaxDrops,      \* ... connections lost, ...
  MaxEntries     \* ... and times the page is opened

ASSUME ChatClientAssumption ==
  /\ {Keep, HistoryPage, SincePage} \subseteq Nat \ {0}
  /\ {MaxRoomChanges, MaxDrops, MaxEntries} \subseteq Nat
  /\ "poll" \in Fields
  /\ Sanctions \subseteq {"timeout", "ban"}

VARIABLES
  posted, gone,  \* the room: how many messages, and which are deleted
  quote,         \* which message each replies to
  reacted,       \* the messages this account reacts to
  facts,         \* the chat state
  cast,          \* the polls this account has voted in
  sanction,      \* its timeout or ban
  outbox,        \* events that are committed and not yet published
  changes,       \* changes made so far
  link,          \* the connection: down, open, heard (subscribed), lost (this tab is not told yet)
  queue,         \* events on their way to this tab
  drops,         \* connections lost so far
  here, visits,  \* the page is shown; times it was opened
  shown,         \* messages: what is on the screen
  pages,         \* the answers awaited: the history at 0, then one for each reconnect
  wasDown,       \* of the effect
  cache,         \* the cached chat state
  stateFetch,    \* the answer awaited for it
  restriction,   \* what this tab was told of its sanction
  gaps, stale,   \* history: messages that slipped through; deletions this tab cannot learn of
  unkept,        \* history: messages whose mark may be another than the server's: it did not take the
                 \* reaction, it was turned in another tab, or the row came late
  leftBehind     \* history: the first way in which the chat state was left behind

room == <<posted, gone, quote, reacted, facts, cast, sanction, changes>>
tab == <<here, visits, shown, pages, wasDown, restriction>>
state == <<cache, stateFetch>>
history == <<gaps, stale, unkept, leftBehind>>
vars == <<room, outbox, link, queue, drops, tab, state, history>>

Msgs == 1..MaxRoomChanges
PollOf(n) == (n + 1) \div 2
Open(n) == n % 2 = 1
NoFacts == [f \in Fields |-> 0]
NoPage == [stage |-> "idle", after |-> 0, found |-> {}]
NoFetch == [stage |-> "idle", at |-> NoFacts, voted |-> {}]

(* An earlier visit may have left the chat state in the cache, or be waiting *)
(* for it.                                                                  *)
Init ==
  /\ posted = 0 /\ gone = {} /\ quote = [m \in Msgs |-> 0] /\ reacted = {}
  /\ facts = NoFacts /\ cast = {} /\ sanction = "none"
  /\ outbox = {} /\ changes = 0
  /\ link = "down" /\ queue = <<>> /\ drops = 0
  /\ here = FALSE /\ visits = 0
  /\ shown = {} /\ pages = [f \in 0..MaxDrops |-> NoPage] /\ wasDown = FALSE
  /\ \E have \in BOOLEAN : cache = [have |-> have, at |-> NoFacts, vote |-> FALSE]
  /\ stateFetch \in {NoFetch, [NoFetch EXCEPT !.stage = "asked"]}
  /\ restriction = "none"
  /\ gaps = {} /\ stale = {} /\ unkept = {} /\ leftBehind = "none"

-----------------------------------------------------------------------------
(* What is on the screen, and what the panel offers *)

Ids(rows) == {r.id : r \in rows}

LastOf(n, S) == {m \in S : Cardinality({k \in S : k > m}) < n}

Newest == IF shown = {} THEN 0 ELSE Max(Ids(shown))

Connected == link \in {"open", "heard", "lost"}

(* merge: a message that is there already stays as it is. *)
Merge(prev, page) ==
  LET all == prev \cup {r \in page : r.id \notin Ids(prev)}
  IN {r \in all : r.id \in LastOf(Keep, Ids(all))}

(* The server's row of a message; the text of a deleted parent is not in it. *)
Row(m) == [id |-> m, quotes |-> IF quote[m] \in gone THEN 0 ELSE quote[m],
           mine |-> m \in reacted, counted |-> m \in reacted]

(* The message box can be typed in and sent. *)
CanSend == here /\ Connected /\ restriction \notin {"timeout", "ban"}

(* A timeout that is over still keeps the reactions and the poll away. *)
CanReact == here /\ restriction = "none"

(* The chip under a message turns the own reaction; it is there while the   *)
(* count is above zero.  The picker adds one.                               *)
Chip(r) == IF r.counted THEN {~r.mine} ELSE {}
Picker == {TRUE}

(* The poll's options are buttons. *)
Choosing == CanReact /\ cache.have /\ Open(cache.at["poll"]) /\ ~cache.vote

-----------------------------------------------------------------------------
(* What the tab can still learn, for the history variables *)

Coming(t) == {e \in outbox \cup ToSet(queue) : e.type = t}
ComingMsgs == {e.row.id : e \in Coming("chat_message")}
ComingDeletions == {e.deleted : e \in Coming("message_deleted")}

Pending == {f \in DOMAIN pages : pages[f].stage = "asked"}
Arrived == UNION {Ids(pages[f].found) : f \in DOMAIN pages}

(* A reconnect will catch up. *)
WillCatchUp == link = "lost" \/ (link = "down" /\ wasDown)

Reach == Max({0} \cup Ids(shown) \cup Arrived)

(* A page that was asked for will hold what comes after its cursor. *)
Awaited(m) == \E f \in Pending : m > pages[f].after

(* Message m will come although nobody sends it again. *)
Covered(m, catchUp) ==
  \/ m \in Ids(shown) \cup Arrived
  \/ Awaited(m)
  \/ catchUp /\ Reach > 0 /\ m > Reach

First(m) == IF leftBehind = "none" THEN m ELSE leftBehind

(* The change of the chat state that event e tells will be known without it. *)
KnownAnyway(e) ==
  \/ cache.have /\ cache.at[e.field] >= e.n
  \/ stateFetch.stage = "asked"
  \/ stateFetch.stage = "read" /\ stateFetch.at[e.field] >= e.n
  \/ WillCatchUp

(* The events E do not reach this tab. *)
Missed(E) ==
  IF here
  THEN /\ gaps' = gaps \cup {m \in {e.row.id : e \in {x \in E : x.type = "chat_message"}} :
                                ~Covered(m, WillCatchUp)}
       /\ stale' = stale \cup {e.deleted : e \in {x \in E : x.type = "message_deleted"}}
       /\ leftBehind' = IF \E e \in E : e.type = "patch" /\ ~KnownAnyway(e) THEN First("missed") ELSE leftBehind
       /\ UNCHANGED unkept
  ELSE UNCHANGED history

(* Messages that were published, are not on the screen, and of which no     *)
(* event and no answer is on its way                                        *)
Unseen(others) ==
  (1..posted) \ (gone \cup Ids(shown) \cup ComingMsgs \cup UNION {Ids(pages[f].found) : f \in others})

-----------------------------------------------------------------------------
(* The room *)

Bounded == changes < MaxRoomChanges /\ changes' = changes + 1

Tell(e) == outbox' = outbox \cup {e}

(* A message is committed, a reply to q or to nobody (0). *)
Post(q) ==
  /\ Bounded
  /\ posted' = posted + 1
  /\ quote' = [quote EXCEPT ![posted + 1] = q]
  /\ Tell([type |-> "chat_message",
           row |-> [id |-> posted + 1, quotes |-> q, mine |-> FALSE, counted |-> FALSE]])
  /\ UNCHANGED <<gone, reacted, facts, cast, sanction>>

PostedByOthers ==
  /\ \E q \in 0..posted : q \notin gone /\ Post(q)
  /\ UNCHANGED <<link, queue, drops, tab, state, history>>

(* From the menu of a message, here or elsewhere *)
Delete(m) ==
  /\ Bounded
  /\ m \in (1..posted) \ gone
  /\ gone' = gone \cup {m}
  /\ Tell([type |-> "message_deleted", deleted |-> m])
  /\ UNCHANGED <<posted, quote, reacted, facts, cast, sanction,
                 link, queue, drops, tab, state, history>>

(* A message is pinned or unpinned, the settings are saved, a poll starts   *)
(* or closes.                                                               *)
Change(f) ==
  /\ Bounded
  /\ facts' = [facts EXCEPT ![f] = @ + 1]
  /\ Tell([type |-> "patch", field |-> f, n |-> facts[f] + 1, mine |-> FALSE])
  /\ UNCHANGED <<posted, gone, quote, reacted, cast, sanction,
                 link, queue, drops, tab, state, history>>

(* The same account turns its reaction to m, or votes, in another tab or on *)
(* another device: this tab is told new counts and not whose they are.      *)
ReactedElsewhere(m) ==
  /\ Bounded
  /\ m \in (1..posted) \ gone
  /\ reacted' = SymDiff(reacted, {m})
  /\ Tell([type |-> "reaction_update", liked |-> m])
  /\ unkept' = unkept \cup ({m} \cap Ids(shown))
  /\ UNCHANGED <<posted, gone, quote, facts, cast, sanction,
                 link, queue, drops, tab, state, gaps, stale, leftBehind>>

VotedElsewhere ==
  /\ Bounded
  /\ Open(facts["poll"]) /\ PollOf(facts["poll"]) \notin cast
  /\ cast' = cast \cup {PollOf(facts["poll"])}
  /\ Tell([type |-> "patch", field |-> "poll", n |-> facts["poll"], mine |-> FALSE])
  /\ UNCHANGED <<posted, gone, quote, reacted, facts, sanction,
                 link, queue, drops, tab, state, history>>

(* A moderator times the account out, bans it, or lifts that; its sockets   *)
(* are told on their own topic.                                             *)
Sanction(s) ==
  /\ Bounded
  /\ s # sanction
  /\ sanction' = s
  /\ queue' = IF here /\ link \in {"open", "heard"} THEN Append(queue, [type |-> "moderation", action |-> s])
              ELSE queue
  /\ UNCHANGED <<posted, gone, quote, reacted, facts, cast, outbox,
                 link, drops, tab, state, history>>

(* An event is published: to this tab if its subscription is in place.      *)
(* Counts are read when they are published.                                 *)
Publish(e) ==
  /\ e \in outbox
  /\ outbox' = outbox \ {e}
  /\ IF here /\ link = "heard"
     THEN /\ queue' = Append(queue, IF e.type = "reaction_update"
                                    THEN [type |-> "counts", of |-> e.liked, counted |-> e.liked \in reacted]
                                    ELSE e)
          /\ UNCHANGED history
     ELSE Missed({e}) /\ UNCHANGED queue
  /\ UNCHANGED <<room, link, drops, tab, state>>

-----------------------------------------------------------------------------
(* The connection *)

(* It breaks: what was on its way is gone, and the tab is told later. *)
Lost ==
  /\ link \in {"open", "heard"}
  /\ drops < MaxDrops
  /\ drops' = drops + 1
  /\ link' = "lost"
  /\ queue' = <<>>
  /\ IF ~here THEN UNCHANGED history
       ELSE /\ gaps' = gaps \cup {m \in {e.row.id : e \in {x \in ToSet(queue) : x.type = "chat_message"}} :
                                     ~Covered(m, TRUE)}
            /\ stale' = stale \cup {e.deleted : e \in {x \in ToSet(queue) : x.type = "message_deleted"}}
            /\ UNCHANGED <<unkept, leftBehind>>
  /\ UNCHANGED <<room, outbox, tab, state>>

(* onStatus(false) *)
Down ==
  /\ link = "lost"
  /\ link' = "down"
  /\ wasDown' = here
  /\ UNCHANGED <<room, outbox, queue, drops, here, visits, shown, pages, restriction, state, history>>

(* Faulty variant: nothing is caught up. *)
UpForgets ==
  /\ link = "down"
  /\ link' = "open"
  /\ wasDown' = FALSE
  /\ UNCHANGED <<room, outbox, queue, drops, here, visits, shown, pages, restriction, state, history>>

(* An invalidation: with data, a fetch under way is dropped for a new one;  *)
(* without, it is kept.                                                     *)
Refetch ==
  IF cache.have \/ stateFetch.stage = "idle" THEN stateFetch' = [NoFetch EXCEPT !.stage = "asked"]
  ELSE UNCHANGED stateFetch

(* onStatus(true): after a time down, what was sent since the newest message *)
(* on the screen is asked for, and the chat state.                           *)
Up ==
  /\ link = "down"
  /\ link' = "open"
  /\ wasDown' = FALSE
  /\ IF here /\ wasDown
     THEN /\ Refetch
          /\ pages' = IF Newest = 0 THEN pages
                      ELSE [pages EXCEPT ![drops] = [stage |-> "asked", after |-> Newest, found |-> {}]]
          /\ gaps' = IF Newest = 0 THEN gaps \cup {m \in Unseen(DOMAIN pages) : ~Awaited(m)} ELSE gaps
          /\ leftBehind' = IF ~cache.have /\ stateFetch.stage = "read" /\ stateFetch.at # facts THEN First("missed")
                       ELSE leftBehind
     ELSE UNCHANGED <<pages, stateFetch, gaps, leftBehind>>
  /\ UNCHANGED <<room, outbox, queue, drops, here, visits, shown, cache, restriction, stale, unkept>>

(* The server has taken the subscription. *)
Subscribed ==
  /\ link = "open" /\ here
  /\ link' = "heard"
  /\ UNCHANGED <<room, outbox, queue, drops, tab, state, history>>

-----------------------------------------------------------------------------
(* Opening and leaving the page *)

(* The effect: the history is asked for, then the subscription.  The chat   *)
(* state is asked for unless it is cached and young.                        *)
Enter(young) ==
  /\ ~here
  /\ visits < MaxEntries
  /\ visits' = visits + 1
  /\ here' = TRUE
  /\ wasDown' = FALSE
  /\ pages' = [f \in 0..MaxDrops |-> IF f = 0 THEN [NoPage EXCEPT !.stage = "asked"] ELSE NoPage]
  /\ young => cache.have
  /\ IF young \/ stateFetch.stage # "idle"
     THEN /\ UNCHANGED stateFetch
          /\ leftBehind' = IF stateFetch.stage # "asked" THEN First("cached") ELSE leftBehind
     ELSE /\ stateFetch' = [NoFetch EXCEPT !.stage = "asked"]
          /\ UNCHANGED leftBehind
  /\ UNCHANGED <<room, outbox, link, queue, drops, shown, restriction, cache, gaps, stale, unkept>>

(* Its cleanup: answers under way are ignored, except that of the chat      *)
(* state, which belongs to the cache.                                       *)
LeavePage ==
  /\ here
  /\ here' = FALSE
  /\ link' = IF link = "heard" THEN "open" ELSE link
  /\ queue' = <<>>
  /\ shown' = {} /\ pages' = [f \in 0..MaxDrops |-> NoPage] /\ wasDown' = FALSE
  /\ restriction' = "none"
  /\ gaps' = {} /\ stale' = {} /\ unkept' = {}
  /\ UNCHANGED <<room, outbox, drops, visits, state, leftBehind>>

-----------------------------------------------------------------------------
(* Answers.  One that fails fails on its way back: a request that is lost   *)
(* has the same end.                                                        *)

PageSize(f) == IF f = 0 THEN HistoryPage ELSE SincePage

(* The server reads a page: the newest undeleted messages after the cursor. *)
(* Older ones that it leaves out are behind the next cursor.                *)
PageRead(f) ==
  /\ pages[f].stage = "asked"
  /\ LET since == {m \in (1..posted) \ gone : m > pages[f].after}
         page == LastOf(PageSize(f), since)
     IN /\ pages' = [pages EXCEPT ![f].stage = "read", ![f].found = {Row(m) : m \in page}]
        /\ gaps' = gaps \cup {m \in Unseen(DOMAIN pages) \ page :
                                 (\E k \in page : m < k) /\ (m \in since \/ (m > Reach /\ ~Awaited(m)))}
  /\ UNCHANGED <<room, outbox, link, queue, drops, here, visits, shown, wasDown, restriction, state,
                 stale, unkept, leftBehind>>

(* Deleted text that comes to the screen after its deletion did *)
TooLate(rows) ==
  ((Ids(rows) \cup {r.quotes : r \in rows}) \cap gone) \ ComingDeletions

(* Rows that come with another mark than the server has now *)
Misremembered(rows) == {r.id : r \in {x \in rows : x.mine # (x.id \in reacted)}} \ Ids(shown)

(* load *)
PageArrives(f) ==
  /\ pages[f].stage = "read"
  /\ pages' = [pages EXCEPT ![f] = NoPage]
  /\ shown' = Merge(shown, pages[f].found)
  /\ stale' = stale \cup TooLate(pages[f].found)
  /\ unkept' = unkept \cup Misremembered(pages[f].found)
  /\ UNCHANGED <<room, outbox, link, queue, drops, here, visits, wasDown, restriction, state,
                 gaps, leftBehind>>

(* Its error is swallowed, and nothing asks again. *)
PageFails(f) ==
  /\ pages[f].stage = "read"
  /\ pages' = [pages EXCEPT ![f] = NoPage]
  /\ gaps' = gaps \cup {m \in Unseen(DOMAIN pages \ {f}) : m > pages[f].after}
  /\ UNCHANGED <<room, outbox, link, queue, drops, here, visits, shown, wasDown, restriction, state,
                 stale, unkept, leftBehind>>

StateRead ==
  /\ stateFetch.stage = "asked"
  /\ stateFetch' = [stage |-> "read", at |-> facts, voted |-> cast]
  /\ UNCHANGED <<room, outbox, link, queue, drops, tab, cache, history>>

(* The answer replaces what events have told meanwhile. *)
StateArrives ==
  /\ stateFetch.stage = "read"
  /\ stateFetch' = NoFetch
  /\ cache' = [have |-> TRUE, at |-> stateFetch.at, vote |-> PollOf(stateFetch.at["poll"]) \in stateFetch.voted]
  /\ leftBehind' = IF cache.have /\ \E f \in Fields : stateFetch.at[f] < cache.at[f] THEN First("overwritten")
               ELSE leftBehind
  /\ UNCHANGED <<room, outbox, link, queue, drops, tab, gaps, stale, unkept>>

(* Every try failed. *)
StateFails ==
  /\ stateFetch.stage = "read"
  /\ stateFetch' = NoFetch
  /\ leftBehind' = First("failed")
  /\ UNCHANGED <<room, outbox, link, queue, drops, tab, cache, gaps, stale, unkept>>

-----------------------------------------------------------------------------
(* socket.on: the events, in the order in which they were published *)

Next1(t) == here /\ queue # <<>> /\ Head(queue).type = t /\ queue' = Tail(queue)

ChatMessage ==
  /\ Next1("chat_message")
  /\ shown' = Merge(shown, {Head(queue).row})
  /\ stale' = stale \cup TooLate({Head(queue).row})
  /\ unkept' = unkept \cup Misremembered({Head(queue).row})
  /\ UNCHANGED <<room, outbox, link, drops, here, visits, pages, wasDown, restriction, state,
                 gaps, leftBehind>>

(* Faulty variant: the replies keep the text. *)
MessageDeletedOnly ==
  /\ Next1("message_deleted")
  /\ shown' = {r \in shown : r.id # Head(queue).deleted}
  /\ UNCHANGED <<room, outbox, link, drops, here, visits, pages, wasDown, restriction, state, history>>

MessageDeleted ==
  /\ Next1("message_deleted")
  /\ LET id == Head(queue).deleted IN
       shown' = {IF r.quotes = id THEN [r EXCEPT !.quotes = 0] ELSE r : r \in {x \in shown : x.id # id}}
  /\ UNCHANGED <<room, outbox, link, drops, here, visits, pages, wasDown, restriction, state, history>>

ReactionUpdate ==
  /\ Next1("counts")
  /\ shown' = {IF r.id = Head(queue).of THEN [r EXCEPT !.counted = Head(queue).counted] ELSE r : r \in shown}
  /\ UNCHANGED <<room, outbox, link, drops, here, visits, pages, wasDown, restriction, state, history>>

(* Faulty variant: the vote is kept whatever the poll. *)
PatchStateKeeping ==
  /\ Next1("patch")
  /\ LET e == Head(queue) IN
       /\ cache' = IF cache.have
                   THEN [cache EXCEPT !.at[e.field] = e.n,
                                      !.vote = IF e.field = "poll" THEN e.mine \/ cache.vote ELSE @]
                   ELSE cache
       /\ leftBehind' = IF cache.have
                    THEN IF e.n < cache.at[e.field] THEN First("reordered") ELSE leftBehind
                    ELSE IF ~KnownAnyway(e) THEN First("early") ELSE leftBehind
  /\ UNCHANGED <<room, outbox, link, drops, tab, stateFetch, gaps, stale, unkept>>

(* patchState: nothing to patch before the first answer.  A poll keeps the  *)
(* vote that is known of it, for the broadcast does not carry one.          *)
PatchState ==
  /\ Next1("patch")
  /\ LET e == Head(queue) IN
       /\ cache' = IF cache.have
                   THEN [cache EXCEPT !.at[e.field] = e.n,
                                      !.vote = IF e.field = "poll"
                                               THEN e.mine \/ (PollOf(e.n) = PollOf(cache.at["poll"]) /\ @)
                                               ELSE @]
                   ELSE cache
       /\ leftBehind' = IF cache.have
                    THEN IF e.n < cache.at[e.field] THEN First("reordered") ELSE leftBehind
                    ELSE IF ~KnownAnyway(e) THEN First("early") ELSE leftBehind
  /\ UNCHANGED <<room, outbox, link, drops, tab, stateFetch, gaps, stale, unkept>>

Moderation ==
  /\ Next1("moderation")
  /\ restriction' = Head(queue).action
  /\ UNCHANGED <<room, outbox, link, drops, here, visits, shown, pages, wasDown, state, history>>

(* The end of a timeout comes without an event; the box looks at the clock. *)
TimeoutEnds ==
  /\ sanction = "timeout" /\ restriction = "timeout"
  /\ sanction' = "none"
  /\ restriction' = "over"
  /\ UNCHANGED <<posted, gone, quote, reacted, facts, cast, changes, outbox, link, queue, drops,
                 here, visits, shown, pages, wasDown, state, history>>

-----------------------------------------------------------------------------
(* What the user does.  A frame sent without a connection goes nowhere; a   *)
(* message sent before the subscription is in place is handled after it.    *)
(* Only the message box looks whether there is a connection.                *)

(* The box is emptied in every case. *)
Submit ==
  /\ CanSend
  /\ \/ /\ link = "heard" /\ sanction = "none"
        /\ \E q \in {0} \cup Ids(shown) : q \notin gone /\ Post(q)
     \/ UNCHANGED <<room, outbox>>
  /\ UNCHANGED <<link, queue, drops, tab, state, history>>

(* react: the mark and its count are shown at once, whatever the server     *)
(* makes of it.                                                             *)
React(m) ==
  /\ CanReact /\ Bounded
  /\ \E r \in shown :
       /\ r.id = m
       /\ \E on \in Chip(r) \cup Picker :
            /\ shown' = (shown \ {r}) \cup {[r EXCEPT !.mine = on, !.counted = on]}
            /\ \/ /\ link \in {"open", "heard"} /\ m \notin gone
                  /\ reacted' = IF on THEN reacted \cup {m} ELSE reacted \ {m}
                  /\ Tell([type |-> "reaction_update", liked |-> m])
                  /\ unkept' = unkept \ {m}
               \/ /\ unkept' = unkept \cup {m}
                  /\ UNCHANGED <<reacted, outbox>>
  /\ UNCHANGED <<posted, gone, quote, facts, cast, sanction, link, queue, drops,
                 here, visits, pages, wasDown, restriction, state, gaps, stale, leftBehind>>

(* vote: the voter is answered directly, the room by a later update; or    *)
(* the server refuses, or the frame is lost.                                *)
Vote ==
  /\ Choosing
  /\ LET p == PollOf(cache.at["poll"])
         Now(mine) == [type |-> "patch", field |-> "poll", n |-> facts["poll"], mine |-> mine]
     IN \/ /\ link \in {"open", "heard"}
           /\ Open(facts["poll"]) /\ PollOf(facts["poll"]) = p /\ p \notin cast
           /\ cast' = cast \cup {p}
           /\ Tell(Now(FALSE))
           /\ queue' = Append(queue, Now(TRUE))
        \/ UNCHANGED <<cast, outbox, queue>>
  /\ UNCHANGED <<posted, gone, quote, reacted, facts, sanction, changes, link, drops, tab, state, history>>

-----------------------------------------------------------------------------
Next ==
  \/ PostedByOthers \/ \E m \in Msgs : Delete(m) \/ React(m) \/ ReactedElsewhere(m)
  \/ VotedElsewhere
  \/ \E f \in Fields : Change(f)
  \/ \E s \in {"none"} \cup Sanctions : Sanction(s)
  \/ \E e \in outbox : Publish(e)
  \/ Lost \/ Down \/ Up \/ Subscribed
  \/ \E young \in BOOLEAN : Enter(young)
  \/ LeavePage
  \/ \E f \in DOMAIN pages : PageRead(f) \/ PageArrives(f) \/ PageFails(f)
  \/ StateRead \/ StateArrives \/ StateFails
  \/ ChatMessage \/ MessageDeleted \/ ReactionUpdate \/ PatchState \/ Moderation \/ TimeoutEnds
  \/ Submit \/ Vote

Spec == Init /\ [][Next]_vars

-----------------------------------------------------------------------------
(* The page listens, and nothing is on its way. *)
Quiet ==
  /\ here /\ link = "heard" /\ queue = <<>> /\ outbox = {}
  /\ \A f \in DOMAIN pages : pages[f].stage = "idle"

(* When all is quiet the newest messages of the room are on the screen,     *)
(* except those that slipped through: their event went by while nobody      *)
(* listened, and no page that was read later, went by a cursor before them, *)
(* arrived, and was long enough, holds them.  The chat's documentation      *)
(* promises more, that the catch-up returns what was missed: it is one page *)
(* of the newest, asked for once, and not at all by an empty screen.  What  *)
(* this says is that nothing is lost in any other way.                      *)
NothingMissed ==
  Quiet => LastOf(Keep, 1..posted) \ gone \subseteq Ids(shown) \cup gaps

(* A deleted message, and its text in a reply to it, leaves the screen with *)
(* the event that says so, unless that event was missed, or an answer or an *)
(* event from before the deletion came after it.                            *)
DeletedGone ==
  here => \A r \in shown : ({r.id, r.quotes} \cap gone) \subseteq ComingDeletions \cup stale

(* When all is quiet the pin, the settings and the poll shown are those of  *)
(* the room, unless one of six things happened: an event went by unheard,   *)
(* or before there was anything to patch; an older answer overwrote it; two *)
(* events changed places; the answer failed; a young cache was trusted.     *)
StateIsCurrent ==
  Quiet /\ cache.have /\ stateFetch.stage = "idle" /\ leftBehind = "none" => cache.at = facts

(* What is shown as one's own is so on the server: a vote in the poll on    *)
(* the screen, and a reaction, unless the server did not take it, it was    *)
(* turned in another tab since, or the row itself came late.  A turn the    *)
(* server does take sets a mark that went wrong right again.                *)
OwnMarksAreTrue ==
  /\ cache.vote => PollOf(cache.at["poll"]) \in cast
  /\ \A r \in shown : r.id \notin unkept \cup gone => r.mine = (r.id \in reacted)
=============================================================================
