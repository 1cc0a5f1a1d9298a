------------------------------- MODULE WebCache ------------------------------
(***************************************************************************)
(* One query in the cache of TanStack Query (app/providers.tsx, lib/data.ts,*)
(* lib/session.ts) while the user moves between the pages of WebData, uses *)
(* their buttons, signs in and out, and others change the same facts.      *)
(* Requests are answered late, in another order or not at all.             *)
(***************************************************************************)
EXTENDS WebData

VARIABLES
  query,         \* the query that is followed
  place,         \* the page on screen
  who,           \* whose tokens the tab has
  truth,         \* the server: how often its answer to the query changed
  entry,         \* the query in the cache
  fetch,         \* its request in flight
  jobs,          \* mutations in flight
  written,       \* history: the last change whose answer this user has seen
  why,           \* history: why the entry is older than that
  outlived,       \* history: a session ended without a sign-out, or an answer came after it
  news,          \* a live event about the query is on its way
  spent          \* mutations, sign-ins and losses so far

webVars == <<query, place, who, truth, entry, fetch, jobs, written, why, outlived, news, spent>>

None == -1
Empty == [data |-> None, for |-> Guest, stale |-> FALSE]
Idle == [at |-> "idle", version |-> None, for |-> Guest, late |-> "none"]

(* Who asks matters where the answer depends on it. *)
Asker(w) == IF query \in Personal THEN w ELSE Guest
Users == IF query \in Personal THEN Accounts ELSE {CHOOSE a \in Accounts : TRUE}

Asked(w) == [at |-> "asked", version |-> None, for |-> Asker(w), late |-> "none"]

Cached(v, w) == [data |-> v, for |-> w, stale |-> FALSE]

Enabled(w) == query \in NeedsUser => w # Guest

(* A mounted component shows the query, and may ask for it. *)
Observed(p, w) == query \in Reads[p] /\ Enabled(w)

(* stale: staleTime has passed, or invalidateQueries was called. *)
Stale(e) == e.data = None \/ e.stale

(* A component mounts: a query that is stale is fetched, unless it is being *)
(* fetched.                                                                 *)
Mounted(e, f, p, w) == IF Observed(p, w) /\ Stale(e) /\ f.at = "idle" THEN Asked(w) ELSE f

(* invalidateQueries: the entry is marked; if it is on screen it is fetched, *)
(* and a fetch under way is given up for a new one, unless it is the first. *)
Invalid(e) == IF e.data = None THEN e ELSE [e EXCEPT !.stale = TRUE]

Refetched(e, f) ==
  IF Observed(place, who) /\ (f.at = "idle" \/ e.data # None) THEN Asked(who)
  ELSE IF f.at = "read" THEN [f EXCEPT !.late = IF e.data = None THEN "first load" ELSE "hidden"]
  ELSE f

WebInit ==
  /\ query \in Queries
  /\ place = "home" /\ who \in {Guest, CHOOSE a \in Users : TRUE}
  /\ truth = 0
  /\ entry = Empty
  /\ fetch = Mounted(Empty, Idle, "home", who)
  /\ jobs = {} /\ written = 0 /\ why = "none"
  /\ outlived = FALSE /\ news = FALSE
  /\ spent = 0

Spends == spent < Budget /\ spent' = spent + 1

(* The request in flight has read the server before a change the user has seen. *)
Overtaken(reason, seen) ==
  IF fetch.at = "read" /\ fetch.version < seen THEN [fetch EXCEPT !.late = reason] ELSE fetch

(* The reason is kept only while there is something to explain. *)
Because(reason, e, seen) == IF e.data = None \/ e.data >= seen THEN "none" ELSE reason

-----------------------------------------------------------------------------
(* Pages *)

(* What pressing b does to query q, if anything *)
Effect(q, b) ==
  [sets |-> q \in b.sets, needs |-> q \in b.needs, leads |-> b.leads,
   touches |-> Shows[q] \cap b.changes # {}, refreshes |-> q \in b.refreshes]

Effects ==
  [q \in Queries |-> [p \in Places |->
     {e \in {Effect(q, b) : b \in Buttons[p]} : e.touches \/ e.refreshes \/ e.sets}]]

(* Pages that are the same to the query are one: a bound. *)
View(q, p) == <<q \in Reads[p], Effects[q][p], p \in Members, p = "login", p = "channel" /\ q \in ChannelQueries>>

Stops ==
  [q \in Queries |-> {p \in Places : p = IF View(q, p) = View(q, "home") THEN "home" ELSE CHOOSE r \in Places : View(q, r) = View(q, p)}]

(* RequireAuth *)
Visit(p) ==
  /\ p # place
  /\ p \in Members => who # Guest
  /\ place' = p
  /\ fetch' = Mounted(entry, fetch, p, who)
  /\ UNCHANGED <<query, who, truth, entry, jobs, written, why, outlived, news, spent>>

(* A button waits for the account, for the data it needs, in the studio for *)
(* the channel too, and for its own answer.                                 *)
Loaded(e) ==
  /\ query = "me" => entry.for # Guest
  /\ e.needs \/ (query = "mine" /\ place \in DOMAIN StudioPages) => entry.data # None

Press(e) ==
  /\ who # Guest /\ Loaded(e)
  /\ Spends
  /\ e.sets \/ jobs = {}      \* bound: two at once only where their answers set data
  /\ Cardinality({j \in jobs : j.does = e}) < Cardinality({b \in Buttons[place] : Effect(query, b) = e})
  /\ jobs' = jobs \cup {[id |-> spent', does |-> e, at |-> "sent", version |-> None, by |-> who]}
  /\ UNCHANGED <<query, place, who, truth, entry, fetch, written, why, outlived, news>>

-----------------------------------------------------------------------------
(* The server *)

Changes == truth < MaxChanges /\ truth' = truth + 1

(* A mutation is done and answered, or the answer is lost, or it is refused *)
(* (retry: 0).                                                              *)
Serve(j) ==
  /\ j.at = "sent"
  /\ \/ /\ IF j.does.touches THEN Changes ELSE UNCHANGED truth
        /\ \/ jobs' = (jobs \ {j}) \cup {[j EXCEPT !.at = "done", !.version = truth']} /\ UNCHANGED spent
           \/ jobs' = jobs \ {j} /\ Spends
     \/ jobs' = jobs \ {j} /\ Spends /\ UNCHANGED truth
  /\ UNCHANGED <<query, place, who, entry, fetch, written, why, outlived, news>>

(* Another tab, another user, or the stream: once, and first (a bound) *)
Elsewhere ==
  /\ truth = 0 /\ Changes
  /\ news' = (query \in BellQueries \cup ChannelQueries)
  /\ UNCHANGED <<query, place, who, entry, fetch, jobs, written, why, outlived, spent>>

Read ==
  /\ fetch.at = "asked"
  /\ fetch' = [fetch EXCEPT !.at = "read", !.version = truth]
  /\ UNCHANGED <<query, place, who, truth, entry, jobs, written, why, outlived, news, spent>>

-----------------------------------------------------------------------------
(* The cache *)

FetchArrives ==
  /\ fetch.at = "read"
  /\ entry' = Cached(fetch.version, fetch.for)
  /\ why' = Because(IF fetch.late # "none" THEN fetch.late ELSE why, entry', written)
  /\ fetch' = Idle
  /\ UNCHANGED <<query, place, who, truth, jobs, written, outlived, news, spent>>

(* Also the second try (retry: 1) has failed: what is cached stays, marked. *)
FetchFails ==
  /\ fetch.at \in {"asked", "read"}
  /\ Spends
  /\ fetch' = Idle
  /\ entry' = Invalid(entry)
  /\ why' = Because("failed", entry, written)
  /\ UNCHANGED <<query, place, who, truth, jobs, written, outlived, news>>

(* onSuccess of a mutation: also when its page, or its user, is gone. *)
Answer(j) ==
  /\ j.at = "done"
  /\ jobs' = jobs \ {j}
  /\ outlived' = (outlived \/ (j.does.sets /\ j.by # who))
  /\ LET b == j.does
         stays == b.leads = "same" \/ who = Guest
         next == IF stays THEN place ELSE b.leads
         seen == IF b.touches /\ j.by = who /\ j.version > written THEN j.version ELSE written
     IN
     /\ written' = seen
     /\ place' = next
     /\ IF b.sets
        THEN /\ entry' = Cached(j.version, j.by)
             /\ fetch' = Overtaken("set", seen)
             /\ why' = Because("order", entry', seen)
        ELSE IF b.refreshes
        THEN /\ entry' = Invalid(entry)
             /\ fetch' = Mounted(entry', Refetched(entry, fetch), next, who)
             /\ why' = Because(why, entry, seen)
        ELSE /\ UNCHANGED entry
             /\ fetch' = Mounted(entry, Overtaken("gap", seen), next, who)
             /\ why' = Because("gap", entry, seen)
  /\ UNCHANGED <<query, who, truth, news, spent>>

(* 15 seconds, or more for some *)
Ages ==
  /\ ~Stale(entry)
  /\ entry' = Invalid(entry)
  /\ UNCHANGED <<query, place, who, truth, fetch, jobs, written, why, outlived, news, spent>>

(* Five minutes off screen *)
Collected ==
  /\ entry.data # None /\ ~Observed(place, who) /\ fetch.at = "idle"
  /\ entry' = Empty /\ why' = "none"
  /\ UNCHANGED <<query, place, who, truth, fetch, jobs, written, outlived, news, spent>>

(* refetchInterval *)
Poll ==
  /\ query \in Polled /\ Observed(place, who) /\ fetch.at = "idle"
  /\ fetch' = Asked(who)
  /\ UNCHANGED <<query, place, who, truth, entry, jobs, written, why, outlived, news, spent>>

(* A live event: the bell asks again on every page, the others on the       *)
(* channel's; or the event is lost.                                         *)
Hears ==
  /\ news
  /\ news' = FALSE
  /\ \/ /\ \/ query \in BellQueries /\ who # Guest
           \/ query \in ChannelQueries /\ place = "channel"
        /\ entry' = Invalid(entry) /\ fetch' = Refetched(entry, fetch)
        /\ UNCHANGED spent
     \/ UNCHANGED <<entry, fetch>> /\ Spends
  /\ UNCHANGED <<query, place, who, truth, jobs, written, why, outlived>>

-----------------------------------------------------------------------------
(* Who is signed in *)

SignedIn(a) ==
  /\ place = "login" /\ who = Guest
  /\ Spends
  /\ who' = a /\ place' = "home" /\ written' = 0
  /\ UNCHANGED <<query, truth, jobs, outlived, news>>

(* The account is put into the cache; everything else stays as it was. *)
LogsIn(a) ==
  /\ SignedIn(a)
  /\ IF query = "me" THEN entry' = Cached(truth, a) /\ why' = "none" ELSE UNCHANGED <<entry, why>>
  /\ fetch' = Mounted(entry', fetch, "home", a)

(* The account is asked for and dropped: the page fetches it again if what  *)
(* is cached is stale.                                                      *)
Registers(a) ==
  /\ SignedIn(a)
  /\ fetch' = Mounted(entry, fetch, "home", a)
  /\ UNCHANGED <<entry, why>>

(* Faulty variant: the cache is kept. *)
SignOutKeeps ==
  /\ who # Guest
  /\ who' = Guest /\ place' = "home" /\ written' = 0 /\ why' = "none" /\ outlived' = FALSE
  /\ fetch' = Mounted(entry, fetch, "home", Guest)
  /\ UNCHANGED <<query, truth, entry, jobs, news, spent>>

(* useLogout: removeQueries, whatever the server says; then the account is  *)
(* set to null.                                                             *)
SignOut ==
  /\ who # Guest
  /\ who' = Guest /\ place' = "home" /\ written' = 0 /\ why' = "none" /\ outlived' = FALSE
  /\ entry' = IF query = "me" THEN Cached(truth, Guest) ELSE Empty
  /\ fetch' = Mounted(Empty, Idle, "home", Guest)
  /\ UNCHANGED <<query, truth, jobs, news, spent>>

(* The refresh token is no longer good (clearSession of the API client):    *)
(* the cache stays.                                                         *)
SessionEnds ==
  /\ who # Guest
  /\ Spends
  /\ who' = Guest /\ outlived' = TRUE /\ written' = 0 /\ why' = "none"
  /\ UNCHANGED <<query, place, truth, entry, fetch, jobs, news>>

WebNext ==
  \/ \E p \in Stops[query] : Visit(p)
  \/ \E e \in Effects[query][place] : Press(e)
  \/ \E j \in jobs : Serve(j) \/ Answer(j)
  \/ Elsewhere \/ Read \/ FetchArrives \/ FetchFails \/ Ages \/ Collected \/ Poll \/ Hears
  \/ \E a \in Users : LogsIn(a) \/ Registers(a)
  \/ SignOut \/ SessionEnds

WebSpec == WebInit /\ [][WebNext]_webVars

-----------------------------------------------------------------------------
(* Queries that show a change by some button whose answer leaves them as they are *)
Gaps ==
  {"followers", "prefs", "channels",                              \* follow and unfollow
   "video", "allVideos", "search",                                \* uploads, edits and deletions of videos
   "allRecordings", "byTime", "newest",                           \* deletion of a recording
   "bans", "modActions"}                                          \* a time-out, a lifted ban

(* What the user has done, and has been answered, is what the screen shows, *)
(* and what the cache takes for fresh.  The list that was asked for before  *)
(* and arrives later is the exception: during the first load, on a page     *)
(* that was left, or over data an answer has set; and two answers that set  *)
(* the account in the wrong order.                                          *)
OwnChangesShown ==
  /\ entry.data # None /\ fetch.at = "idle"
  /\ Observed(place, who) \/ ~Stale(entry)
  /\ entry.data < written
  => why \in {"first load", "hidden", "set", "order", "failed"} \/ (why = "gap" /\ query \in Gaps)

(* What belongs to one account is not shown to another, or to a guest,      *)
(* unless the session was outlived without a sign-out or an answer came      *)
(* after it; a guest's view may outlive the sign-in.                        *)
NothingOfOthers ==
  entry.data # None /\ query \in Personal /\ ~outlived
    => entry.for \in {who, Guest}
=============================================================================
