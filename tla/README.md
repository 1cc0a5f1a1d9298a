# Verification of adda

adda is a self-hosted streaming site: a FastAPI backend (`backend/`) over Postgres and
Redis, a Next.js web app (`web/`) and a media server. People follow channels, watch, chat,
react and vote while a channel is live, and upload videos. This directory holds TLA+ models
of the parts of the backend and of the web app whose correctness depends on the order of
things, the TLC runs that check them on small instances, and TLAPS proofs for every size.

    tlc -workers 2 -config presence.cfg MCPresence      # one run
    tlapm Presence_proofs.tla                           # one module's proofs

## 1. The system

The backend is asyncio: one process, one thread, any number of coroutines (HTTP requests,
WebSocket handlers, background tasks). Code between two `await`s is atomic; every call to
Postgres, Redis, ffmpeg or a socket is an `await`, and any other coroutine may run there.
Several backends may share one Postgres and one Redis; events go to all of them through one
Redis channel. A tab of the web app is a single thread of callbacks: what runs between two
answers, events or clicks is atomic, and the tabs of a browser share `localStorage` only. So
the grain of every model here is: one step is one call, answer, event or click together with
the code up to the next one.

| Component | State | Operations | What is hard |
| --- | --- | --- | --- |
| Video uploads (`modules/videos`) | row (`status`, `received_bytes`, `updated_at`), folder on disk (`upload.part`, `video.*`, poster), set of preparation tasks | start, chunk, complete, prepare (probe, remux, poster), delete, purge, resume after restart | row and disk change in different steps; chunks and completes repeat and overlap, with no lock; the process stops anywhere |
| Polls (`chat/service/polls.py`) | poll and option rows, vote rows, Redis hash, one throttled update task | create, vote, view, update, end, close when expired | a vote is a row and then an increment; readers rebuild the hash; several closers; Redis loses data |
| Reactions (`chat/service/reactions.py`) | reaction rows, the batcher's set of marked messages and its task | toggle, mark, flush | check then insert from two sockets; a mark while a flush is running |
| Connections and presence (`realtime`) | per backend: `connections`, `channel_peers`, a lock; in Redis: a set per topic | connect, subscribe, unsubscribe, disconnect, deliver | handler and listener disconnect the same socket; the set is shared, the check is local; a call to Redis that raises leaves the rest undone |
| Chat send (`chat/service/messages.py`, `limits.py`, `moderation.py`) | messages, bans, settings, Redis counters | send (eight checks in order), ban, lift | checks are old when the row is written; counters are two calls |
| Stream monitor (`streaming/service/monitor.py`, `thumbs.py`, `notifications`) | Redis hash of live channels, thumbnail tasks per backend, notification rows | tick: list, compare, record, announce, ring the followers' bells | the media server fails; a stop between record, announcement and bells; two backends with old lists |
| Sessions (`auth/service/refresh_tokens.py`, `web/src/lib/api/client.ts`, `session.ts`) | refresh-token rows; the pair in `localStorage`; one refresh per tab | login, register, rotate, reuse detection, logout, retried request | a lost answer or a second tab looks like theft; an old answer overwrites the pair of a new session |
| Socket of the web app (`web/src/lib/api/ws.ts`) | `ws`, `openedWith`, `channels`, reconnect timer, callers that await a refresh | connect, open, callbacks, subscribe, disconnect | callbacks of sockets that were given up or overwritten, whose error closes another; a token that ages or changes meanwhile |
| Chat client (`web/src/lib/use-community-chat.ts`, `components/chat`) | messages on screen, cached chat state, own marks, what it knows of a sanction | history, live events, catch-up, react, vote, send | fetch, subscription and events race; the catch-up is one page; a poll's broadcast carries no vote |
| Upload client (`use-video-upload.ts`, `video-upload.ts`, `components/studio/video-*`) | phase on the card, `control.current`, offset and failures of each run | start, resume, cancel, discard, delete, leave | one `control` for several runs; cancel reaches some requests only |
| Pages and query cache (`app`, `components`, `lib/data.ts`) | one cache entry per query, its fetch, mutations in flight | visit, press a button, answer, invalidate, poll, sign in and out | a fetch sent before a change arrives after it; a button that forgets a query; a cache that outlives its user |
| Follows, moderators, emotes, recordings, browse, stats, profiles, settings | rows | CRUD and queries | single-row writes; only unique indexes against check-then-insert |

How they interact. A request or a socket message runs a handler, which writes Postgres, may
write Redis and then calls `manager.broadcast`; the listener of every backend delivers the
event to its sockets. The batcher, the poll updater, video preparation and the stream monitor
are background tasks of the backend; the monitor closes expired polls on each tick. In a tab every
request and every socket takes its token from the session; the socket carries the topics of the
hooks that are mounted; the chat reads history and state over requests and patches them by
events; the other events make cached queries stale, and so do the answers of buttons.

## 2. Modules

One module per component. The backend's components share no variables: they meet in
`broadcast`, whose effect each module keeps as what the room was last told (`room` in `Polls`,
`shown` in `Reactions`, `aired` in `Monitor`). In a tab they meet in the token pair, for which
`Tokens` is the interface: `Session` implements it and `Socket` is built on it.

| Module | Models | Runs | Proofs |
| --- | --- | --- | --- |
| `VideoUpload` | one uploaded video on the server | `video_races`, `background`, `video_restart_loses` | `Background_proofs` |
| `Monitor` | the stream monitors of several backends | `background` | `Background_proofs` |
| `Polls` | one poll of a channel | `polls`, `polls_closes` | `Polls_proofs` |
| `Reactions` | the reactions of one channel and its batcher | `reactions` | `Reactions_proofs` |
| `Presence` | the connection managers of several backends, for one topic | `presence` | `Presence_proofs` |
| `ChatSend` | messages sent to one channel's chat, against bans, follows and the limits in Redis | `chat_send` | `ChatSend_proofs` |
| `Tokens` | what a session promises one tab: the abstract specification | through `Session` and `Socket` | `Session_proofs` |
| `Session` | the session of one account in one browser, and its rows on the server | `session` | `Session_proofs` |
| `Socket` | the WebSockets of one tab, over `Tokens` | `socket` | `Socket_proofs` |
| `ChatClient` | the chat of one tab, against a room that changes | `chat_client` | `Web_proofs` |
| `UploadClient` | sending videos from the studio | `studio` | `Web_proofs` |
| `WebData` | what every page reads and what every button does: constants only | through `WebCache` | `Web_proofs` |
| `WebCache` | one cached query, over all pages and buttons of `WebData` | `studio` | `Web_proofs` |

`MC…` modules instantiate them for TLC; `MCBackground` follows either a video or the streams, and
`MCStudio` either an upload or a query, because the two halves share no state (of the studio's,
the list of videos only, whose changes by the upload card are buttons of `WebData`). Definitions
whose comment starts with "Faulty variant" are not used by any specification: each is the neighbouring
definition with a plausible bug, kept to confirm that the properties notice it.

Most models carry history variables. They record the ways in which a promise is known to be lost
(a vote `torn` from its count, exchanges that `crossed`, a `mishap`, a message in the `gaps`), each set in the step in which the code
loses it and named after it. A property then says that there is no other way.
### VideoUpload

Units of the file are numbered, so `part` is the sequence of units that `upload.part` holds and
"the right bytes in the right order" is `part[i] = i`. A chunk request is `ChunkLoad` (row read,
status checked), then `ChunkAppend` or `ChunkConflict` (body read, offset compared with the file,
appended: no await in between), then `ChunkSave` (commit). A complete is `CompleteLoad`,
`CompleteCheck`, `CompleteCommit`; deletion and purge are `DeleteFiles` or `Purge` and then
`DeleteCommit`. The preparation task is `TaskStart`, a probe step per outcome, `RemuxOpen` and
`RemuxDone` around ffmpeg, `Poster`, and one of two commits. `Crash` forgets every request and
task and may leave a chunk half written; `Restart` is `resume_processing`, which the lifespan runs
before the first request, and `PurgeCut` a crash within the purge of that start (these are
not counted against `MaxCrashes`: they leave the state as it was but for the removed files). Nothing limits which requests overlap.

`mishaps` records what the code leaves open: a `second complete` (a request that had read UPLOADING commits after another), a
`late chunk` (appended when the video is no longer UPLOADING), a `stub resumed` (a restart that prepares such a chunk), a
`deletion cut` (a crash exactly between the files and the row of a deletion or purge).

- `PartIsPrefix`: whatever chunks overlap, repeat or die, the part file is a gap-free beginning of
  the file. `NeverAheadOfDisk`: `received_bytes`, where a paused upload resumes, never claims more, unless its files are being
  deleted (`DeletePending`) or a deletion was cut.
- `ReadyIsWhole`: a ready video serves the whole upload, unless its deletion is under way or was cut, a second complete came, or a
  stub was resumed. `StatusForward`: no request turns a status back, but a second complete.
- `FailedLeavesNothing`: a refused video leaves nothing on disk but what a late chunk wrote, unless a second complete came.
- `PreparationEnds`: a video does not stay in preparation, however often the backend restarts.

### Polls

`ballot` is the vote requests: `VoteCheck` (row read, status and time checked), `VoteCommit` (the
unique constraint decides), `VoteCount` (HINCRBY), `Schedule` (`schedule_update`, and for a socket
the read of the tally it answers with). `reader` is every coroutine inside `state` or `close`: views,
the updater, a socket's answer, closers. They share `_tally`: `HGetAll`, and when there is no hash
`ReadRows` and `Fill`. A closer goes on with `CloseCommit`, `DropKey` and `Tell`. `LoseRedis`,
`CountFails`, `ReadFails` and `Restart` are the failures.

History variables say when a promise can be kept: `torn` records that a vote was separated from its
count (a rebuild that overlapped a vote, an increment of a hash that had lost others, a vote that died
before its increment), `late` that a vote was in flight while the poll was closing, `due` the votes
answered when the close that committed began. `lowered` records that a close left alone a count it had loaded, while another
close wrote less there in between: the session writes the columns whose value it changed only.

- `LiveTallyExact`: the hash and the increments on their way are exactly the votes, unless torn.
- `ResultKeepsAnswered`: the result holds every vote answered before the close began, none twice, unless `lowered`. That takes
  three closes at once: one writes, a second loads what it wrote, the third writes less, and the second finds its count unchanged.
- `ResultFrozen`: a second closer changes no result (`close` "Safe to call twice").
- `ExpiredCloses`, `EndIsTold`: an expired poll closes whatever fails; without failures the room is told.

### Reactions

A socket toggles (`React`, `CountHave`, `Insert` or `Remove`) and then marks the message; a flush
task sleeps, pops the marked messages (`Pop`) and publishes each (`ReadCounts`, `Publish`).

- `CapWithinConnections`: the check and the insert are two calls, so the cap can be passed, but at
  most by the number of the account's other sockets.
- `ShownIsCounted`: the counts the room was last told of a message are its counts, unless the message
  is marked, about to be, being flushed, or was dropped by a failing flush: no change is forgotten.

### Presence

One topic. `registered`, `channels` and `peers` are the three views of who listens, `lock` the
manager's lock per backend, `handler` the socket's own coroutine, `drop` the `disconnect` that a
handler or the listener of a backend is in. `Crash` empties a backend's memory and leaves Redis. Every call to Redis may fail,
with or without having changed the set (`CallFails`): `PersonalAddFails` is the subscription before the handler's `try`, which ends
the handler at once and leaves the socket registered (`abandoned`); `AddFails` and `RemoveFails` end it through `disconnect`
(`broken`); `DropFails` is the call in `disconnect`, after which the other topics and `channels.clear()` are skipped
while `async with` gives the lock back (`cut`: the sockets left so). `unsure` are the accounts an SREM on its way met a socket
that listens or a SADD on its way, or a removal of which was never made.

- `PeersAgree`: while the lock is free, `channel_peers` and the connections' own channels agree, but for a socket in `cut`.
- `NoGhost`: a socket whose handler ended is in no dictionary, even if the listener had dropped it
  and it subscribed again in between; the two calls above leave it in one of them, never in both.
- `LockHasHolder`: whoever holds the lock is inside `disconnect`, also when a call there raises.
- `PresenceExact`: with its calls ended, an account that listens is in the set and one in the set has a
  subscribed socket, unless it is unsure.

### ChatSend

`req` is the message each socket is sending and `pc` the next call of `send_message`: `Load` (the
community row with its settings, the role), `CheckBan`, `CheckFollow`, `CheckSlow`, `TakeToken` and `Expire`
(INCR, and EXPIRE for the first), `CheckDuplicate` (SET NX), `Insert`, `StartSlow`. `PastBan`, `PastFollow`, `PastSlow`
and `Cleaned` say which checks are skipped for moderators and settings. Meanwhile `BanUser`, `Free`, `Follow` and
`Unfollow` change the rows, `SlowEnds`, `RateEnds` and `DuplicateEnds` are keys that run out, and `Dies` ends a handler at
any call. `sent`, `spaced` and `posted` are histories of what was stored while a key lived, `barred` the
reasons that held since the request was loaded, `orphaned` the accounts a handler of which died before EXPIRE.

Abstractions: the settings are not a variable, a request finds any; roles do not change; the counter stops at one above the
burst; a duplicate key outlives what lies between its SET and the commit (ten seconds against a
handful of queries); ban rows are a set of accounts.

- `BarredStaysOut`: a message whose account was banned, or had to follow and did not, when it was sent, and
  still is, gets past neither check, and takes no token or key. A ban that begins later may miss it.
- `SlowModeHolds`: the window starts after the message is stored, so every socket gets one message through, but
  no more, and one for every handler that died in between. `RateHolds`: likewise, a burst and what was on its way.
- `CounterHasLife`: a counter that would never expire has a handler about to set its expiry, unless it died.
- `DuplicateDropped`: of the same text sent at once by several sockets of an account one is stored.

### Monitor

`live` is what the media server has, `started` the Redis hash, `aired` what each room was told last,
`bells` the notification rows of the present stream, `watch` where the tick of each backend is. A tick is
`List` (`list_paths`), `Compare` (`hkeys`; `thumbs.sync` and the two differences follow without an await),
`RecordLive` or `RecordGone` (HSET, HDEL), `Air` (`_announce`) and one `Ring` per follower. `ListFails` is the media
server that does not answer: `list_paths` returns an empty list, and every stream seems to have ended. `TickFails`
and `RingFails` are the two places where exceptions are swallowed, `BackendStops` and `Boot` the process.
`mistaken`, `missed` and `astray` are the histories: streams made to look new again, streams whose bells
were cut short, channels whose last event was lost or overtaken.

- `AiredIsRecorded`: a room was told last what is recorded, once nobody is about to tell it.
- `BellOncePerStream`: no stream rings a bell twice, and each rings every bell once when its tick was not cut short.
- `FollowsTheStreams`: record and thumbnail tasks of every backend end up with the streams, whatever failed.

### Tokens and Session

`Tokens` knows the stored pair (`store`), whether its access token is `ageing`, and whether this tab awaits a refresh
(`busy`): a refresh ends with a new pair, with none, or with the pair kept; others may replace or clear the pair at any
time.

In `Session` a pair is the number of its `refresh_tokens` row; `rows` is what the server knows of it, `chain` the sign-in it
descends from. `flight` is the `refreshPromise` of each tab: asked, `RotateRead` (row read, refused when it is
revoked, expired or unknown; a revoked one revokes the whole account), `RotateCommit`, `RefreshArrives` (`setSession`,
or `clearSession` on a refusal) or `RefreshLost`. `call` is a request with its one retry after a 401, `entry` a sign-in or
registration, `leave` a sign-out. `crossed` records that two such exchanges overlapped.

- `OneLiveToken`: while exchanges do not overlap, a sign-in never has two usable refresh tokens, whatever is lost.
- `StoredIsUsable`: a browser whose exchanges neither overlap nor get lost is never taken for a thief.
- `InterfaceKept`: to each tab, `Session` is a behaviour of `Tokens` (the refinement maps `ageing` and `busy`).

### Socket

`sock` are the WebSocket objects with their states, `cur` is `this.ws`, `heard` says whether its `onclose` is still attached,
`waiters` counts the `connect()` calls that await `refreshSession`: each opens a socket of its own when it comes back
(`RefreshEnds`). `Mount` and `Unmount` are the hooks of the page, `Opens`, `Closes`, `Refused` and `Drops` the callbacks,
`TimerFires` the reconnect, `Disconnect` the sign-out, `TokenStep` what other requests and tabs do to the pair. A socket that is
closed before it opened is `aborting`: it reports an error before its close, and `OnError` closes `this.ws`, which may by then be
its successor. `mishaps` holds `crossed` once two sockets got in each other's way (opened over one another, or the close of an
older one reported after the newer opened), and `stranded` while nothing will bring `this.ws` back: a refresh that connect() awaited
failed, or a sign-out cleared the timer, and nothing opened a socket since.

- `HearsThePage`: an open `this.ws` carries the topics of the mounted hooks, no more and no less.
- `ConnectedIsTrue`: the page is told the truth about its connection, until sockets crossed. `Reconnects`: a page that listens gets
  it back, crossed or not, unless it is stranded.

### ChatClient

The room is the environment: it commits and publishes (`outbox`) a little later, in any order. `link` is the connection
(`down`, `open`, `heard`, and `lost` while the tab is not told yet), `queue` the events on their way, `pages` the
history and catch-up requests, `cache` and `stateFetch` the chat state. `Enter` and `LeavePage` are the effect and its cleanup;
`PageRead`, `PageArrives`, `StateRead`, `StateArrives` the two halves of a request; `ChatMessage`, `MessageDeleted`,
`ReactionUpdate`, `PatchState`, `Moderation` the events; `Submit`, `React`, `Vote` the user, as far as the panel offers
it; `ReactedElsewhere` and `VotedElsewhere` the same account in another tab or on another device. Four histories say what the tab could not learn: messages that slipped through (`gaps`), deletions it missed or that
something older followed (`stale`), messages whose mark may not be the server's (`unkept`: it did not take the reaction, another tab turned
it, or the row came late; a turn the server takes ends that), and the
first way in which the chat state was `leftBehind`.

- `NothingMissed`: when all is quiet the newest messages are on screen, except those in `gaps`. The docs promise these too (section 4).
- `DeletedGone`: deleted text, also in a reply, leaves with its event. `StateIsCurrent`: pin, settings and poll are
  those of the room, unless left behind. `OwnMarksAreTrue`: a vote shown as one's own, and a mark that is not `unkept`, is so on the server.

### UploadClient

`run` are the calls of `start` and `resume`, each at a request (`create`, `part`, `ask`, `finish`), at its answer, or waiting
before a retry; `phase`, `on` and `control` are the hook. The server is `VideoUpload` seen from outside: one step per
request, whose answer may be lost. The story of the user ends at the first `mishap` (two runs at once, a cancel
that no request listens to, another file chosen while one runs), which is a bound: what follows one is not promised.

- `ShownIsControlled`: what the card shows runs, and is what Cancel reaches; what runs is shown.
- `CancelledStaysAway`: an upload that was cancelled before the server had it whole is not published, even if its deletion is
  lost. Of one the server has whole (the answer to `complete` was lost) only the deletion can keep it from being published. `UploadEnds`: a shown upload is finished, deleted, or
  the user is told that it stopped.

### WebData and WebCache

`WebData` lists the 26 queries with the facts each shows, every component with the queries it reads and its buttons (what
a button changes, refreshes, sets, and where it leads), and the pages as sets of components. `WebCache` follows one query,
chosen initially, since a query is cached apart from the others: `Visit`, `Press`, `Serve`, `Answer`, `Read`,
`FetchArrives`, `FetchFails`, `Ages`, `Collected`, `Poll`, `Hears`, and the ways to sign in and out. Versions count the changes of the
facts; `Personal` are the queries whose endpoint looks at who asks (chat-state for the vote in the poll); `written` is the newest change of one's own whose answer was seen, `why` the reason an older answer is cached.

- `OwnChangesShown`: once no request is under way, what the screen shows, and what the cache takes for fresh, is not older than
  what the user did and was answered, even with other mutations on their way; except after the named races and for
  the queries in `Gaps`, which some button changes and does not refresh.
- `NothingOfOthers`: what belongs to one account is not shown to another, unless its session ended without a sign-out.

## 3. Runs

| Run | Instance | Shows |
| --- | --- | --- |
| `video_races` | file of 3 units, chunks of 1 or 2, 3 requests (2 after a crash: constraint `FewAfterCrash`), 2 tasks, 1 failed ffmpeg run, 1 crash, deletion and purge | part, ready, progress and status properties and what a failed video leaves, under every overlap |
| `background` | a video of 2 units with 2 requests, 1 task, 2 crashes, 1 failed tool run, deletion and purge; or a channel whose stream changes 4 times, 2 followers, 2 backends, 1 failed call or outage, 1 stop; fairness | preparation ends; rooms, bells and record follow the streams |
| `video_restart_loses` | 1 crash, no failed tool run | **violated**: a good video is refused after a restart |
| `polls` | 2 accounts, 2 options, 1 vote at a time, 2 readers and the updater, 1 Redis loss | the tally and result properties |
| `polls_closes` | 1 account, 1 reader, every failure once, fairness | an expired poll closes, its end is told |
| `reactions` | 1 account with 2 sockets, 2 messages, 3 emoji, cap 1, 2 flush slots, flushes that may fail | cap and batching |
| `presence` | 1 account with 3 sockets on 2 backends (two on one, one on the other), 1 crash, 2 failing calls | dictionaries, lock and set |
| `chat_send` | 1 account, moderator or not, with 2 sockets, 1 good text and a refused one, burst 2, 1 death | bans, follows and limits under overlapping sends |
| `session` | 2 tabs, one of which signs in and out, 3 rows, 1 loss | one live token, no false theft, the interface kept |
| `socket` | 3 pairs, the bell, the grid and the chat, 2 WebSockets, 1 drop, fairness | topics, status and reconnects |
| `chat_client` | 2 messages kept, first page of 2, catch-up of 1, the poll, time-outs, 3 changes, 1 drop, 1 visit after an earlier one | what the screen may miss, and nothing else |
| `studio` | 2 videos of 2 parts, 2 runs, 1 retry, 1 loss, 2 visits; or each query with 2 accounts, 2 changes, 2 actions | upload card; cache of every query |

Why the bounds are enough.

- *Server.* Completes, chunks, deletions and crashes fall anywhere; two tasks let the preparations of two completes overlap (in
  `background`, which asks only whether preparation ends, the second waits for the slot of the first). Three units and chunks of up to two give every relation of offset and
  length (behind, at, beyond the end, over the declared size). Three requests cover a chunk that
  overlaps another chunk and a complete or a deletion, and two completes and a chunk. Two crashes cover one that interrupts the work of a
  restart. Two readers and the updater let two rebuilds, or a rebuild and a close, or two closes overlap;
  a second vote slot only adds votes that commute. With a cap of 1, two sockets pass it by one, which is the
  bound for two. Three emoji are one more than cap plus excess. Two backends with two sockets of an
  account on one of them tell local from shared checks; accounts meet in
  nothing else. Two failing calls are one that strands a socket and one in the clean-up after it. The run `polls` explores no further once a vote
  was torn (constraint `BeforeTear`), since all its properties promise nothing there. In `chat_send` the limits are per account, so
  one account with two sockets shows every overlap; a burst of 2 tells the first token, the last and the first
  refused apart.
- *Monitor.* Four changes are a stream that ends and comes back and ends; two backends cross, and a stop or a failure
  falls anywhere. Channels meet only in the list of a tick; an instance with two channels, one follower and three
  changes, and one with two failures, two stops and five changes, were checked once by hand and hold.
- *Session.* Three rows are a sign-in with two rotations, or two sign-ins and a rotation. Only one tab signs in and out: two
  tabs that do are symmetric, and the other's effect on the pair is the same. *Socket*: two WebSockets let one be given up or
  overwritten by the other; a call that would need a third waits for one to close. Three pairs are the opened one, the
  stored one and a new one.
- *Chat client.* A catch-up of one message, against two kept, lets a reconnect miss messages; three changes are a
  message, a reply and a deletion, a poll that starts, closes and is followed by another, or a reaction here, one elsewhere and a message. The cache starts as
  an earlier visit may have left it.
- *Studio.* `Budget` counts mutations, sign-ins and losses together: two actions, or one and a failure, next to one
  change from elsewhere. Pages with the same effect on a query are explored as one (`Stops`).

Deadlock is checked in `chat_send` only: a finished video, a closed poll, a closed tab with its
bounds used up is an end, and the other models rest when nobody acts. Type invariants are not among the runs' properties: they
are proved where there are proofs, and were checked by TLC while the models were built.

Fairness. Weak fairness of the steps of a coroutine says that the event loop runs every coroutine
whose call was answered; ffmpeg and ffprobe runs have a timeout (`media._run`), so their steps end
too. `Restart` and `Boot` are fair because compose restarts the container (`restart: unless-stopped`), `WatchStep` because
the loop of `_run` survives every exception. Closing a poll is strongly fair: the monitor calls `close_expired` every five
seconds. In `Socket` refreshes end, timers fire, connections open or are refused and closes complete; that signing in and
out comes to an end is assumed too, since each sign-in restarts the socket. `Hasty` steps end as well: the browser reports an aborted attempt in
the task after `close()`, a reconnect waits a second or more (`scheduleReconnect`, `ws.ts:92`), so the timer does not overtake the report again
and again. Without that the untimed model has a cycle in which every error closes the next attempt. In `UploadClient` requests are answered or lost.
No fairness is assumed of users, crashes, failures or the passing of a day.

## 4. Disagreements found

**A restart refuses a video that was ready to be served** (`video_restart_loses`): `finalize`
renames or removes `upload.part` before `READY` is committed; the resumed task finds none, marks the video
failed and deletes it. `ARCHITECTURE.md` promises that a restart resumes the preparation.

Seen on the way. Each is a step of its model; most set the history variable that excuses the property, so the
run shows that there is no other way, and dropping the excuse gives the behaviour.

- *Polls.* HINCRBY recreates a tally Redis lost with one vote and hides the loss from `_tally` (`polls.py:166`; the docstring at
  line 43 has it rebuilt). A rebuild between a vote's commit and its HINCRBY counts it twice; the first votes of every
  poll meet a missing hash, so this needs no failure. A `poll_update` may follow `poll_closed`. Three closes at once may publish a result below what was answered (`polls.py:200`).
- *Reactions.* A change marked while the flush publishes is in neither batch (`reactions.py:83`) and waits for
  the next reaction. The cap can be passed by concurrent sockets; a duplicate insert closes the socket that lost.
- *Presence.* An account on two backends leaves the set when one of its sockets leaves (`manager.py:122`). An SREM that raises in
  `disconnect` (`manager.py:82`) skips the remaining topics and `channels.clear()`: the socket, already out of `connections`, stays in
  `channel_peers`. The subscription to the personal channel (`gateway.py:188`) stands before the `try`: when it raises, the socket
  stays in `connections` for good.
- *Chat send.* A handler that dies between INCR and EXPIRE leaves its account rate limited for good. `limits.py` counts in
  fixed windows, so a burst may follow a burst at once, where `docs/CHAT.md` speaks of a token bucket. Two moderators who
  ban the same account at once leave two live rows (`moderation.py:97` replaces the ones it read).
- *Videos.* `/complete` reads the status, and commits PROCESSING after an await, with no lock (`router.py:146`-`153`): two at once turn a READY video
  back, and the second preparation finds no part, fails and removes the video. A chunk that was let in before `/complete`
  and is appended after a failed preparation removed the files leaves a part behind. A chunk in flight makes the folder of a deleted video again. A first chunk that is sent twice and still under way
  when the part was renamed into place begins a new `upload.part`; a backend that stops before `READY` is committed prepares
  that beginning after the restart, and a ready video is cut short (`stub resumed`). A crash between the two steps of a deletion leaves a
  row, maybe a ready one, without its files.
- *Monitor.* An outage of the media server (`mediamtx.py:28` answers with an empty list) ends every stream on screen, and rings
  every bell again when it is over. Two backends with lists of different ages do the same (`monitor.py:90`). A
  backend that stops after `monitor.py:100` leaves that stream unannounced, and its followers unrung. A stream that comes back between two
  ticks is one stream.
- *Sessions.* The answer of a refresh that was under way when the user signed out stores its pair again; one that began
  before another tab signed in replaces or clears the new pair. Two tabs that refresh the same pair are taken for thieves.
- *Socket.* A refresh that fails leaves no reconnect (`ws.ts:37`), and neither does a sign-out that clears the timer while hooks stay
  mounted, against "Auto-reconnects" in line 9. The error of an attempt that was given up closes its successor (`ws.ts:75` closes `this.ws`, not the
  socket that failed): with a slow report and a fast timer that could go on for ever. Several hooks
  that connect while a token is refreshed open a socket each, and the page keeps the last. The late `close` of
  a socket that was overwritten marks the page as offline while its successor is open.
- *Chat client.* The docs promise that what was missed comes back after a break (`docs/CHAT.md:128`-`130` and `198`,
  `messages.py:154`). The catch-up is one page of the newest messages: with more of them the older ones are never asked for; it is read
  while the subscription is still on its way; an empty screen asks for nothing; and a page that fails is not asked for again. `gaps`
  holds what is lost so. A reaction of the account from another tab or device reaches this tab as a count only
  (`use-community-chat.ts:131`): the mark stays as it was until the message is loaded anew or turned here.
- *Upload.* A cancel while the client asks for the count, or completes, stops nothing: the run goes on beside the deletion. A Discard
  after the answer to `complete` was lost, whose own deletion is lost too, leaves the video to be published, without a word.
- *Query cache.* Eleven queries show a change by a button that does not refresh them (`Gaps`). A GET sent before a button and
  answered after `setQueryData` wins. After a registration the shell may show the guest that is still
  cached (`register-flow.ts:4` asks for the account and drops it).

## 5. Proofs

Everything in the `_proofs` modules is proved for all values of the constants, from the assumptions
named in the specification modules only (the sizes are naturals, the names are distinct).

- **Background_proofs**, of `VideoUpload`: `TypeCorrect`; `PartAlwaysPrefix`, by the invariant that a request about to
  append carries an offset and that `AppendPart` at the end of a prefix gives a prefix; `NeverSkipsUnits`, because what a chunk or
  a completion is about to save was on disk when it was measured, and only a preparation or a deletion takes it away.
  `ReadyAlwaysWhole`: the invariant follows the whole file from `upload.part` through the
  task's phases; from the check in `CompleteCheck` on nobody may append, because every chunk still under
  way has an offset that no longer matches. It holds for any requests, tasks and crashes, as long as none of the
  mishaps that the property names came. `StatusMovesForward` needs that a task works on a video in preparation only and that a complete that
  is about to commit had read UPLOADING; `FailureCleansUp` that after `GiveUp` only a late chunk writes. None of them assumes anything of the client.
  Of `Monitor`: `MonitorTypesCorrect`, `RoomAlwaysKnows`, `BellsRingOnce`. The invariant follows one channel at a time. `Alone`:
  unless backends crossed, one acts on it and the
  record is what it wrote. `Told`: the room knows or is about to be told. `Due`: whoever has found, or is about to find, a new stream
  finds its bells untouched, and whoever rings has rung exactly those it no longer has to. `Due` has to speak of lists
  that are old, because a tick compares a list it got earlier with a record it reads later.
- **Polls_proofs**: a vote that waits for its increment is the only one of its account and was not answered (`Cast`), so
  answered votes and waiting ones are disjoint sets of rows (`AckedAndWaiting`, by a bijection of requests and accounts). What the
  hash lacks of the rows are the waiting votes (`Exact`): an increment that creates a missing hash and loses no other vote finds
  every row among them (`AllWait`). What a closer has read then lies between the votes that were answered when it set out and the
  rows (`Closers`), and so does what it writes (`Result`), as long as it does not leave alone what others lowered. `Quiet` says that
  no vote starts during a close that none was under way with, which gives `ResultNeverChanges`. Neither the number of closers nor
  that of voters is bounded.
- **Reactions_proofs**: the rows of an account at a message and its sockets about to insert one are together at most the cap and
  its other sockets (`Bounded`), by counting per action. For `ShownAlwaysCounted` at most one flush task is at work (`OneTask`),
  and the counts it holds are those of the message unless a later change has marked the message again (`Fresh`).
- **Presence_proofs**: the invariant `Inv` adds to the type what each agent in `disconnect` knows:
  it holds the lock of its backend, and the socket it drops is no longer registered. Without that the lock
  could be released by one agent while another works, and `PeersAgree` and `NoGhost` are not inductive. What a failing call leaves
  behind is part of it: an abandoned socket subscribed to nothing, and one that was cut off is out of `connections`.
  `PresenceAlwaysExact` needs three further invariants about the accounts that are not unsure:
  `Apart` (no removal on its way meets an arrival), `Listed` (a socket that listens, its SADD answered, has its account
  in the set), `Backed` (an account in the set or about to be has a socket on the topic that no disconnect
  is about to clear, or its removal is on its way).
- **ChatSend_proofs**: `Inv` adds what a reason stands for (`Known`), that only texts reach the duplicate check
  (`Cleanly`) and that what is stored holds its key (`Keyed`); from it the theorems about bans, counters and
  duplicates. The limits are proved by counting. `RateOf`: messages stored in the window and sockets holding a token
  are together at most the sockets and the tokens given. `SlowOf`: while the window runs, messages stored and sockets
  past the check are at most the sockets and deaths; before, messages stored are at most the sockets about to start it and
  deaths. Each step moves one socket in or out of these sets (`Counted`), so the proof is arithmetic per action.
- **Session_proofs**: `SessionImplementsTokens`, the refinement. A step that stores a pair must store one that is not ageing;
  that needs `OnTheirWay` (a pair on its way to a tab is in no storage, so it has not aged) and `Apart` (no two answers
  carry the same pair), since only the stored pair ages. Every step then maps to one of `Tokens` or a stutter. `OneTokenPerSignIn`
  and `StoredAlwaysUsable` need `SInv` besides: while nothing crossed, at most one exchange is under way, and what the server
  has done for it is known from its stage.
- **Socket_proofs**: `AlwaysHearsThePage` excludes no mishap. It needs that `this.channels` are the topics of the mounted hooks and
  that a socket which is open and current was told them when it opened. `ConnectedAlwaysTrue`: until sockets crossed, only
  `this.ws` has a status to report, and the page was told it last; an error of a socket that was given up closes `this.ws` with
  its own report.
- **Web_proofs**, of `UploadClient`: `ShownIsReached` and `CancelledIsNotPublished`, by one invariant: until a mishap at most one
  run of this visit goes, it is the one on the card and in `control.current`, and a cancelled upload has no run that could still
  complete it. Of `WebCache`: `OthersNeverShown`. The entry shows what an earlier request brings, so the invariant
  `Own` says the same of the request in flight: whose answer it awaits is who is signed in, or a guest.
  `OwnChangesAlwaysShown` rests on a fact about the constants of `WebData` (`AllPagesGood`): each button of each component of each page
  refreshes or sets every query it changes, outside `Gaps`. What is left is one invariant of the cache (`CInv`): an entry older
  than what the user has seen is marked, and asked for while somebody looks, or the reason is known; and a request that has read
  something older carries the reason it will leave behind.
  Of `ChatClient`: `NothingEverMissed`, `DeletedStaysGone`, `StateAlwaysCurrent` and `OwnMarksAlwaysTrue`, together. Each follows
  what the property names from the room to the screen, so every invariant speaks of `outbox`, `queue`, pages, cache and
  request at once. `EachIsSafe`: a message is on the screen, in an event or answer that will come, awaited by a page that was asked
  for, beyond `Reach` while a catch-up is still to be asked for, too old to be kept, or among the `gaps`. What a page leaves
  out is older than something in it (`PageHoldsNewer`), and `Unasked` says that asking for a page after a break overwrites no page on its way.
  `Told` does the same for every field of the chat state, with `NotAhead` (nobody knows a change before the room); `VotesTrue` and
  `RowsTrue` for the marks.

Four formulas the runs had accepted were false for larger instances and became true statements in the course of the proofs:
`ResultKeepsAnswered` (three closes), `CancelledStaysAway` (two losses), `OwnMarksAreTrue` (a page read before a reaction, arriving after the
message had left the screen) and `NothingMissed` (two drops). They now say what they exclude. `OwnChangesShown` became stronger: it had
excused every screen with a mutation under way. The run `studio` keeps to one loss, which it finishes in half the time; its
theorems hold for any number.

Every safety invariant and action property of a passing run is proved, and so is the refinement. Only model-checked are the six
liveness properties (`PreparationEnds`, `ExpiredCloses`, `EndIsTold`, `FollowsTheStreams`, `Reconnects`, `UploadEnds`): they hold by
fairness, which needs ENABLED, beyond this prover.

## 6. Not modelled

Permissions, validation of texts, names and codecs beyond their verdict; failing Postgres calls other
than refused inserts, and failing removals of files; the wording of events.

- *Presence*: the announcements (`announce_presence`) and the fan-out, whose order does not change the sets. *Reactions*: a
  second backend's batcher and deletion of the message (a toggle on it is refused).
- *Monitor*: the optional email and its hourly key, start times, the ffmpeg captures and cleared files of `thumbs`.
- *Chat*: deletions and pins on the server are single-row writes; what they do to a screen is in `ChatClient`. The ban rows of
  concurrent moderators.
- *Web app*: layout, forms before they are sent, players, hover cards, pings and backoff delays, drafts, emotes in a text,
  and the live grid's subscriptions beyond their topic.
- Components without a state that several actors share: streaming keys and webhook (one lookup per call), communities,
  follows and moderators (single rows behind permission checks; in `WebData` as facts), accounts and login, emotes and
  badges, recordings and comments, browse, search and stats. The landing site, the design files, the infrastructure.

## 7. Plan

1. An abstract tally that `Polls` implements until a tear, as a refinement; `Exact` is most of its proof.
2. The server of `UploadClient` shown to be an abstraction of `VideoUpload`: one step per request against its coroutines.
3. `announce_presence` on several backends: the last announcement a room hears is the size of the set.
