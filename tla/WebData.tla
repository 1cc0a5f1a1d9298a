------------------------------- MODULE WebData -------------------------------
(***************************************************************************)
(* The pages of the web app over the cache of TanStack Query: which query  *)
(* each component shows, what each of its buttons changes on the server,   *)
(* and what it does to the cache when the answer is there.                 *)
(*                                                                         *)
(* A query is cached apart from the others, so a behaviour follows one of  *)
(* them (query), for one channel and one choice of filters; what would not *)
(* touch it is left out.  What the server would answer is a number that    *)
(* goes up with each change.  The names and pictures of accounts inside    *)
(* other lists are left out; chat-state is followed here without the chat  *)
(* events that keep it up to date (ChatClient).                            *)
(***************************************************************************)
EXTENDS Integers, FiniteSets

CONSTANTS
  Accounts,      \* who signs in
  Guest,         \* nobody is signed in
  MaxChanges,    \* bounds: changes of what the query shows, ...
  Budget         \* ... and mutations, sign-ins and losses, together

ASSUME WebAssumption ==
  /\ IsFiniteSet(Accounts) /\ Guest \notin Accounts
  /\ {MaxChanges, Budget} \subseteq Nat

-----------------------------------------------------------------------------
(* Queries, and the facts on the server each of them shows *)

CommunitiesApi ==
  [mine |-> {"channel", "live"}, follow |-> {"follows"}, followed |-> {"follows", "channel"},
   followers |-> {"follows"}, moderators |-> {"mods"}, streamKey |-> {"key"}]

StreamingApi == [status |-> {"live"}, health |-> {"live"}, discover |-> {"channel", "live", "follows"}]

BrowseApi ==
  [channels |-> {"channel", "live", "follows"}, allRecordings |-> {"recordings", "channel"},
   search |-> {"channel", "live", "recordings", "videos"}]

VideosApi == [videos |-> {"videos"}, video |-> {"videos"}, allVideos |-> {"videos", "channel"}]

RecordingsApi == [recordings |-> {"recordings"}, byTime |-> {"comments"}, newest |-> {"comments"}]

ChatApi ==
  [chatState |-> {"settings", "pinned", "poll", "emotes"}, modActions |-> {"actions"},
   bans |-> {"bans"}, emotes |-> {"emotes"}]

AccountApi ==
  [me |-> {"account"}, notifications |-> {"notices"}, prefs |-> {"prefs", "follows"},
   announcements |-> {"announcements"}]

(* Two tables next to each other *)
Beside(f, g) == [x \in DOMAIN f \cup DOMAIN g |-> IF x \in DOMAIN f THEN f[x] ELSE g[x]]

Shows ==
  Beside(Beside(Beside(CommunitiesApi, StreamingApi), Beside(BrowseApi, VideosApi)),
         Beside(RecordingsApi, Beside(ChatApi, AccountApi)))

Queries == DOMAIN Shows

(* enabled: only for who is signed in *)
NeedsUser == {"me", "follow", "followed", "notifications", "mine"}

(* Those whose answer depends on who asks: their endpoints look for the      *)
(* account, to refuse, to choose what is listed, or for the vote in the poll *)
Personal ==
  NeedsUser \cup {"prefs", "videos", "video", "streamKey", "health", "chatState", "modActions", "bans"}

(* refetchInterval: for videos while one is being prepared *)
Polled == {"status", "health", "modActions", "bans", "channels", "videos", "video"}

(* Live events make the page fetch these again. *)
BellQueries == {"notifications"}
ChannelQueries == {"status", "discover"}

-----------------------------------------------------------------------------
(* Components: what they read, and their buttons.  A button changes facts,  *)
(* and the answer refreshes queries (invalidateQueries) or sets them        *)
(* (setQueryData) and leads to a page.  Some need a query to be loaded.     *)

Button(n, facts, queries) ==
  [name |-> n, needs |-> {}, changes |-> facts, refreshes |-> queries, sets |-> {}, leads |-> "same"]
Needing(b, queries) == [b EXCEPT !.needs = queries]
Leading(b, p) == [b EXCEPT !.leads = p]
Setting(n, facts, queries) == [Button(n, facts, {}) EXCEPT !.sets = queries]

Component(queries, buttons) == [reads |-> queries, buttons |-> buttons]
Reading(queries) == Component(queries, {})

ChatQueries == {"chatState", "modActions"}

(* The studio *)

StudioFrame == Reading({"me", "mine"})

StudioStatus == Component({"status"}, {Needing(Button("end stream", {"live"}, Queries), {"status"})})

SetupPanel == Component({"streamKey"}, {Setting("rotate key", {"key"}, {"streamKey"})})

StepsPanel == Reading({"status"})

LivePage == Reading({"mine", "health"})

PollForm == Component({"chatState"},
  {Button("start poll", {"poll", "actions"}, ChatQueries),
   Needing(Button("end poll", {"poll", "actions"}, ChatQueries), {"chatState"})})

PinnedCard == Component({"chatState"},
  {Needing(Button("unpin", {"pinned", "actions"}, ChatQueries), {"chatState"})})

ChatModerationCard == Component(ChatQueries, {Button("chat settings", {"settings", "actions"}, ChatQueries)})

(* Faulty variant: the list is left as it is. *)
ModeratorsPanelForgets == Component({"moderators"},
  {Needing(Button("remove moderator", {"mods"}, {}), {"moderators"})})

ModeratorsPanel == Component({"moderators"},
  {Needing(Button("remove moderator", {"mods"}, {"moderators"}), {"moderators"})})

AddModerator == Component({"followers", "moderators"},
  {Needing(Button("add moderator", {"mods"}, {"moderators"}), {"followers"})})

BansPanel == Component({"bans"}, {Needing(Button("lift", {"bans", "actions"}, {"bans"}), {"bans"})})

EmoteUpload == Component({}, {Button("add emote", {"emotes"}, {"emotes", "chatState"})})

EmoteGrid == Component({"emotes"},
  {Needing(Button("remove emote", {"emotes"}, {"emotes", "chatState"}), {"emotes"})})

ChannelDetailsForm == Component({}, {Button("save details", {"channel"}, Queries)})

LinksEditor == Component({}, {Button("save links", {"channel"}, Queries)})

BannerCard == Component({}, {Button("upload banner", {"channel"}, Queries), Button("remove banner", {"channel"}, Queries)})

(* Nothing of the channel is left but what belongs to the account. *)
DeleteChannel == Component({"recordings"},
  {Leading(Button("delete channel", UNION {Shows[q] : q \in Queries} \ {"account", "notices"}, Queries), "setup")})

AnnouncementsCard == Component({"announcements"},
  {Button("post", {"announcements"}, {"announcements"}),
   Needing(Button("delete announcement", {"announcements"}, {"announcements"}), {"announcements"})})

(* refresh of the hook: after a start and after an end *)
VideoUploadCard == Component({},
  {Button("start upload", {"videos"}, {"videos"}), Button("upload ends", {"videos"}, {"videos"})})

VideoRow == Component({}, {Needing(Button("delete video", {"videos"}, {"videos"}), {"videos"})})

VideoEditForm == Component({}, {Needing(Button("edit video", {"videos"}, {"videos", "video"}), {"videos"})})

VideosPanel == Reading({"videos"})

(* Settings *)

ProfileForm == Component({}, {Setting("save profile", {"account"}, {"me"})})

AvatarEditor == Component({},
  {Setting("upload picture", {"account"}, {"me"}), Setting("remove picture", {"account"}, {"me"})})

StatusCard == Component({},
  {Setting("save status", {"account"}, {"me"}), Setting("clear status", {"account"}, {"me"})})

IdentitySection == Component({}, {Setting("choose identity", {"account"}, {"me"})})

NotificationPrefsForm == Component({"prefs"}, {Needing(Button("set alert", {"prefs"}, {"prefs"}), {"prefs"})})

(* A channel's pages *)

SetFollowed == {Button(n, {"follows"}, {"follow", "followed", "discover"}) : n \in {"follow", "unfollow"}}

FollowButton == Component({"me", "follow"}, SetFollowed)

ChannelView == Reading({"status", "recordings", "videos"})

RecordingsSection == Reading({"recordings"})

VideosSection == Reading({"videos"})

(* What moderators do here comes back as events, not as answers. *)
ChatPanel == Component({"me", "mine", "follow", "chatState"},
  {Setting("toggle identity", {"account"}, {"me"}), Button("time out", {"bans", "actions"}, {})})

AnnouncementsList == Reading({"announcements"})

FollowersList == Reading({"followers"})

RecordingWatch == Reading({"recordings", "me", "mine", "byTime"})

RecordingComments == Component({"me", "mine", "byTime", "newest"},
  {Button("add comment", {"comments"}, {"byTime", "newest"}),
   Button("delete comment", {"comments"}, {"byTime", "newest"})})

DeleteRecordingButton == Component({},
  {Leading(Button("delete recording", {"recordings", "comments"}, {"recordings"}), "channel")})

VideoWatch == Reading({"video", "videos"})

(* All pages, and those that look around *)

NotificationBell == Component({"me", "notifications"},
  {Needing(Button("mark read", {"notices"}, {"notifications"}), {"notifications"})})

TopBar == Reading({"me"})

GlobalSearch == Reading({"search", "channels"})

HomeClient == Reading({"allVideos"})

HomeRail == Reading({"me", "followed"})

FollowingStrip == Reading({"me", "followed"})

FollowingView == Reading({"me", "followed"})

CreateChannelForm == Component({}, {Leading(Button("create channel", {"channel"}, Queries), "setup")})

ChannelBrowser == Reading({"channels"})

VideoBrowser == Reading({"allVideos", "channels"})

RecordingBrowser == Reading({"allRecordings", "channels"})

SearchPage == Reading({"search"})

AuthPreview == Reading({"discover"})

NotFoundContent == Reading({"discover"})

-----------------------------------------------------------------------------
(* Pages *)

AppShell == {TopBar, NotificationBell, GlobalSearch}

(* Who has no channel is asked to create one. *)
Studio(cs) == AppShell \cup {StudioFrame, StudioStatus, CreateChannelForm} \cup cs

ChannelPages ==
  [channel |-> AppShell \cup {ChannelView, RecordingsSection, VideosSection, FollowButton, ChatPanel,
                          AnnouncementsList, FollowersList},
   profile |-> AppShell \cup {FollowButton, AnnouncementsList, FollowersList},
   recording |-> AppShell \cup {RecordingWatch, RecordingComments, DeleteRecordingButton},
   watch |-> AppShell \cup {VideoWatch}]

StudioPages ==
  [setup |-> Studio({SetupPanel, StepsPanel}),
   live |-> Studio({LivePage, PollForm, PinnedCard, ChatModerationCard, ChatPanel}),
   uploads |-> Studio({VideosPanel, VideoRow, VideoEditForm, VideoUploadCard}),
   emotes |-> Studio({EmoteGrid, EmoteUpload}),
   details |-> Studio({ChannelDetailsForm, LinksEditor, DeleteChannel, BannerCard, AnnouncementsCard}),
   team |-> Studio({ModeratorsPanel, BansPanel, AddModerator})]

SettingsPages ==
  [settings |-> AppShell \cup {ProfileForm, AvatarEditor, StatusCard, IdentitySection},
   alerts |-> AppShell \cup {NotificationPrefsForm}]

OtherPages ==
  [home |-> AppShell \cup {HomeClient, HomeRail, FollowingStrip, FollowingView, CreateChannelForm},
   browseChannels |-> AppShell \cup {ChannelBrowser}, browseVideos |-> AppShell \cup {VideoBrowser},
   browseRecordings |-> AppShell \cup {RecordingBrowser}, find |-> AppShell \cup {SearchPage},
   lost |-> AppShell \cup {NotFoundContent}, login |-> AppShell \cup {AuthPreview}]

Members == DOMAIN StudioPages \cup DOMAIN SettingsPages

Components == Beside(Beside(StudioPages, SettingsPages), Beside(ChannelPages, OtherPages))

Places == DOMAIN Components

Reads == [p \in Places |-> UNION {c.reads : c \in Components[p]}]
Buttons == [p \in Places |-> UNION {c.buttons : c \in Components[p]}]
=============================================================================
