# boke-video: specifications, checks and proofs

boke-video streams a broadcaster's video to viewers whose comments float over it. A Go
backend keeps rooms, comments and visits in SQLite, fans comments out over WebSockets and
reconciles its rooms with a media server (OvenMediaEngine). A React page plays the stream
and holds one comment socket per room. This directory models the parts of it that are hard to
test: requests and goroutines that interleave, rows that are stale when they are used,
sockets and timers that fire in any order.

Everything here is translated from the source. A module names the file it models in its
header, `PROJECT.json` maps each definition to lines.

## 1. The system

| Part | State | Operations | Talks to |
| --- | --- | --- | --- |
| Comment hub (`backend/internal/comment/hub.go`) | registered connections per room, reference count per subject, peak per room, four channels | `Register`, `Unregister`, `Broadcast`, `BroadcastOwnerProfile`, `Run` | handlers over channels, clients over WebSockets |
| Comment handlers (`httpapi/comment_handlers.go`) | one goroutine per socket, one per POST | accept, read, refuse, store, broadcast, leave | hub, database, limiter |
| Rooms (`httpapi/room_handlers.go`, `stream_state.go`, `room_stats.go`, `repository/sqlite.go`) | tables `rooms`, `comments`, `room_visits`; the copies a request holds | create, delete, list, get, stats, expire, refresh, insert | media server (list of streams), database |
| Room access (`room_handlers.go`, `stream_access.go`, `roomauth`, `ingestauth`) | three hashes of the row | set, clear, rotate, open the stream, let an encoder in | database, watch page, encoder |
| Profiles (`profile_handlers.go`) | a row per user | get or create, save | database, hub |
| WHIP ingest (`handleWhipProxy`, `whipproxy`) | none | forward POST and DELETE, remove the room after a DELETE | media server, database |
| Comment client (`frontend/src/features/comments/api/comment_client.ts`) | current socket, reconnect timer, queue of requests, room id | `connect`, `send`, `disconnect`, listeners, timer | hub's handler |
| Watch page (`WatchPage.tsx`) | selected room, two copies of `hasPassword`, password form, credential | select, submit, be refused, end | rooms, stream player |
| Stream player (`useStreamPlayer.ts`, `oven_media_engine_player.ts`) | attempts, connection, timers, what is attached | attach, destroy, reconnect, downgrade | backend (access), media server |
| Sound (`WatchPage.tsx`, `startVideoPlayback`) | the video element and the page's copies of `paused` and `muted` | play, pause, mute, autoplay without sound, return to the tab | video element, stream player |
| Controls and modes (`useFullscreen.ts`, `usePictureInPicture.ts`, `usePlayerControlsVisibility.ts`, `useSettingsPopover.ts`) | modes of the browser and their copies, idle timer | toggle, hide, reveal, resume | browser |
| Room activity (`useRoomActivity.ts`) | comments shown, statistics, cursor | first load, poll, live comment, older page | backend, comment client |
| Renderer and lanes (`comment_renderer.ts`, `comment_layout.ts`) | comments on screen, running animations, occupied lanes | render, finish, clear | comment client |
| Administration page (`AdminPage.tsx`, `AdminRoom.tsx`, `useAdminRooms.ts`) | list of rooms, comments per room, tokens, bypass URL | every button, the list that follows, pages of comments | rooms, room access |
| OBS panel (`obs_stream_service.ts`, `obs_websocket_connection.ts`) | connection settings, their copy in `localStorage`, status | edit, save, apply | OBS |
| `scripts/env-sync.mjs` | configuration files of three modes | read the settings, write the files in order | backend, media server, proxies |
| Limiter, key cache, signed URLs, sessions | last post per subject; keys with an expiry; none | allow; refresh; sign and check | handlers; identity provider |

What makes it hard:

* **Concurrency in the backend.** One hub goroutine serves all rooms and writes to clients
  without a deadline. Handlers block on its channels. HTTP requests run concurrently and
  make several database calls each with a call to the media server between.
* **Stale copies.** A request decides by the row it read first (`stream_state.go`), and
  updates or deletes by id alone. Room ids can be used again.
* **Failure.** Streams stop without notice, the media server may not answer, a client may
  cancel its request between any two calls. A failing step fails the whole list.
* **Callbacks in the browser.** Listeners of replaced sockets still run; the answers of
  cancelled requests still come; timers are kept in one variable. The video element and the
  browser change by themselves and tell of it later, while the page acts on its copies.
* **Several writes that belong together.** A password and its bypass token are removed by two
  statements; the settings script writes up to six files that must agree.
* **Limits.** Channels of 256 and 32 messages, one comment per second and subject, 90 s of
  grace, lanes and the number of comments on screen.

What correctness means, part by part:

* hub: two tabs of one person are one viewer and closing one keeps the viewer; counts on the
  screen are current; peaks are maxima; who stays connected gets the feed without gap,
  repeat or replay, and the comments of one sender in the order they were stored; what is stored is
  broadcast once; who leaves is uncounted in the end.
* rooms: children belong to the room that is there; one room per owner; status, start and
  last sighting agree; a live room is not expired within its grace period; a stream that is
  up goes live, one that is gone ends.
* room access and profiles: a token known to be void opens nothing; a comment bears a name its
  author had, and a saved name is not replaced by a generated one.
* comment client: no request lost, repeated or reordered over reconnects; a reconnect always
  coming; nothing opened after `disconnect`; one socket at a time.
* stream player and watch page: what is attached is what the viewer asked for last; the page
  never waits for nothing; a password that was entered is decided.
* room activity: the pages of comments are contiguous; the count on the page is right in the
  end; an ended stream stays ended.
* sound, controls, modes: buttons tell the truth when events have been handled; controls hide
  once.
* lanes: a lane is taken as often as animations run in it; the screen keeps its limit.
* administration and OBS: no button stays disabled, no notice tells of somebody else's call.
* settings: files that share a setting agree on it.

The hazards behind these, each at its line, are listed in `PROJECT.json`.

## 2. Modules

### RoomFeed and CommentHub

`RoomFeed` says what a viewer may rely on: each room has one feed, a viewer receives the
comments published after it joined, all of them, once and in order. It knows no channels.

`CommentHub` models `Hub` and its handlers. `rooms`, `viewers`, `peaks` are the maps of the
same names; a count of 0 stands for an absent entry. `broadcast` and `profile` are the
buffered channels; `register` and `unregister` are unbuffered, so a handler and the hub meet
in one step (`HubRegister`, `HubUnregister`). `job` is the write loop the hub is in: the frame
and the connections it has not written to yet. While a job is pending the hub takes nothing
else (`HubIdle`). `stalled` are the clients, of those in `Slow`, that keep their socket and read no
more (`Stall`, `Resume`): a write to one of them does not return, since the code writes without a
deadline, and the hub is held (`HubHeld`) until the client reads on or goes. `pc` is the place a handler is at,
`link` the socket as the server sees it.
`stored` is the comments table. `feed` and `joinedAt` are history, used by properties only.

A write to a client that reads is one step that takes effect if the socket is open and is dropped if
not, as the code drops the error. The hub's context and the server's shutdown are left out. Limiter and
validation are the choice between `StoreFromSocket` and `RefuseRequest`. Ids of comments are
their place in the table. The branch of `registerSubscription` for a connection that is
already registered is modelled, though a handler registers once. The two branches of the code
that only tidy empty maps have no effect in the model.

`CommentOrder` EXTENDS it with one history variable, the handler that stored each comment, for the one
order the code keeps without saying so: a socket's handler reads its next request when the channel has
taken the comment before, so the comments of one sender stay in the order they were stored, while those
of two may change places. A poster is the goroutine of one POST after another.

### RoomLedger and RoomDirectory

`RoomLedger` says what the tables promise, without requests, copies of rows, the media server or times:
an owner with no room opens one under a free id, the room keeps its number and its owner, goes live once,
has comments and visits entered while it is open, and is closed with all of them, for good. `RoomDirectory`
implements it: `OpenRooms` are the columns of the rows that no stale copy may change.

In `RoomDirectory`, `table` maps every room id to a row, `NoRow` (gen 0) if there is none; `children` is the rows of
`comments` and `room_visits`; `streams` what the media server has; `req` the requests in flight.
A request is a small program: `asking` (the media server), `reconciling` its copies one by one
(`RefreshRoom` then `RereadRoom`, `ExpireRoom`, or `KeepRoom`), for the public list `selecting`
and `counting`, then an answer. `Begin...` copies rows; later steps work on the copies and touch
the table as the SQL does, by id.

* Each database call is atomic: the pool has one connection (`sqlite.go:76`), and a deletion is
  one transaction. Foreign keys are enforced as `Migrate` sets them on that connection; if the
  pool replaced the connection the setting would be lost, which the model leaves out.
* Times are ages that `Tick` increases up to `Grace + 1`, the only comparison the code makes.
  Ages of copies grow with those of the rows, since a copy holds the same instant.
* `ListStreams` never gives a start time (`ovenmediaengine.go:125-128`), so a start is the time of
  the first sighting.
* Thumbnail columns are written with the rest of the state and decide nothing.
* `gens` numbers the rooms created, so that a row that was deleted and created again under the
  same id is told apart.
* `Impatient` requests may be abandoned at any step: the client goes away and the context of the
  call is cancelled.

### CommentClient

One `CommentClient` object, as `useCommentSocket` uses it: `connect` once, `disconnect` once.
`ready` is the `readyState` of each WebSocket it ever made (slots are used again when CLOSED),
`socket` the one it holds, `timer` whether a reconnect is scheduled, `pending` its queue. Each
action is one callback or one call, as the browser runs them one at a time. `error` and `close`
come together in `SocketClosed`: the second call to `scheduleReconnect` changes nothing. A
request that was handed to an open socket counts as sent; what the server makes of it is the
hub's side. Its definitions have names of their own (`ClientInit`, `ClientTypeOK`), so that
`MCWatchLive` can EXTEND it beside the page.

### StreamPlayer and WatchPage

`StreamPlayer` is the attach effect of `useStreamPlayer` over one `OvenMediaEnginePlayer`. `attempt`
has a slot per execution of `attachStreamWhenReady`: its place among the awaits (`timer`, `access`,
`offer`, `negotiate`, `playing`, `refused`), the quality it was made for, whether its effect has been
cleaned up (`canceled`), and its connection, which can outlive it (`link`). `timer` and `connection`
are the references the code holds: a timer that was scheduled over another one, and a connection whose
place another one took, are in their slots without being referred to. `wanted` are the inputs of the
hook, `effect` those the running effect was made with; `RunEffect` is React's cleanup and effect.
An attempt that waits for ICE candidates of a closed connection may wait for ever
(`NegotiationHangs`); properties must not count on it.

`attached` is `attachedQualityIdRef`, what the hook believes, and `srcObject` the attempt whose stream
the video was given, what the viewer sees: the video is `Lit` while that connection is open. The two
differ, since `attach` assigns `srcObject` when the offer comes, canceled or not
(`oven_media_engine_player.ts:108`): an attempt that was waiting for its offer when its effect was
cleaned up makes the video play for a page that shows a password form or the end of the room, and the
player holds its connection until the next effect or attempt. `detachStream` removes the attribute
`src` and calls `load()`, which leaves `srcObject` as it is; what ends the stream is `destroy`.

The signalling socket is left out once the offer has come, and network statistics are the choice to
report (`NetworkInsufficient`).

`WatchPage` EXTENDS it with what decides the inputs: the selected room, the two copies of
`hasPassword` (from the list and from the room), the password form, the credential and the end of the
room. `Render` computes the inputs as the component does. The backend refuses or grants by the
credential of the effect; for a canceled attempt it may do either, as its credential is forgotten.
`PageAndPlayerAgree` ties the page to the player, for the moments at which React has run the effects:
nothing is attached for what the page does not show and the video is dark then, but for an attempt
whose offer came after its cleanup, as above (`PlaysWhatIsShown`), and a room that is refused is not one whose
password counts as entered (`RefusalAsksAgain`).
The owner sets and clears the password at any time (`OwnerTogglesPassword`). The page is about one
room: a change of the query while it is open is left out.

### RoomActivity

`load` is the step of `loadRoomActivity`, `polls` the answers of `refreshStats` on their way, `wire`
the frames of an open socket, `older` the cursor `loadOlderComments` waits with. Comments are
numbered as they are stored and `Page(n)` is the page that ends with comment n. `paged` is history:
how many of the comments on the page come from pages. Presence, visitors and elapsed time are set
beside these and decide nothing. `CommentPages` declares the size of a page of the backend and the
bound on comments, for `RoomActivity` and `AdminRooms`.

### PlayerSound and PlayerChrome

Both let the element or the browser change at once and queue its events as a set, as a second event
of a kind adds nothing to a handler that reads the present state. In `PlayerSound`, `starts` are calls
of `play()` that wait, by caller, and `RenderMuted` is React writing `muted` back to the element.
A call that waits may resolve, be refused or aborted, or reject with another error, which
`startVideoPlayback` throws on (`StartThrows`). `emptied` marks an element loaded anew, which is paused
without an event. In
`PlayerChrome`, `asked` is what the browser has not answered yet; it may refuse, and it changes modes by
itself. `idleTimers` counts the timers that run and `idleTimer` says whether the page holds one, so that
a forgotten timer is visible. `platform` is fullscreen of the stage, or of the native player of iOS.

### CommentLanes

`active` is the set of elements in insertion order, without repetitions; `Deleted` is `delete` of
that set. `running` are the animations, `occupied` the lanes. An evicted comment leaves `active` and
not `running`. First free lane and `leastOccupiedLane` are one choice (`Acquire`).
`docs/comments.md:52` says that a lane takes no comment until the one before has moved on a certain
distance; `comment_layout.ts:52` puts a comment in the least occupied lane at once. The model
follows the code.

### AdminRooms and ObsPanel

`AdminRooms` has a slot per call of a button: `sent`, `answered`, then for most operations `refresh` and
`listed`, since a list of rooms follows. `here` says whether the `AdminRoom` that made the call is still
mounted. `entry` is what the answers have made of the comments per room and `drawn` what the page was
rendered with last: the buttons act on the copy in their closure, which is `drawn`, until
`RenderComments`. The backend is one room at a time, with its comments; those of an entry are a set, as the
order they are shown in decides nothing. `ObsPanel` has the settings text, its
copy in `localStorage`, and the calls of `configureObsWhipStream` with their awaits; texts are an
address, the same with blanks, blanks only, and what cannot be read.

### EnvSync

A run reads the settings of its mode once and writes the files in the order of the script; `Throw`
is a required setting that is missing or a write that fails. The content of a file is the settings
it was made from. `Replaced` is `String.replace` with `$` patterns in the replacement. A run that stops leaves the
files it has written; `FilesAgree` is about the modes whose last run ended (`synced`), so it says that no
earlier run of any mode shows through in the files, and nothing of the files a stopped run leaves or of
mangled secrets.

### RoomAccess and Profiles

Each request is one slot, at the statement it has come to. Tokens are numbered as they are made, as
random values never meet; a hash stands for what it is made of. `told` are tokens an answer has
carried, `void` those the owner has been told to be replaced or removed; `before` and `wasVoid`
remember both sets as a request began. `void` grows with answers, and `VoidStaysVoid` is about them;
a removal of the password that stops between its statements answers nothing, and
`BypassGoesWithPassword` is about that one. In `Profiles` the row is the sequence of names it has had, and a
generated name is the request that made it.

### Composites

`MCBackend` (rooms, `Profiles`, `RoomAccess`, `AdminRooms`), `MCParts` (six parts of the frontend and
the settings script) and `MCWatchLive` (`WatchPage`, `RoomActivity`, `CommentClient`) put modules that share no state
side by side for one run. The first two EXTEND the modules they are made of, whose definitions have
names of their own for that; so the runs check the very properties that the theorems state. `Init`
chooses the part a behaviour is about and the others stay as they start, so that state spaces add
up. The modules that do share state are composed for real: `WatchPage` with `StreamPlayer`,
`CommentHub` with its handlers, `RoomDirectory` with the media server and the owners.

## 3. Runs

| Run | What it checks | Bounds | Result |
| --- | --- | --- | --- |
| `hub_safety` (`MCCommentOrder`) | types and capacities, registration, reference counts, presence, feed order, order of a sender's comments | one room, two tabs of one subject and another subject, channel of 1, 2 comments | holds |
| `hub_live` | conservation, refinement of `RoomFeed`, uncounting, delivery to the feed | two rooms, two sockets of different subjects, one POST, one client that may stop reading, channels of 1, 2 comments, 1 profile update | holds |
| `rooms_races` | consistency of rows, refinement of `RoomLedger` | one id, two owners, two requests, grace 1, two creations | holds |
| `rooms_serial` (`MCBackend`) | types, grace period, start of a stream; names of comments; void tokens; older comments of the owner | two ids, two owners, one request, grace 1, two creations; 3 profile requests, 1 saved name; 2 access requests, 1 password, 3 tokens; 2 calls of the owner's page, 1 room, pages of 1, 2 comments | holds |
| `access_bypass` (`RoomAccess`) | the bypass token goes with the password | one request, one password, two tokens | violated |
| `rooms_live` | going live, ending | one id, one owner, one steady and one impatient request | holds |
| `rooms_grace` | grace period with two requests | as `rooms_races` | violated |
| `rooms_ended` | expired rooms are marked ended | one id, one request | violated |
| `client_twins` (`CommentClient`) | one socket at a time | three sockets, one request | violated |
| `parts_safety` (`MCParts`) | types; attempts and what is attached; lanes; pages and ended streams; buttons of sound and modes; controls; OBS notices; configuration files | 3 attempts, 1 variant, 2 changes; 3 comments, 2 lanes, 2 viewports; 2 polls, pages of 1, 2 comments; 2 tokens, 2 calls to OBS; 1 edit, 2 runs of the script | holds |
| `watch_live` (`MCWatchLive`) | nothing is attached for what the page does not show, a refusal takes the password back, a password is decided, the stream is attached, the count settles; queue, reconnect, disconnect and flush of the comment client | 2 attempts, 1 change by the owner, 2 polls, 1 comment; four sockets, two requests | holds |
| `profile_race` | a saved name stays | 2 requests, 1 name | violated |

Why the bounds suffice. A channel of one message is full after one, so blocking happens at once; two
tabs and a third connection are the least in which a reference count, a remaining viewer and a
leaving viewer occur together. Two comments of one handler are the least
that could change places. One client that stops reading holds the hub as well as several do, and the
other room shows that it holds them all. One id with two creations gives every stale use of a row of the room
before; two requests give every race the code has between a read and a write. Grace of one tick
separates just seen, within, and past the period. Four sockets are one current, one closing and two
more that overlap. Three attempts are one of an earlier effect, a forgotten timer and the current
one; two changes make an effect, end it and make another; one variant is a quality that is offered
beside the automatic one. Two lanes and three comments give a shared lane and a free one, and a
viewport with a limit of 1 an eviction. Two polls arrive in either order, a page of one makes each
comment a page, and two comments an older page beside a live one. Two calls are a call of a button
and the one that overtakes it. Two runs of the script are one that fails or ends and another mode
over its files. In `watch_live` two attempts are a late refusal and the attempt of the password
entered after it, and one comment still gives a late answer beside a newer count. Three tokens are
an ingest token, a bypass token and the one that replaces either.

The violated runs are findings, described with their documents in `PROJECT.json`: the bypass
token that outlives the password when the request stops between two statements, the deletion
of a live room on a stale sighting, the deletion of rooms that the document says are marked
`ended`, the second connection after a late close, and the saved name that a request between its read
and its write replaces by a generated one.

### Fairness

* `CommentHub`: the hub goroutine runs on while a channel is ready or a write can return, a handler that
  can send does, and a handler whose socket is closed gets to its failing read. Nothing is asked of
  clients. A write to a client that has stopped reading does not return, so `GoneIsUncounted` and
  `StoredIsBroadcast` hold of every behaviour but those in which such a client holds the hub for
  ever, which is their last disjunct, `[]HubHeld`.
* `RoomDirectory`: time passes, and a room that exists has a viewer: the watch page asks for the
  room's statistics every five seconds (`useRoomActivity.ts:173`), its requests are served to
  the end, and the media server does not fail each of them. No other request is assumed to
  make progress. Without a viewer a room would keep its state, as the code has no job of its own;
  the list of rooms asks again only while it shows a room (`RoomListPage.tsx:32`).
* `CommentClient`: timers fire, closing handshakes end, an attempt succeeds or fails, and not
  every attempt fails for ever. An open socket may stay open.
* `WatchPage` and its player: React runs effects, timers fire, every await ends, and attempts that
  get to their access, offer or answer again and again are not failed each time (strong fairness over
  all attempts together, as the media server may fail any one of them). Nothing is asked of the viewer or the owner.
* `RoomActivity`: the interval asks and is answered, its effect runs, and frames of an open socket are
  delivered. The socket may open and close for ever.

`CHECK_DEADLOCK FALSE` is set where the system may rest: the hub when all clients have left, the
client after disconnect, a user or an owner who makes no more requests, a page whose room has ended, the
script after its last run.

## 4. Proofs

Eight modules hold proofs for all values of the constants that satisfy the named assumptions. These
are weak: finite connections and subjects and a positive capacity for the hub;
`StreamPlayerAssumption` (variants are a finite set of positive numbers, no attempt is the null
value); `WatchPageAssumption` (there is no credential, a right and a wrong one); `CommentLanesAssumption` (finite comments, lane counts between 1 and `MaxLanes`, positive
limits); `CommentPagesAssumption` (a page has at least one comment); `ObsPanelAssumption` and
`EnvSyncAssumption` (bounds are numbers); `RoomAccessAssumption` and `AdminRoomsAssumption` (a room is
made with an ingest token, and one room is within the bound). Requests, rooms,
owners, sockets, callers, calls and attempts are sets of any size. Every bound on edits, runs, rooms
made, comments or tokens that a configuration sets is arbitrary in the theorems.

| Module | About |
| --- | --- |
| `CommentHubProofs` | `CommentHub`, that it implements `RoomFeed`, and `CommentOrder` |
| `RoomDirectoryProofs` | `RoomDirectory`, and that it implements `RoomLedger` |
| `CommentClientProofs` | `CommentClient` |
| `BackendProofs` | `RoomAccess`, `Profiles`, `AdminRooms`, and `MCBackend` |
| `PlayerProofs` | `StreamPlayer`, `PlayerSound`, `PlayerChrome` |
| `WatchPageProofs` | `WatchPage` |
| `WatchCommentsProofs` | `CommentLanes`, `RoomActivity` |
| `PartsProofs` | `ObsPanel`, `EnvSync`, and `MCParts` |

The argument of each theorem is an inductive invariant; the right column says what it adds to the
property and to the types, and why.

| Theorem | Strengthening it needs |
| --- | --- |
| `CommentHubProofs!TypeCorrect` | `CarriesStored`: the ids in the channel and with handlers are rows of the table, or the room of a comment has no type |
| `RegisteredCorrect` | none beyond types |
| `ViewersCorrect` | registration: a connection is added once and removed once; cardinalities of finite sets |
| `PeakCorrect` | `PeakBound`: no room's count exceeds its peak, so a step that only lowers the count may keep the peak |
| `PresenceCorrect` | registration and `PeakBound` |
| `SegmentCorrect` | `SocketInv`: who is not registered yet has been sent nothing, nobody joined ahead of its feed, and a socket is open only between its accept and the break that makes its handler return. The comment being written is the last of its feed, so that "all but the last" and "all" follow each other |
| `ConservedCorrect` | `PlacesInv`: a handler holds a comment only while it is sending it, feeds carry stored comments, and `InOnePlace`, the property without cardinalities: a comment is with one handler, at one place of the channel, or at one of a feed |
| `FeedImplemented` | `FeedInv`, the two above together. `Register` of the hub is a viewer's joining, taking a comment from the channel is its publication (it is in no feed yet, by `InOnePlace`), a write that finds its socket open is a delivery (of the next comment, by `SegmentCorrect`), the end of a socket is the viewer's leaving; every other step is a stutter |
| `SendersInOrder` | `WayInOrder`: of the comments of one sender those in the feeds come before those in the channel, and these before the one its handler holds, which is its own (`KnownSenders`). What a viewer is sent is a segment of a feed, by `SegmentCorrect`, and a segment of what is in order is in order |
| `RoomDirectoryProofs!TypeCorrect` | `InsertsChild`: a request about to insert names a table |
| `ChildrenCorrect` | types. That comments and visits belong to the room that is there now follows from `RoomLedger` as well, so no run checks it on its own |
| `RowsCorrect` | every copy a request holds is itself consistent, as it is what is written back |
| `LedgerImplemented` | types. Creating a row is an opening, a deletion whatever its reason a closing, the first write of `live` is going live, an insert an entry; every other write of a stale copy is a stutter: it changes neither number nor owner, and `live` only to `live` |
| `SerialGraceKept`, `SerialStartedIsKept` | `CopyIsFresh`: a copied row is still the row, or its room was deleted since and, at most, created again and is not live. So a live row is the copy, and what the request decides by the copy holds of the row |
| `CommentClientProofs!ClientTypeCorrect` | none |
| `RequestsAreKept` | `NeverStranded`: a request goes straight to an open socket only if none waits; `Fresh` and `Released` for what a client holds before and after it is connected |
| `ClientNeverStranded` | `Held`: the client's own socket is never one that has closed |
| `ClientStaysDisconnected` | `Released`: a disconnected client has neither socket nor timer |
| `BackendProofs!AccessTypeCorrect` | none beyond the rest of `AccessInv` |
| `VoidIsVoid` | `NewestInv`: the current token of a kind is the newest of that kind; `StoredInv`: a token that is stored and not yet told is newer than those the owner had; `VoidInv`: no void token is current |
| `ProfilesTypeCorrect`, `NamesCorrect` | `NamesInv`: a request that goes on with a name has read or written that name in the row since it came in; one about to save has a name of the user's choice |
| `BackendTypeCorrect` | the types of the four parts; a step of one is a step or a stutter of each |
| `PlayerProofs!TypeCorrect` | none |
| `AttachedToCurrent` | `CurrentInv`: whatever of an attempt is not canceled was made for the inputs of the running effect. `SourceHeld`: an open connection that feeds the video is the one the player holds, as both are assigned when the offer comes and only `destroy` lets go of one, which closes it |
| `NeverStranded` | `GoesOnInv`: an attempt of the current effect goes on by itself. A negotiation does so only while its connection is open, and the attempt whose `destroy` or offer closed it takes its place |
| `WatchPageProofs!PageKeepsPlayer` | the player's invariant with `RenderInv`: the inputs of the hook are those of the last render, but for the quality. A step of the page changes the inputs, and the player's invariant does not depend on those the effect has not seen |
| `PageTypeCorrect` | `FormInv`, the types of the form, and `RenderInv` |
| `PageAgrees` | `RenderInv`, and `RefusalInv`: while a refusal stands that the page has seen, a password counts as entered only if the effect has not seen it yet |
| `WatchCommentsProofs!LanesMatch` | `LanesType`; the lane `acquire` returns exists because a nonempty set of numbers has a least one |
| `LanesTypeCorrect`, `RenderedWell` | `ScreenInv`: `active` is a sequence of comments. `LanesMatch` turns the least occupied lane into the one with the fewest animations |
| `ActivityTypeCorrect` | lemmas about `Page` and `NextCursor` (`PageFacts`): length, order and ends of a page |
| `PagesFit` | `ListSettled`: until the first page has come there is no cursor and no older page on its way, so the first page never replaces a list that an older page was asked for |
| `EndStays` | `PollsCancelled`: while the interval is stopped no answer is on its way, and nothing has ended before a room is selected |
| `SoundTypeCorrect` | none |
| `ButtonsTell` | `SoundInv`: the page knows the sound unless an event will tell it; `PausedInv`: it knows of a pause or a start unless an event will tell it, the element was loaded anew, or a refused try of autoplay is about to be repeated without sound (`WillMute`) and cause an event |
| `ChromeTypeCorrect`, `ControlsHide` | `IdleInv`: proved together, as counting timers down stays a number only while the one that is held runs |
| `ButtonsFollow` | `ModesInv`: document events come of the stage alone and the end of native fullscreen of the video alone, and each copy is right unless its event is queued |
| `ButtonComesBack` | `CallsInv`: a slot has one call, and one that waits for the list of rooms is of an operation that is followed by the list. `DrawnInv`: what was rendered were entries, so that an older page asked for from a copy that is out of date still makes an entry that loads together with its request. So whatever ends a request for an older page also takes the flag off the entry, if it is still there |
| `AdminTypeCorrect` | `CallsInv`, and the types of what an answer carries while its call goes on (`CallsType`) |
| `PartsProofs!ObsTypeCorrect`, `NoticesTrue` | `SavedInv`: what was saved is the draft without its blanks; `OneSend`: a panel that is applying has exactly one call of its own, and another none |
| `FilesAlwaysAgree` | `FilesInv`: all files of a synced mode are made from one reading of its settings, those a run has written so far are made from what it read, and no mode is synced while a run touches a file of it |
| `EnvTypeCorrect` | `FilesInv` and `RunInv`: a run is at one of the files of its mode or past the last, and what it has read are settings |
| `PartsTypeCorrect` | the types of the seven parts; a step of one is a step or a stutter of each |

Each proof has one step per action; facts used by several actions are lemmas.

`GraceKept` and `StartedIsKept` are proved under the hypothesis `Serial`, requests one at a time, as
`rooms_serial` checks them: `rooms_grace` shows that the first fails for two requests. The owners, the
encoders, the media server and the clock take any steps between those of the request.

Model-checked only:

* All liveness (`GoneIsUncounted`, `StoredIsBroadcast`, `GoneStreamEnds`, `StreamGoesLive`, `PendingIsSent`,
  `PasswordIsDecided`, `EventuallyAttached`, `CountSettles`): under fairness it is out of the prover's
  reach.

Every invariant and every other action property of the runs that hold is a theorem, and so are both
refinements. Three properties are proved without a run that asks for them: `PeakIsHighWater`
(`CommentHubProofs`), `RenderedInBounds` (`WatchCommentsProofs`) and `ChildrenBelongToRoom`
(`RoomDirectoryProofs`). One step decides each of the first two; the third follows from `RoomLedger`.

## 5. Not modelled, and what could follow

* Rate limiter: one map under one mutex with one operation. Its refusal is a choice of `CommentHub`.
  That a burst of queued requests is refused but for the first follows from the two without a run.
* Access token verifier: a cache of keys whose answer depends on the identity provider and on
  library code for JWT.
* Signed URLs, anonymous sessions, hashes: encodings of one value, without state.
* `ListComments` and its cursor: one SELECT that compares texts of times; it appears as `Page` of
  `RoomActivity` and `PageBefore` of `AdminRooms`, in the order comments are stored.
* WHIP proxy beyond its effect on rooms: header and path rewriting. Thumbnails and playlists are
  fetched and passed on.
* `RoomListPage`, forms, layout and wording: presentation without a protocol of its own. The room of
  the watch page does not change while it is open.
* Router, configuration, start-up, Caddy, Terraform, containers: done once, or configuration of
  other systems. The files they read are in `EnvSync`.

Worth doing next: the comment client composed with the hub and the limiter; the watch page over a
change of the room; a proof that the attempts of `StreamPlayer` implement one abstract attachment.
