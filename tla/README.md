# Verification of coral-club-meet

TLA+ models, TLC runs and TLAPS proofs about the video-meeting application in
this repository: a Go backend (`backend/`), a React client (`frontend/`) and the
LiveKit server both of them drive. The repository has no tests, so the source
and its comments are the only reference.

## 1. The system

| Component | Source | State it keeps | Operations |
|---|---|---|---|
| Room ownership table | `backend/internal/httpapi/rooms.go` | `m`, `order` under an RWMutex | `set`, `owner` |
| Sessions and room grants | `httpapi/auth_handlers.go`, `auth/session.go` | none on the server; a cookie and a localStorage grant in the browser | sign in/out, create room, `isRoomHost`, `ownsRoom` |
| Token endpoint, room lock | `httpapi/handlers.go`, `livekit/token.go`, `livekit/moderator.go` | the lock is LiveKit room metadata | `handleToken`, `IsLocked`, `SetLocked`, `RemoveParticipant`, mute, mute-all, promote |
| Access-code limiter | `httpapi/ratelimit.go` | `hits`, `nextSweep` under a mutex | `allow`, `middleware` |
| Recorder | `livekit/recorder.go` | `active` under a mutex | `Start`, `Stop` |
| Presence, faces | `httpapi/presence.go`, `LobbyPresence.tsx`, `Avatar.tsx` | last answer shown | poll; hue and initials, written twice |
| Session screens (App) | `App.tsx` | screen, room, join, sideParent, clock | join, leave, rejoin, move, home, create |
| Sign-in of the page | `auth.tsx`, `WelcomeScreen.tsx`, `AuthChip.tsx` | ready, authRequired, user | load, code, sign out, refused create |
| Side-room invitations | `sideroom.ts`, `SideRoom.tsx`, `CallRoom.tsx` | one incoming invitation with an expiry timer | invite, dismiss, accept |
| Lobby, room connection | `Lobby.tsx`, `hooks.ts`, `RemoteAudio.tsx` | preview stream, LiveKit `Room`, published devices | toggle, join, connect, publish, unmount |
| Camera backgrounds | `backgrounds.ts`, `hooks.ts` | processor per track, chain of applies | choose, camera restarts |
| Transcription | `transcription.ts` | pipe, model, enabled, segments | toggle, build, rewire |
| Stage and control bar | `CallRoom.tsx`, `FocusView.tsx`, `MeetControls.tsx`, `raisehand.ts` | layout, pin, open popover and panel, raised hands | pin, layout, present, raise a hand |
| Chat, reactions | `datachannel.ts` | lists fed by data messages, object URLs, timers | send, receive, expire |
| Timed notices | `moderation.ts`, `moment.ts`, `sideroom.ts`, `MeetControls.tsx` | what is shown, its timers | show, replace, dismiss |
| Commitments, attendance | `commitments.ts`, `attendance.ts`, `PostCall.tsx` | module-level stores that outlive the call screen; one saved commitment per room | add, consume; sessions, talk time |
| Host panel | `ParticipantsPanel.tsx`, `livekit/moderator.go` | optimistic copy of the lock | toggle, metadata change, mute, mute all |
| Preferences, room names | `theme.ts`, `i18n.tsx`, `rooms.ts` | theme and language, stored | toggle, load; slug, link |
| Mini window, service worker | `callpip.ts`, `public/sw.js` | the window; the caches | open, close, leave; fetch |
| Questions, recording badge, webinar | `qa.ts`, `recording.ts`, `webinar.ts` | none that can be reached | no control opens, toggles or mounts them |

Interaction. The browser calls the backend over HTTP (`lib/api.ts`) with a
session cookie and, per room, an `X-Room-Grant` header; the backend calls
LiveKit over HTTP with a 10 s timeout, without holding a lock; the browser joins
LiveKit with the token the backend issued; browsers in one room exchange data
messages through LiveKit. Every HTTP request is a goroutine of its own.

What is hard here:

- *Interleaving*: the lock is read when a token is issued, and used when it is
  redeemed; the recorder's mutex is released around its calls; the limiter's
  clock is read before its mutex is taken; React handlers await and then write
  state that others have changed: devices, downloads, windows and timers answer
  after what asked for them is gone.
- *Failure*: LiveKit calls fail or time out after having taken effect; the
  backend restarts with empty tables while rooms, tokens and recordings go on;
  the lock read fails open; the browser refuses devices, windows and storage.
- *Time*: sessions, grants and tokens expire on their own schedules; windows,
  sweeps and invitations.
- *Bounds*: 50 000 owners, 10 attempts a minute.

What makes each component correct is stated by its properties (section 3);
`PROJECT.json` lists every hazard at its line with the properties that cover it,
and says why for the few that none covers.

## 2. Modules

| Module | Models |
|---|---|
| `RoomOwners` | the ownership table with FIFO eviction |
| `ControlPlane` | extends `RoomOwners`: sessions, grants, host decision, token endpoint, lock and remove, LiveKit rooms, restarts, expiry |
| `RateLimiter`, `BurstLimit` | the limiter, and the promise it keeps: refinement `Promise` |
| `Recorder` | recorder, its two endpoints, the Egress service |
| `AppSession` | the screens of a tab, and the call they mount |
| `SideRooms` | extends `AppSession`: invitations to side rooms, and the way back |
| `Joining` | lobby preview, joining, connecting, publishing, remote audio |
| `Backgrounds`, `LatestWins` | the chain of background applies, and the switch it implements: refinement `BgLatestWins` |
| `Transcription` | the recognition pipe around the model's download |
| `ScreenShare` | presenting, and the dialog that stops it |
| `MiniWindow` | the picture-in-picture window |
| `TimedNotice`, `Reactions` | what is shown for a time |
| `Stage` | participants, layouts, pin, speaker, mini window's picture, raised hands |
| `CallControls` | dock, corner, menus, panels, dialogs |
| `Chat` | texts, images, object URLs, the unread badge |
| `HostPanel`, `Muting` | the lock button; mute and mute-all |
| `Records` | what a call leaves in the tab and in storage, and what PostCall shows |
| `Attendance` | sessions, talk time, the report and its bars |
| `PageAuth` | who the page believes is signed in |
| `Preferences`, `Faces`, `RoomNames` | theme and language; initials and hues; slugs and links |
| `LobbyPresence`, `ShellCache` | the presence poll; the service worker's caches |
| `MCCallMedia`, `MCCallPage` | compose the call's and the page's modules |
| `MC*` | the instances TLC checks |
| `*_proofs` | the theorems and their proofs |

### ControlPlane

A browser is a cookie jar (`cookie`), a localStorage (`grant`) and one tab
(`seat`). `seat` follows `handleToken`: `DecideRole` is the handler up to the
role, with `isRoomHost` and its write into the table; `IssueIfUnlocked` is
`IsLocked` and `Issue`; the two are separate steps for a guest, because the lock
is read over the network, and one step for a host, who skips it. `Connect`,
`Leave` and `CloseRoom` are LiveKit, as the tokens and metadata use it (rooms
are created by the first to join, and deleted when empty). An admin endpoint is
`Authorise` and then `SetLocked`, `RemoveParticipant` or `AdminFails`. `Restart`
empties the table and drops requests in flight. There is only one subject,
`staff`, so the look-up and the write of `handleCreateRoom` and of `isRoomHost`
cannot be raced by another owner and are one step.

Times are remaining lifetimes; `Tick` shortens all of them. Tokens live an hour
and a handler's call at most 10 s, so no tick passes a request that is still in
the backend. Signatures are taken as unforgeable: a cookie or grant exists only
if the server made it.

History variables: `created`, `signedIn`, `lockAge` and the flag `failOpen` of a
token (the lock could not be read when it was issued).

### RateLimiter

`Arrive` reads the clock (`middleware`), `Allow` is one hold of the mutex:
sweep, then open a window, count or refuse. Between the two a goroutine may be
held for at most `Skew` ticks, so stamps reach `allow` out of order. With
`Skew = 0` this is a limiter with a perfect clock. `BurstLimit` knows neither
windows nor sweeps: at most `2 * limit` admissions within `tight` ticks, and no
refusal unless `limit` were admitted within `loose`. The limiter keeps it with
`tight = window - Skew` and `loose = window + Skew`; with `tight = window` it
fails, so the skew really costs that much.

### Recorder

A request is `starting` (past the check), `started` (Egress has answered, the id
is not stored yet) or `stopping` (the id is out of the table). Calls to Egress
take effect or fail, and a failure may hide an effect (`StartFails` of a
`started` request). A call that takes effect after the backend has given up is
the same as one that took effect just before. `EgressEnds` is a recording that
ends by itself, which nobody reports to the backend. History: `lost` (ids a
failed call or a restart dropped) and `raced` (rooms for which two Starts were in
flight at once).

### AppSession and SideRooms

A tab is the state of `App.tsx` (`screen`, `room`, `join`, `sideParent`,
`started`) and the connection of the mounted `CallRoom` (`conn`). A handler that
awaits the backend is two steps. The first (`AskCreate`, `AskJoin`, `AskRejoin`,
`AskMove`) leaves a request in `asks` with what its continuation captured; the
second (`Answer`, `Refuse`) is the continuation, applied to whatever the tab
shows by then. `Render` is what React does after a state change: `CallRoom` is
keyed on the room, so a new room unmounts the old connection. A request of a
screen that is gone is no longer `live`, but its continuation still runs; `late`
records that one did. `Refuse` of a rejoin stands for an unhandled rejection.

`SideRooms` adds `incoming` (`sideroom.ts`) and `wire`, the invitations on their
way. `TakeAside` sends the invitations and asks for the opener's move;
`Receive` shows one to a tab that is still connected to the room it was sent in;
the expiry timer of an invitation may fire at any time (`Dismiss`). A side room's
id is fresh: `generateRoomId` is taken not to repeat itself.

Left out: roles and devices, the sign-in gate, the browser's Back button (no
listener follows it), and the waiting screen, which is unreachable because
nothing sets `waitForHost`. History: `late`, `mainOf` (the main room a side room
was opened from), `entered`, `unopened`, `strayed` (some tab was answered late).

### The call's devices, windows and timers

Names carry the module's prefix, so that the modules can be composed.

- `Joining`: one visit to a lobby and the call it joins. A device prompt asked
  for by a toggle (`jnAsked`) is answered after others were asked; `JnCancelled`
  is the effect's cleanup, which stops a stream that comes too late. `JnToken`,
  `JnConnected` and `JnPublished` are the awaits of `handleJoin` and
  `useRoomConnection`; the two publishes are concurrent, and the first to fail
  shows the error although the other may still succeed. `JnShow` mounts the room
  and `JnMountAudio` attaches what has been subscribed before.
- `Backgrounds`: `bgChain` is the promise chain, one job per apply, each bound to
  the track it was asked for; `BgStart` and `BgDone` (or `BgFails`) are the two
  sides of the processor's await. `LatestWins` is what "order-preserving, latest
  wins" promises of the live track: a choice goes into effect or fails in the order
  made, and the mapping takes from the chain the jobs of the live track.
- `Transcription`: a build captures the microphone, awaits the model, and checks
  on the way out whether it is cancelled or another build was first. `trSwitched`
  is history: the microphone changed during a download.
- `ScreenShare`: several people, each seeing the others' shares late
  (`shHeard`); the browser's picker and its own "stop sharing" button.
- `MiniWindow`: `open`'s await, during which the tab returns or the call ends.
  `mwLost` marks a window that opened after its call's end, which nobody holds.
- `TimedNotice` is one component modelled four times over: `ntKind` says which of
  the notices it is, with its times. `Reactions` has a timer each.

### The call's page

- `Stage`: `StMain`, `StStrip`, `StLayout`, `StTile` and `StMini` are pure
  functions of who is here, their tracks, the speakers, the pin and the layout;
  what left may still be named by a pin or in the speakers (`StGone`).
- `CallControls`: what is offered in the dock, the corner and the menu, computed
  as the component computes it, and the popovers, panels and dialogs as the page
  changes size. "Mini window" is in the menu of a browser that supports it.
- `Chat`: a text is shown to its sender after its publish; an image after it was
  prepared (`ChPrepared`, the continuation of an await) and before it is sent; both
  are followed to each receiver (`chWire`, in order, and `chStream`, in any
  order). The badge is an effect (`ChEffect`) that runs after state changes, so
  several may be batched before it.
- `HostPanel`: the button's optimistic state, the request's write and its answer
  as separate steps, and metadata pushes in order (`hpWire`). `Muting`: the
  backend lists, then mutes; the notice to the muted is sent by the host's page
  after the answer.

### What outlives the call, and the page around it

- `Records`: a *stay* lasts from joining to leaving, through moves; the stores are
  kept as the stay they hold. A commitment being published (`rcSends`) is added and
  saved when the publish settles (`RcCommit`), wherever the user is by then; `rcLate`
  is history of those that settled after their call. A reload empties the stores.
- `Attendance`: the content of the store: observed time (`atSeen`, history) against
  the sessions and sums of the code. A list of speakers may name anybody, also who
  has left (`AtSpeakers`), and a server's clock may be ahead (`AtMount`); `odd` marks
  those of whom that was so.
- `PageAuth`: numbered sign-ins; the cookie is the server's side. Answers of the
  load effect, of the code and of creates arrive in any order; sign-outs overlap
  each other and sign-ins (`paOuts`, by the sign-in they were asked in), and clear
  cookie and page when they are answered. A refused create begins one.
- `Preferences`: the storage may refuse. `RoomNames`: characters are named, a
  Cyrillic letter by its transliteration; a loop over characters is a recursive
  function on positions.
- `Faces`: names are sequences of code points, and each twin has definitions of its
  own: the page's hash is `Math.imul` and a truncated sum over UTF-16 units, the
  backend's `h*31 + c` over code points, both on two halves of 32 bits; each has its
  white space and its upper case.
- `LobbyPresence`: polls overtake one another. `ShellCache`: any number of tabs ask
  for the shell and for the assets of the shells they show; a miss, the network's
  answer and the storing of it are separate steps, so that answers of several
  requests, deployments, rollbacks and outages come between. An asset is its
  version. `scErred` is history: the addresses at which an error was answered.

`MCCallMedia` and `MCCallPage` put these components side by side. They share no
state in the code either, apart from the room: a behaviour is therefore one of one
component, chosen by `part` in the initial state, while the others rest in an
initial state. Interleaving them would multiply the states and reach nothing
new. The stage is two parts (`StPictureNext`, `StQueueNext`): the picture reads
no hands, and the queue no tracks. `callRest`, `tabRest` and `pureRest` (and `bgRest` ...) are the resting halves.

## 3. Runs

| Run | Shows |
|---|---|
| `control_plane` | `HostEarned`: host authority is held only by who passed the code, over created rooms, through restarts, evictions, sign-outs and expiry. `GrantKeepsHost`: a creator with session and grant is host again after restarts and evictions. `LockSeals`: once a lock is older than a token's life, no guest token the lock allowed is left. `QueueMatchesMap`, `ForgetsOnlyOldest`: the table. |
| `lock_and_old_tokens` | *violation*: "A locked room admits only its host" is false of a guest whose token is older than the lock. |
| `rate_limiter` | `KeepsPromise` (refinement of `BurstLimit`), `SweptEntriesGone`. |
| `recorder` | `HeldOnce`: an id is in one hand, under its room. `Stoppable`: without overlapping Starts and lost ids every recording can be stopped and is its room's only one. |
| `recorder_stop_refused` | *violation*: Stop says "no active recording" of a room that is being recorded, after a call failed. |
| `recorder_started_twice` | *violation*: two overlapping Starts record a room twice. |
| `side_rooms` | `InOnePlace`: a tab that was answered in time has one room: screen, URL, token, connection and clock agree. `SameWayBack`: everybody in or invited to a side room has its opener's way back. `WayBackIsMain`: however deep side rooms nest, it leads to a room that was entered through its lobby. |
| `invite_before_move` | *violation*: people are invited into a room nobody entered, when the opener's own token request fails after the invitations went out. |
| `late_move_answer` | *violation*: a user who left while a move was under way is taken back into a call. |
| `call_media` | `DevicesAsWanted`: the preview and the room have exactly the devices that are on, and no stream is left behind. `JnHeard`: every subscribed voice is heard once. `TrPipeline`, `TrStarts`: transcription that is on listens to the microphone, or says that it does not. `MwNoOrphan`: an open window is held by its call. `OwnTimers`: a timer ends what it was started for. `BgLatestWins` (refinement of `LatestWins`), `BgEventuallyShown`: the camera comes to show the last choice. `JnSpinnerEnds`, `NoticesGo`: nothing temporary stays, but for a spinner over a device prompt nobody answers. `SharesAsMeant`: stopping a share never starts one, and two shares need two pages that had not heard of each other. |
| `call_page` | `StageIsCurrent`: the stage shows those who are here, and all pages number the hands alike. `ChatHolds`, `ChUnread`: what is shown as said was said, in order and once; a page that left holds no URL of an image it showed; the badge counts what has not been seen. `HpInSync`: the lock button ends up at the room's lock. `MuHolds`: a mute-all without an error reached everyone listed. `RcOwnCall`: PostCall shows this stay and this room, or a stay that moved or was published late. `AtCounts`: the report is what was observed. `SameEverywhere`: what is derived twice is the same twice. `LpLastKnown`: a failed poll changes nothing. `SessionHolds`: no late answer brings a user back, and only a sign-out of an earlier sign-in ends a session its user did not end. `CacheServes`: what was stored once stays whole, unless an error was answered in its place. |
| `commitment_marked` | *violation*: "Done" marks the commitment left in this call instead of the one the prompt asks about. |

Bounds.

- `MCControlPlane`: two browsers (a host and a guest, or two hosts), one room
  that is entered, two more that only fill the table, `MaxRooms = 2`, so that
  the entered room is evicted and comes back. A grant lives two ticks, session
  and token one: a grant outlives its session, and a lock a token. The code gate
  is on or off.
- `MCRateLimiter`: limit 2, window 2, skew 1, two requests in flight, two keys,
  clock to 5: two windows and their sweeps, and a burst over their boundary.
- `MCRecorder`: two rooms, three requests, three egresses: a race of two starts
  while a third request stops, and one more recording after it.
- `MCSideRooms`: two tabs, three rooms, one request under way per tab: a main
  room, a side room and one nested in it, with both tabs moving. More requests at
  once, of one tab, are covered by the proofs only, which have no bound.

- `MCCallMedia`: two device prompts at once and one remote track; two tracks of the
  camera and a chain of three jobs over three presets; three builds of the pipe
  over two microphones; two presenters; two notices with timers of three ticks;
  three reactions of two lengths. Each is what it takes for an answer to meet a
  later request; a third only repeats the second.
- `MCCallPage`: three participants (a pin, a speaker and a screen may be of
  different people, and one leaves); two chatters and two messages; two lock
  requests and two pushes; two to mute; two rooms and three calls (a call, a move,
  a second call in the first room), a commitment of one call being published at a
  time (`Records` is proved for any number); one other attendant, two ticks and two
  sessions (proved for any number too); two sign-ins, two sign-outs asked of each
  and two creates; two polls with one name shown of two people; two versions,
  deployed in turn and rolled back, and two answers being
  stored. Names are all sequences of up to four characters out of seven (space,
  hyphen, a letter, Go's next line, sharp s, a fullwidth letter, and one beyond the
  BMP), rooms out of nine with a maximal length of five instead of 64, so that
  cutting, trimming and collapsing meet.

The runs of the call and the page do not check deadlock: bounded counters run
out, and a user who has left is done. Otherwise deadlock is checked.

*Fairness.* The backend's runs need none: a handler that answers within its 10 s
timeout would only be restated. In `call_media` weak fairness is on what the code
starts and cannot refuse: promises that settle (the token request, `connect`,
each job of the apply chain, the model's download: each may settle as a
failure), timers that run out (`NtTick`, `RxTick`, `RxExpire`) and React's effect
that closes the dialog (`ShDialogCloses` once the share is over). Nothing a user,
the device prompt or the network's peers do is fair; publishing a device waits for
such a prompt, and so is not fair either (`JnPublished`). The liveness properties say
what must come: a picture, a message of failure, or the end of what is temporary.

## 4. Proofs

For every value of the constants that satisfies the modules' assumptions:

- `ControlPlane_proofs`: type correctness, `QueueMatchesMap`, `HostEarned`,
  `LockSeals`, and the action properties `ForgetsOnlyOldest` and
  `GrantKeepsHost`. The inductive invariant adds to them that an owned or
  granted room was created, that who holds a session or grant signed in, and that
  the life left to a guest token the lock allowed and the age of the lock add
  up to at most a token's life. Its first part is about the table: `Set`, in all
  three of its branches, keeps queue and map in step, from two facts about
  sequences without repetition.
- `RateLimiter_proofs`: type correctness (a count never passes `limit`) and
  `SweptEntriesGone`, from `Skew <= window`. The inductive invariant bounds every
  window and the next sweep by the stamps that may still arrive. `PromiseKept` is
  the refinement of `BurstLimit` (`KeepsPromise`), step by step. It counts nothing:
  that at most `2 * limit` of a key's admissions lie within `tight` ticks is that
  the admission `2 * limit` before the last one is older than that, an index into
  the list. The strengthening (`Spaced`) says of an open window where in the list
  its first admission stands, and that the `limit`-th before that one is more than
  `window - Skew` older; of a key without a window, that the last `limit` are.
- `Recorder_proofs`: type correctness, `HeldOnce`, `Stoppable`. The inductive
  invariant adds `OneStart` (in a room that was not raced at most one Start is
  past its check, and then the table has no entry for it) and `NoneAdrift`.
- `SideRooms_proofs`: type correctness, `InOnePlace`, `SameWayBack`,
  `WayBackIsMain`. The invariant of the screens (`AppInv`) adds that every live
  request fits the screen that sent it and that a tab at home or in a lobby has
  no way back; the one of the side rooms adds that invitations on their way and
  moves under way carry the opener's main room, and that whoever is in a call
  without a way back is in a room that was entered through its lobby. Steps that
  ask for no move and lead into no call share one lemma (`Quiet`).

- `Muting_proofs`: type correctness and `MuHolds`, for any set of participants.
  `MuHolds` needs as strengthening that whoever a mute-all still has to reach was
  listed and that nobody it has passed without an error is on without having
  turned the microphone on since, and the same of a single mute between the
  backend's answer and the notice.
- `Records_proofs`: type correctness and `RcOwnCall`, for any rooms and any number
  of calls. The strengthening says of both stores what PostCall's copies inherit:
  a valid attendance store and every entry of the commitments store is of the
  present stay, or of an earlier one that moved or was published late; and what is
  being published (`RcSendInv`) is of the mounted call, or of an earlier one.

- `CallMedia_proofs`: every safety property of `call_media`, for any number of
  prompts, tracks, builds, presenters, notices and reactions. A behaviour of the
  composition is one of each component (`Components`), so each has an invariant of
  its own. `JnInv`: at most one prompt is live, it is for the toggles as they are,
  and there is no stream beside it; what a join wants is what was on; a connected
  device is off exactly when it is not wanted. `TrInv`: a download is awaited only
  while transcription is on, and a live build captured the microphone in use.
  `ShInv` strengthens "both share" to "both are at least asking". `MwInv`: while a
  window is asked for none is held, and who asked is still in its call. `RxInv`
  bounds the counter by what is still being sent. `BackgroundLatestWins` is the
  refinement of `LatestWins`: `BgInv` keeps the jobs of a chain in the order of
  their tracks, the live track's last, so that what the mapping calls pending is
  one end of the chain, and lemmas on `BgPending` follow it through every step.
- `CallPage_proofs`: every property of `call_page`, `MuHolds` and `RcOwnCall`
  being proved in their modules.
  - The stage needs only that whoever is not here has no picture; that all pages
    number the hands alike is a fact about the sort (`StRank` is one more than the
    number of hands before it).
  - Chat (`ChInv`): whoever is there has shown, or has on the wire, exactly the
    texts of another that this other shows, in that order (`ChFaithful`); nothing
    is twice; what is on the wire is published. The badge (`ChBadgeInv`) has counted
    what came between the last look and the last effect.
  - The lock (`HpInv`): the last push on its way is the room's lock, and a button
    that shows something else than the page has been told has a push or a request
    under way to explain it.
  - The attendance store (`AtInv`) accounts, for everybody and at every moment, for
    what was observed until then (`AtAccount`): the closed sessions, the open one
    and the running timer add up to it.
  - The presence poll (`LpInv`), sign-in (`PaInv`: every answer carries a number
    that is not ahead of the sign-ins, and a sign-out nobody asked for is of a session
    that is gone), caches (`ScInv`: what is being stored is what the address is there
    for, or an error answered there) and the control bar (`CcInv`).
  - `SameForAll`: a name of the basic plane is its own UTF-16; one step of the
    page's hash is one step of the backend's, modulo 2^32 on halves, and so are any
    number of steps (`FcHashSame`); characters that both twins split and capitalise
    alike give the same initials (`FcInitialsSame`); a slug, once made,
    goes through transliteration, collapsing, cutting and trimming unchanged, and
    holds no character that ends a path segment (`RnLeadsBack`).

The assumptions on the constants (`*Assumption`, one or a few per module) say that
bounds are numbers, that the values standing for "none", "gone" or "error" are not
among the real ones, and, of `RateLimiter`, that a goroutine is held for no longer
than a window, of `ControlPlane`, that there is one staff subject, of `Faces`, that
code points are numbers. The proofs set no upper limit on any of them.

The prover has no induction over data, whose theorems take a predicate as a
parameter. Where a fact about a sum, or about a recursive function on the positions
of a sequence, is needed, it is proved from a set: the positions where it fails have
a least one (`LeastNat`, from the library's `WFMin`), which is not the first, and
whose predecessor contradicts it (`UpTo`, `Steps`, `Copied`). Models that are
reasoned about use recursive functions and quantifiers instead of `SelectSeq` and
folds.

Model-checked only: liveness (`BgEventuallyShown`, `JnSpinnerEnds`, `TrStarts`,
`NoticesGo`), which is out of the prover's reach, and the violations.

## 5. Observations

Where the code does something else than a text of the repository says, and a
property holds only with that case set apart, `PROJECT.json` reports it as a
finding, besides those with a violation run of their own:

| What the code does | Set apart by | Text |
|---|---|---|
| A creator with session and grant is host again after a restart or an eviction, without re-creating the room. | (`GrantKeepsHost` states it) | `rooms.go:11`, `rooms.go:15` |
| A microphone switched while the model downloads leaves the pipe on the old track. | `trSwitched` | `transcription.ts:109` |
| A device prompt that is never answered keeps the spinner up. | `JnSpinnerEnds` | `hooks.ts:113` |
| A lock request that failed although it was applied, or while another was under way, leaves the button wrong until the next push. | `hpDoubt` | `ParticipantsPanel.tsx:18` |
| The stores of a stay that moved are inherited by a later call in the same room; so is a commitment whose publish settles after its call. | `rcMoved`, `rcLate` | `commitments.ts:118` |
| Who is named in a list of speakers after leaving talks on, and who left before the tracking began has a row without a session that reads "In call". | `odd` | `attendance.ts:17` |
| An image still being prepared or received when the page leaves gets an object URL nobody revokes. | `ChReleased` | `datachannel.ts:119` |
| A name with characters beyond the BMP has another hue and other initials in the lobby than in the call; with a next line (U+0085), a byte order mark or a sharp s, other initials. | `FcSameFace` | `Avatar.tsx:14`, `presence.go:46`, `LobbyPresence.tsx:10` |
| The backend answers an empty room when LiveKit fails, which the lobby shows. | `LpServe` | `LobbyPresence.tsx:12`, `presence.go:33` |
| An error answered for an asset is cached and served for ever. | `scErred` | `sw.js:51` |

The models show more, which no text of the repository speaks of; each is visible as
the weakening of a property, or as a state a run reaches.

- A sign-out answered after a new sign-in ends the new session: nothing keeps the
  button from being pressed twice (`auth.tsx:58`, `PaStaysIn`).
- A presence answer overtaken by a later request's is shown all the same
  (`lpLate`).
- The host's page ignores the answer to a mute-all (`ParticipantsPanel.tsx:31`), so
  that `MuHolds` is about what the backend answers.
- `loading` stays up when transcription is switched off during the download.
- A window that the browser opens just after its call has ended belongs to nobody
  (`mwLost`); its own "leave" acts on whatever call there is.
- The preview stays torn down after a refused join (`jnTouched.preview`), and
  toggles during a pending join do not reach it (`jnTouched.toggles`). After a
  device was denied, joining with it on ends in an error rather than without it.
- A text whose publish fails is gone from the page too, with the field already
  cleared; an image is shown to its sender although sending it failed.
- A reaction sent as the call ends starts a timer after the cleanup (`rxLate`).
- Two people who press Present before hearing of each other both share
  (`shBlind`).
- A participant whose time of joining, by the server's clock, is ahead of this one
  is counted as present only from then on, and may have talked longer (`odd`).
- An error page answered to a navigation replaces the cached shell (`sw.js:40`)
  until the next good answer is stored.

## 6. Assumptions

Data messages are delivered to those in the room in the order one sender sent
them; a message is published only while its sender is in the room. Metadata
pushes arrive in the order of the writes. A track's processor is replaced by the
LiveKit SDK as one step per phase. The browser's storage may
start or stop throwing at any time (`PfStorage`); what `PfAgrees` says of the
stored choice is of a storage that has worked since the page was loaded.

## 7. Not modelled, and the plan

Not modelled: configuration loading, routing and static serving, deployment files,
the vendored segmenter; icons, styles, translations and the text of what is
shown; device lists, the level meter and drawing; sounds. Not reachable, and so
without behaviour: questions (`qa.ts`: no control opens its panel), the recording
toggle (its button is disabled), the webinar view (nothing mounts it) and with it
promotion, the waiting screen (nothing sets `waitForHost`), `parseRoomInput` (no
caller). The browser's Back button is not listened to, so the URL may name a room
the tab is not in; the models take the URL to follow the room.

What is left:

1. The composition of `PageAuth` with `AppSession`: a create refused while the tab
   has moved on, with the invariants of both proved of it.
2. The refinement of an abstract session by `AppSession`: a tab is in one call or
   in none, whatever is answered late.
