# webviz: formal models

TLA+ models of webviz, a browser-based robot visualiser: *sources* (Python, C++
and ROS 2 programs, and the app itself) publish channels to a *hub*, and the
hub relays them to *clients* (windows of the app, Python consumers) over
WebSockets. The modules model what is concurrent, stateful and order-dependent
in that: the hub's channel registry, broker and layout files; the delivery of
one channel to one client; a window's connection to the hub, the buffer between
its socket and its panels, what it publishes, records and replays; its panels,
displays, workspace and robots; and the threads of the SDKs' clients. TLC checks
them on small instances; TLAPS proves the main safety properties for every value
of the constants.

Paths are relative to `src/`; `hub/`, `app/` and `protocol/` stand for
`packages/hub/src/`, `packages/app/src/` and `packages/protocol/src/`.

## The system

| component | state it keeps | operations | what makes it correct |
|---|---|---|---|
| Channel registry `hub/channel_registry.ts` | `byGlobalId`, `byOwner` (per connection: local id -> entry, in Map order), the id counter | `advertise`, `unadvertise`, `removeBySource`, lookups | ids are never reused; the index agrees with the channels; two sources' channels of one name are both prefixed, in whatever order the sources come and go |
| Broker `hub/broker.ts` | connections, `subs` per client (rate, parked frame, trailing timer), `latchedCache`, local id counters, HTTP channels, the sockets | connect and close of sources and clients, `advertise`, `unadvertise`, data, `subscribe`, `unsubscribe`, HTTP injection, fan-out, throttle, timers, backpressure | the last value of a channel reaches its viewers; latched frames reach late subscribers; nothing of a source survives it; no timer survives its client |
| HubClient `app/protocol/HubClient.ts` | socket and reconnect timer, the directory (`channels`, `nameToId`), `subs` by name (`boundId`, `sentMaxHz`, entries), latched mirror, client channels | `connect`, `onMessage`, `subscribe`, `bindSub`, `addClientChannel` | the directory follows the hub's list; a panel's subscription follows its channel over renames, reconnects and hub restarts |
| MessageRouter and TimeManager `app/protocol/MessageRouter.ts`, `app/core/TimeManager.ts` | the frames held for the sync window, the highest stamp seen, the flush timer; handlers by channel id | `enqueue`, `flush`, `setSyncWindow`; `register`, `dispatch` | every frame is dispatched once; nothing is overtaken by a frame with an equal or later stamp; stamps go back only for frames later than the window |
| SourcePublisher `app/core/sourcePublisher.ts` | a socket as a source, advertised channels, reconnect timer | `advertise`, `publish`, `teardown` | what a window advertises is advertised again after a reconnect |
| Recorder and Player `app/core/recorder.ts`, `player.ts` | captured frames and the catalogue of channels; position, transport state, replay socket | start, stop, capture; load, play, pause, seek, step, unload | a recording has every frame once, in order, under its channel's name, and is replayed so |
| TFManager `app/core/TFManager.ts` | rolling buffer of transforms per frame, parent links, fixed frame | ingest, resolve, interpolate | samples stay ordered; a frame has a pose exactly while it is connected with the fixed frame, and the right one |
| Workspace `app/store/tabs.store.ts`, `layouts.ts`, `ui/WorkspaceView.tsx` | panes, pool of panels, their copy in local storage | split, close, pick, maximise, settings, load | each panel has one pane; what is saved is what there is; edits do not remount other panels |
| Robot model, IK and demo `app/plugins/Robot*.ts`, `app/core/ik.ts`, `demoExecutor.ts` | robot and load in progress, shadow robot, gizmo, keepalive, executor | load, jog, commit, stop, demo mode | the robot shown is the one asked for last; commands are those of the user; the shadow gets where the gizmo is |
| Session store, asset server `hub/session_store.ts`, `asset_server.ts`, `ui/TopBar.tsx` | layout files; the menus of windows | list, save, load, delete | a saved layout stays loadable until it is saved or deleted again |
| Scene plugins `app/plugins/`, `app/core/SceneManager.ts` | three.js objects, the markers, the frame requested | bind, message, decode, tick, enable, remove | what is on the screen is what came last; nothing that was deleted comes back |
| Tabs and UI `app/tabs/` | plot buffers and views, image cells, the log, the inspector, the map | message, pause, zoom, choose channels, filter, clear | a panel shows what came for what it is set to |
| SDKs `sdks/python`, `sdks/cpp` | a socket, channel ids; the Python Consumer's name tables; the C++ Client's send lock and reader thread | advertise, publish, subscribe, close | a wanted channel is asked for once; frames leave whole; nothing touches a closed descriptor |
| Wire protocol `protocol/` | none | encode and decode frames | golden files agree across languages |
| ROS 2 adapter `sdks/ros2/` | bridged topics | discovery, conversion | needs a ROS graph |

**How they interact.** A source connects with `role=source` and an id of its
own choice, sends `advertise` (JSON) and data (JSON or binary), and disconnects.
The hub answers every client's connect with `server_info` (a snapshot of all
channels) and sends it `advertise` and `unadvertise` as deltas. A client
subscribes by global id; the hub fans data frames out to the subscribers at
their `max_hz`, parking the newest frame inside the interval for a trailing
timer, and drops frames of a client whose socket holds more than
`MAX_BUFFERED_BYTES`. The app's panels subscribe by *name*: HubClient binds the
name to an id whenever its directory changes, and several panels share one
subscription at the fastest rate. `POST /api/inject` publishes without a socket,
`/api/layouts` keeps layouts. Inside a window, displays are placed by the shared
TFManager and drawn when one of them asks the scene for a frame; a robot's jog
mode publishes commands through SourcePublisher or, in demo mode, straight to an
executor in the window.

**What is hard.** Node and the browser run one callback at a time, so every
handler is atomic up to its first `await`; nothing is protected *between*
handlers. The SDKs have real threads, which let go of their locks in the middle
of a call. Timers may run late (the event loop is busy) and so overtake each
other. The two ends of a socket learn of its loss at different times. Names
change while subscriptions to them are on their way. Loads - of robots, meshes,
recordings, layouts, pictures - end in an order of their own, when what they were
for may be gone. The hub restarts and counts its ids from 1 again, while the app
remembers the old ones. Every hazard we know of is listed with its line in
`PROJECT.json`, with the properties that would catch it going wrong.

## Modules

```
JsMap            a JavaScript Map as a TLA+ function
Subscription     the throttle record of one (client, channel) pair
LatestValue      abstract: what a viewer of one live channel is promised
Delivery         one channel to one client: throttle, trailing timer,
                 backpressure, re-subscription; implements LatestValue
ChannelRegistry  the hub's registry
Broker           the hub: EXTENDS ChannelRegistry and Subscription; its
                 registry steps implement ChannelRegistry (proved)
SessionStore     the hub's layout files and the menus of windows
HubClient        the app's directory and bindings
HubSession       Broker and HubClient over sockets that break; hub restarts
SyncWindow       data frames inside a window: TimeManager, MessageRouter,
                 HubClient's mirror of latched channels
AppSocket        a socket of the app: its phases, and the hub's end
Publisher        SourcePublisher; EXTENDS AppSocket
Player           the replay of a recording; EXTENDS AppSocket
Recorder         capture, and the making of the file
Workspace        panes and panels, their copies and reloads
RobotModel       the loads of a robot, its shadow and demo mode
JogLoop          gizmo, solver, commands and keepalive; the demo executor
TFTree           the transform tree
Display          the displays of one channel each, and the scene's loop
Markers          the marker display
Plot, Viewers    the plot tab; the image, log, inspector and map tabs
Consumer         the Python Consumer's two threads
CppClient        the C++ Client's senders, reader and close()
MC*              constants for TLC, and the joining of components (below)
BrokerProofs     theorems about ChannelRegistry and Broker
HubSessionProofs theorems about HubSession (and HubClient)
DeliveryProofs, SyncWindowProofs
WindowProofs     theorems about Publisher, Player and TFTree
ClientProofs     theorems about CppClient, Consumer and JogLoop
PanelProofs      theorems about RobotModel, Markers, Viewers, Plot and Recorder
LayoutProofs     theorems about SessionStore and Workspace
```

Three MC modules hold several components that share nothing: `MCWindow`
(Publisher, Player), `MCClients` (Consumer, CppClient, SyncWindow, JogLoop,
Display; these have liveness) and `MCApp` (ChannelRegistry, RobotModel,
Workspace, TFTree, Markers, Plot, Viewers, Recorder, SessionStore). `active` is
chosen at the start and never changes: a behaviour exercises one component, which
shows as much as their interleavings and keeps the state graph a sum, not a
product. The fairness of a component is assumed where it is active.

`ChannelRegistry`. `byGlobalId` and `nextGlobalId` are the code's. A Map keeps a
key's place when its value is overwritten, and `unadvertise` takes the *first*
match in Map order, so a row of `byOwner` remembers the id that first opened
its slot. A public name is the pair (prefix, bare name): that a bare name with a
`/` in it could spell the same string as a prefixed one is left out.

`Broker`. One action per handler of `broker.ts`: `SourceConnects`,
`ClientConnects` (onConnection), `SourceGone`, `ClientGone` (onClose),
`ClientCloses` (readyState CLOSING, before 'close'), `AdvertiseWithId`,
`AdvertiseWithoutId`, `Unadvertise`, `Data` (onJsonData and onBinary, which take
one path), `InjectKnown` and `InjectNew` (the two branches of injectJson),
`Subscribe`, `Unsubscribe`, `TimerFires`; the environment adds `Drain` (the
client's end takes a message off its socket) and `IntervalElapses` (time).
- *Time.* The throttle asks only whether the interval since `lastSentMs` is
  over: `recent`. The timer is armed for exactly that moment, so elapsing turns
  an armed timer `due`; when the callback runs after that is up to the event
  loop, and other handlers may run first.
- *Backpressure.* `wire[c]` stands for `bufferedAmount`, counted in messages.
- *Roles.* The hub does not enforce the role a connection declares. Every
  program in the repository uses one role per connection, and so do the models.
- *Local ids.* `LocalIdPolicy[s]` says how source `s` numbers its channels: "sdk"
  (a counter of its own, as all SDKs do), "hub" (it leaves `id` out, and the hub
  counts), or "any" mix of the two.
- *Closes.* After a close the hub writes nothing more to that socket, so what
  the client had not read yet is dropped with it: reading it later would commute
  with the close.
- Not modelled: `Broker.close` (process exit), the origin check, the statistics.

`Delivery` takes one (client, channel) pair of the broker apart: the client end
is a variable too (`received`), so it can state what the viewer sees. The
throttle record and its operators (`Subscription`) are the ones Broker uses.

`HubClient` holds no socket: its operators yield the messages the app sends.
`HubSession` gives each socket two queues and lets the two ends learn of its
loss in any order, restarts the hub (all of the hub's state is lost), and lets
two sources collide, rename each other and leave. Data frames are left out
there (`MaxFrames = 0`, or 1 because HTTP injection always carries one): they
touch neither directory nor bindings. The window connects with a new socket
each time, a new member of `Clients`.

`SyncWindow` starts where `HubSession` stops: at the data frames a window
receives, numbered by arrival. `Arrive` is onMessage with `enqueue`, `Flush` one
call of `flush` with every dispatch in it, `SetSyncWindow` the user's setting,
`PanelSubscribes`, `PanelUnsubscribes` and `Replay` the handler's life and the
microtask that serves it from `latchedLast`.
- *Time.* Stamps are the sources' clocks and arbitrary. The wall clock decides
  only which frames have been held for `maxHoldMs`; those are always the first to
  have arrived, so `expired` counts them.
- *Microtasks* run before the next callback (`TaskMayRun`), but several panels
  may come and go within one task.
- *History.* `out`, `rounds` and `horizon` record what was dispatched, in which
  flush, and up to which stamp; no action's guard reads them.
- Its channels exist throughout. A reconnect takes 1.5 s and `maxHoldMs` is
  150 ms, so frames held under the old hub's ids are out before new ids come.
  A channel's entry leaves the mirror (`latchedLast`) when the channel is
  unadvertised (`HubClient.ts:381`), so that stays outside too. Client-side demo
  channels bypass the buffer.

`AppSocket` is what `sourcePublisher.ts` and `player.ts` have in common: one
`this.ws` that is replaced, and handlers that stay attached to the sockets it
named before. `phase[s]` is the browser's end, `hubEnd` the sockets the hub still
holds; the handshake (`HandshakeDone`), the loss of a connection (`HubLoses`) and
the close event (`SocketEnds`) are steps of their own. `promptCloses` is fixed
at the start of a behaviour: with it the close event of a socket the window shut
comes before the next call (see the boundaries below).

`Publisher`. `Advertise`, `Send`, `Close` (with `teardown` after the last one),
`OnOpen`, `OnClose` and `Reconnect` are the methods and callbacks. `told[s][i]` is
the hub's table of what socket `s` advertised, with the last value it took, and
`placed[s][i]` the place of that row in the hub's Map; a source is sent nothing, so
the hub takes its messages at once, and it forgets a socket it loses
(`HubForgets`, in `Breaks` and `OnClose`). `names[i]` need not be unique: two
Coordinate Frame displays publish `tcp_target` unless told otherwise. A handle's
`close` sends the bare name alone (`sourcePublisher.ts:75`), and the hub drops its
first row of that name (`FirstNamed`, after `channel_registry.ts:105-117`).
`crossed` is history: the names of which a handle was closed on this socket while
another was open. `Throws` is the `InvalidStateError` of a `send` on a socket that
still connects.

`Player`. A recording is the sequence of frames that parsing leaves, sorted by
time. `Load` starts to read a file and `Loaded` goes on after the `await`, up to the
toolbar's `play()` (`TopBar.tsx:247-248`); two reads may overlap. `Step(dt)` is a timer
tick in which `dt` has passed, wall time and speed multiplied out, so
`lastTickMs` and the speed are part of `dt`. The channels' state as a viewer has it
is `replayed`.

`SessionStore`. `files` are the contents of the layout directory, known by what
they spell and how long they are. A save is two steps, `SaveOpens` (which empties
the file, as `writeFile` does) and `SaveWrites`; `Unlink` is a delete, `SaveFails`
a full disk, `StoreRestarts` the hub's end in the middle of either. `FileFor` is
the sanitising of names. `OpenMenu` and `Refreshed` are the menu of a window, `SaveAs`
and `DeleteListed` its buttons. `due` and `hurt` are history.

`Workspace`. The split tree is the sequence of its leaves (`Workspace.tla` says why
that is enough). Every edit is `Becomes(w)`: it sets the store, arms the debounced
save with what it will write (`pending`), and renders (`mounted`), which is where
React keeps or remounts a panel. `PersistWorkspace` is the timer, with a storage that may be
full; `ReloadPage` starts from what is stored, older formats included;
`SaveLayout`, `LoadLayout`, `ApplyWorkspace` are named layouts, where the answer to
a load may come after further edits.

`RobotModel`. `LoadFromUrl`, `ReloadLocal`, `LoadFromChannel` are the three places a
robot comes from; `FilesRead`, `RobotLoaded` and `LoadFails` what comes after their
`await`s. A load asked for while another runs has its side effects (`meshBase`,
`urdfSource`) and is then dropped, as in the code; a message without `urdf_url`
(`ChannelWithoutUrl`) resets `meshBase` and loads nothing. `SetJog`, `Rewire`, `DemoOff`,
`Destroy` are the user. `asked`, `overlapped` (the last request was made while another
was under way) and `cut` (something else came into the last load) are history.

`JogLoop`. A joint configuration and the pose it reaches are one value. `MoveGizmo`,
`DragEnd`, `SetIkJoint`, `SendTarget` are the user's hand, `Beat` the keepalive,
`RateOpens` the cap of 30 targets per second, `Tick` an animation frame of the
executor, `Solver` and `Solution` a solver behind the hub (external). Time is
counted in keepalive periods.

`TFTree`. Space is a line with reflections, so that poses do not commute and are
still exact. `Ingest` is a transform message, with the ordered insertion and
pruning (`WithSample`: `PlaceOf`, then `WithinWindow`); `transforms` counts these
messages, for the bound. What `refreshTransforms` hands to the panels is
`ResolveToFixed`, computed over `ComposeUp`, a walk whose state is what the code's loop changes
(`Walks`, and `Climbed` for a turn of it). `Bracket` is the search
of `interpolate`, `Narrowed` a step of it.

`Display`. `kind` picks the plugin; what the five share (binding, the mirror's replay,
visibility, placement, the scene's loop) is stated once, what differs is
`ScanUpdate` ... `CloudUpdate`, and the worker of the point cloud (`OnDecoded`).
`SceneFrame` is an animation frame, which draws only if `dirty`; `screen` is what
the user sees.

`Markers`. `MarkerMessage`, `SwitchMarkers`, `RebindMarkers` are messages and the
channel's life; `MeshLoaded` and `MeshFailed` end a load; `MarkerFrame` is
`onRender`, where lifetimes end. `said` is history.

`Plot`. A subplot is the set of its series. `PlotMessage` appends to the buffers of every
series of its channel, cuts them off (`Retained`) and
discovers fields; `AddPicked`, `RemoveSeries`, `AddPlot`, `RemovePlot` edit the
subplots, whose buffers are shared and pruned (`Pruned`) and replayed to by latched
channels (`Replayed`); `TogglePause`, `ZoomAt`, `PanBy`, `FitView` move the view.
Of the pickers of several subplots one is modelled (`picked`): each is a local
state of its subplot and meets the others only through the series it adds. `carried`
and `since` are history: what came for a series outside of pauses, and where it began.

`Viewers`. Four panels, one per behaviour: the image grid with its asynchronous
decoding (`ImageFrame`, `ImageDecoded`) and remounts, the log with its buffer,
filter and flush, the inspector, and the map with its fit (`DrawMap`).

`Recorder`. `RecData`, `RecAdvertise` and `RecServerInfo` are frames as the hub
sends them, captured while `recording`. `Serialized` is the making of the file:
one `Pass` over the records, from the catalogue of the beginning, in which a frame that
names channels changes the catalogue (`Folded`) and a message goes under the topic that
`getChannelId` remembers for its id, or finds for it now (`TopicOf`).

`Consumer`. Two threads; a step is what one of them does while it has the lock,
or one send outside of it. A `server_info` is a run of advertises. It never
reconnects, so a behaviour is one connection.

`CppClient`. A frame is two chunks (header, payload), and `writev` may stop after
any of them; reads and writes fail once the peer is gone. Only programs that
ignore SIGPIPE (`client.hpp:429`), and `background_reader = true`.

## Runs

Each bound is a constant of the same name in the `.cfg`. Every run stops when
channels, frames, edits or loads are used up, hence `CHECK_DEADLOCK FALSE`.

| run | question | bounds, and why they are enough |
|---|---|---|
| `Delivery` | is anything lost silently or parked for ever? does the throttle keep its rate, does the viewer never move back and end on the last value? | 5 frames, socket of 1, 2 re-subscribes, each combination of a latched or unlatched channel with punctual or arbitrarily late timers: send, park, overtake, flush and shed in one behaviour; the abstract `LatestValue` is checked as a property, liveness included |
| `Delivery_LateTimer` | does the viewer settle on the final value when timers are late? **No** (below) | 4 frames, no backpressure |
| `Broker` | the whole hub: is the latched cache exact, do latched frames reach every subscriber? | two sources (one "sdk", one "hub"), one HTTP source, one client, one name, 2 channels, 2 frames each, a socket full after one message: collision, replay, throttle, shed and close paths meet; more clients do not interact with each other in the code |
| `HubSession` | do directory and bindings follow the hub over renames, lost sockets and a restart? | 2 sources of one name, 2 successive sockets, 1 panel with 2 rates, 1 restart, 2 channels (3 with panels goes beyond several minutes) |
| `HubSession_Served` | does a panel that keeps wanting a live channel end up subscribed at the right rate? | 2 panels, 2 rates, a source and an HTTP source, 3 channels |
| `HubSession_SharedId` | does a bound name always have a subscription? **No** when panels hold both the old and the new name (below) | 2 panels, bare and prefixed name |
| `HubSession_HttpRename` | does the directory follow the hub when HTTP injection causes a collision? **No** (below) | one source, one HTTP source |
| `Window` | does what a window advertises reach the hub, over lost sockets and teardowns? does a replay show, at every moment, the frames of that moment, and get to its end? | 3 channels under 2 names, 1 value, 6 sockets, 1 lost connection, 3 loads of 2 recordings (one with two frames at its last moment, one of a single instant), 3 seeks, steps of up to 2: teardown during the handshake, reconnects with values to repeat, two handles of one name of which one is closed, loads that overtake each other, a seek before the socket opens |
| `Publisher_SameName` | has the hub the channel of every open handle? **No** when two handles have one name (below) | 2 handles of one name, 1 socket at a time |
| `Clients` | five components with schedulers of their own, one per behaviour; the next rows | |
| - Consumer | is each wanted channel asked for once, is each frame given to the right callback, is everyone served? | 2 names, 2 channels, 1 rename, 2 frames: subscribing while the channel appears, renames between check and send |
| - CppClient | do frames leave whole, does `close()` return, is a closed descriptor left alone? | 2 senders, 3 frames, 1 ping: a pong between two frames, a partial write at a close |
| - SyncWindow | does the buffer reorder only towards earlier stamps, is the stream monotone within the window, do late panels get the newest latched frame, does every frame come out? | 2 channels (one latched), 1 panel, 3 frames with stamps 1 and 3, windows 0 and 2: equal stamps, late and forced frames, three flushes and a replay ahead of a held frame |
| - JogLoop | is only what was sent commanded? does the shadow get to the gizmo, and the robot to its goal? | 2 configurations, 2 moves, 2 commits, 2 entries, a solver that stops once: a target lost to the cap or to the solver's absence, a goal asserted again during its animation |
| - Display | is what changed last on the screen in the end? | 5 kinds, 2 channels (one latched), 2 points, 2 messages, 3 edits: a shorter message after a longer, a cloud that comes back after a switch, hiding while decoding |
| `App` | nine components, one per behaviour; the next rows | |
| - ChannelRegistry | do channels of one public name come from one source id? | 3 connections of which two share a source id, 2 names, 2 local ids, 3 advertises: an overwritten slot and a name that comes back after its owner left |
| - RobotModel | is the shadow of the robot that is shown, is that the one asked for last, with meshes from its own place? | 3 models (two arms, one of them in the catalogue; a cart), 3 loads: a load within a load, a message without URL in one, a failure in between, jogging over a reload |
| - Workspace | has each panel one pane, is what is stored what there is, does an edit leave other panels mounted? | 2 panes at once, 3 panes and panels made, 2 layout calls: a load that comes after a close, a reload before and after the timer, a full storage |
| - TFTree | are samples ordered, does a frame have the right pose exactly while it is connected with the fixed frame? | 3 frames, 2 channels, 3 samples at 3 moments, a window of 2: out of order, pruned, re-parented, reflected, a cycle |
| - Markers | is what is displayed what was asked for since it was cleared? | 2 keys (one namespace a prefix of the other), 2 meshes, 2 channels, 3 messages, 1 lifetime: a mesh that arrives after its marker was replaced or deleted |
| - Plot | does each series show what its channel carried? | 2 subplots, 2 fields, 3 messages, buffers of 2, 3 edits: shared buffers, pruning, a pause over messages, zoom and pan at the edge |
| - Viewers | does a panel show what it is set to, do pictures never go back, is a map fitted on first sight? | 2 cells, 2 channels, 4 messages, 3 edits, a log of 3 that renders 2 |
| - Recorder | is every message in the file, under a name of its channel? | 2 ids, 2 names, 4 frames of which 3 are kept, 2 recordings |
| - SessionStore | is a saved layout there until it is saved or deleted again? | 3 names for 2 files, 2 texts of different length, 2 windows, 2 calls at once, 4 acts: two saves of one file at once, a delete during a save, a crash in a save |
| `Recorder_Restart` | has each channel a topic of its own? **No** over a restart of the hub (below) | as above |

**Fairness.** `Delivery!FairSpec`, `HubSession!SessionFairSpec`, `MCWindow!FairSpec`
and `MCClients!FairSpec` are the fair specifications. Timers come due and their
callbacks run, and what was sent on an open socket is handled at the other end:
Node's event loop and TCP give both. Nothing obliges a source to publish, a panel
to subscribe, a client to connect or a broken socket to be noticed. Two
things about `Delivery` are chosen when a behaviour begins, and stay: `punctualTimers`
(a due timer runs before the next frame is handled) is the premise of `RateLimited`
and `ViewerPromise`, and `latched` excuses the latter's liveness where it is false and
the viewer re-subscribes (a re-subscription loses the parked frame, and nothing
replaces it). `NothingLostSilently` and `FlushedEventually` hold in all behaviours; what
happens without punctual timers is below. `PanelsServed` speaks of panels whose wish, channel and socket last.
- *The window's sockets.* They finish their handshake, shut ones report it,
  reconnect timers run (`PublisherFairness`); a replay's socket opens and its timer
  ticks while playing (`PlayerFairness`). Files need not be readable, connections
  need not break, and users do what they like.
- *Sync window* (`SyncFairness`). The clock goes on (`HoldExpires`), microtasks run,
  and the interval timer gets its turn between tasks while it is set (`Flush`,
  strongly fair: panels that come and go put microtasks in front of it for a moment,
  again and again).
- *Threads* (`ConsumerFairness`, `CppFairness`). They run and nobody keeps a lock, so
  weak fairness suffices for taking it; the hub need not send anything, nor hang up.
- *Jogging* (`JogFairness`). The page is visible, so that keepalive and animation
  frames come; a solver that is asked for starts and answers, and may stop again as
  often as `MaxStops` says.
- *Displays* (`DisplayFairness`). The worker answers, and a started scene gets its
  animation frames. Nothing is assumed about who asks for one: that is the property.

## What the checks show

Disagreements between the code and what it says of itself, each with a run:

1. **A late timer overtakes** (`broker.ts:341`, run `Delivery_LateTimer`). If the
   interval is over but the callback has not run, `deliver` sends the new frame
   directly and leaves the older one parked; the callback then sends the *older*
   frame last. The viewer rests on a stale value, which `broker.ts:28-29` says does
   not happen. The fix would be to clear the parked frame on a direct send.
2. **One id under two names** (`HubClient.ts:205`, run `HubSession_SharedId`).
   After a rename, `addChannel` leaves the old name in `nameToId`; a panel asking for the
   old name and one asking for the new are bound to one id, and the first to
   leave unsubscribes for both.
3. **HTTP injection renames silently** (`broker.ts:246`, run
   `HubSession_HttpRename`). `injectJson` ignores `renamed`.
4. **A handle closes another's channel** (`sourcePublisher.ts:75`, run
   `Publisher_SameName`). `close` unadvertises by name, and the hub drops the first
   channel of that name. With two handles of one name, as two Coordinate Frame displays
   have by default (`CoordinateFramePlugin.ts:79`), closing the second takes the first
   one's channel away; its handle stays open, and what it sends is dropped until the
   next reconnect. `sourcePublisher.ts:26` says "release the channel".
5. **A topic for two channels** (`recorder.ts:138`, run `Recorder_Restart`). The file
   keeps the topic an id had with its first message, and a hub that was restarted
   gives ids out from 1 again: messages of another channel are filed under the
   first one's topic, though the catalogue was corrected by the `server_info`
   frame. `recorder.ts:7` says "one MCAP channel per wv channel".

Boundaries of what is promised, found while choosing the premises above (the
premise is named, and without it the property fails):

- Two connections with one source id (two windows as `ui`) get one public name
  for two channels (`channel_registry.ts:70`); hence the premise of
  `SharedNameSharesSource` and of the theorem `RegistryNamesUnique`.
- A source that advertises one name twice makes `unadvertise` by public name
  ambiguous for the clients (`broker.ts:198`); hence `OwnNamesDistinct`.
- A source that mixes its own local ids with the hub's counter can displace a
  live channel from the index, which then outlives the source
  (`channel_registry.ts:42, 119`); hence `LocalIdPolicy[s] # "any"` for
  `GoneOwnsNothing`.
- Backpressure may drop the last frame of a burst or a latched replay for good
  (`broker.ts:348, 282`); hence `shed` in the properties.
- Re-subscribing at another rate discards the parked frame (`broker.ts:276`);
  only a latched channel replays it.
- A frame may go out behind one with a later stamp when `maxHold` flushed that
  one, or when it arrived after its time had been let go (`TimeManager.ts:57`);
  hence `forced` and `late` in `MonotoneStream`.
- A panel that is served from the mirror may be called with older frames of the
  channel, still held, before the newest one again (`HubClient.ts:183-187` calls
  duplicates harmless); `LatePanelsCurrent` is about where it ends, and only for
  channels whose stamps do not go back.
- A late timer may write within an interval that a direct send opened
  (`broker.ts:335`); hence `punctualTimers` in `RateLimited`.
- All sockets of a SourcePublisher share one `this.ws`. If the last channel is
  closed and another advertised in the same task, as
  `CoordinateFramePlugin.refreshPublisher` does, the close event of the old
  socket detaches the new one (`sourcePublisher.ts:113`). The new one opens all the
  same, unknown to its owner, beside the next one, and `advertise` may throw while a channel
  stays behind without a handle. `sourcePublisher.ts:7-8` means one shared socket
  per window; hence `promptCloses` in `HubInSync` and `EventuallyPublished`. Both
  except the names in `crossed` (finding 4): of such a name `HubInSync` says only that
  the hub has as many channels as there are open handles, until all of its handles
  are closed or the socket is replaced.
- In the same way a Player that loads a second recording may lose `ready` to the
  first one's close event; it then stands still, as it does when its
  connection is lost, for it never reconnects (`player.ts:269`). `PlaysToEnd` is about
  replays whose connection lasts.
- Of two files read at once, the one that was read last is played, not the one
  that was chosen last (`player.ts:93`).
- A channel with no frame up to the moment of a backward seek keeps the later
  frame it shows; `PositionShown` speaks of channels that have one. A recording
  of a single instant is not sent again when it is played again.
- The C++ Client's `close()` waits for the reader, not for senders
  (`client.hpp:354`): a `send` on another thread may use the descriptor after it
  was closed. Programs must join their senders first (`joinedCalls`). `is_open()`
  stays true until a read fails.
- The Consumer leaves an old name of a renamed channel in `_name_to_id`
  (`client.py:147`); a later `subscribe` to that name asks for the renamed channel,
  whose frames it does not get.
- *Robots.* A load asked for while another runs is dropped after its side effects
  (`RobotModelPlugin.ts:480`): the model shown is then not the one asked for last
  (`overlapped` in `ModelAsAsked`), and if it was asked for by URL or channel its meshes are
  looked for in the other one's place (`cut`). So they are if, while it loads, a message comes without
  `urdf_url` (487-488) or demo mode ends. What is shown is still the model whose key is kept,
  so that a later message for it, which loads nothing, does not repair the meshes. Callbacks of the old robot's meshes count into the new one's
  report; a failed reload hides the jog panel but keeps the robot; a robot whose
  load ends after the panel has closed is still added to the scene; the robot is in
  zero pose after a reload until the next sample comes (635-636).
- *Jogging.* `sameGoal` compares positions and not joint names; a goal that arrives
  during an animation leaves two chains of animation frames
  (`demoExecutor.ts:40-48`).
- *Transforms.* A sample with a stamp far ahead freezes its frame: everything that
  comes later is older than the window (`TFManager.ts:84-90`). `PosesAgree` is about
  frames that form a forest; what a cycle yields is no pose.
- *Displays.* Old data stays after a switch to a channel that is silent; a message
  without `frame_id` keeps the old place; a cloud whose first frame comes while it
  is disabled is shown (`PointCloudPlugin.ts:149-151`), which `ScreenUpToDate` leaves
  out; two 3D panels share the fixed frame.
- *Markers.* `delete_namespace` deletes by prefix, `arm` also `arm/left`; a replay
  brings an expired marker back for another lifetime; the pose of a message that
  finds its mesh still loading is lost, whatever `MarkerPlugin.ts:141-142` says; a
  mesh whose load failed is not tried again. `MarkersAsPublished` states what is there
  with these in mind.
- *Plots.* Samples that come in a pause are lost to the plot. Panning can scroll to where
  nothing is kept (`PlotTab.tsx:205`, against the comment at 201-202). Channel and
  field lists are joined with separators their members may contain.
- *Viewers.* A frame that comes while the previous one is decoded is dropped, also when
  it is the last; fewer cells forget the channels of the others; a map's fit may
  be spent on the map of the channel before (`MapTab.tsx:346`), hence `unseen`; a
  paused log renders again when its filter changes; subscribing again replays latched entries.
- *Workspaces.* Channels picked automatically are not stored before the next edit;
  two windows write one local storage; a layout loaded over a pane of the same type
  leaves that pane's displays as they were (`layouts.ts:10`, `ThreeDTab.tsx:102-144`).
- *Layout files.* Names that differ only in characters a file name may not have
  share a file; two saves of one file at once may leave the tail of the longer one,
  which then does not parse (404); a crash or a failed write in a save loses the layout it
  replaces; these are `hurt` in `SavedIsKept`. Lists that are answered out of
  order only give an older menu.

## Proofs

All theorems assume only the named `ASSUME`s of the modules (types of the constants,
and that they are finite where the code walks over them), besides premises that the
theorem itself states, and are by induction on an invariant.

- `BrokerProofs`, the registry. `RegInv` is the conjunction of `RegTypeOK`,
  `IndexSound` and `CollisionsPrefixed`, inductive together: index rows must be of
  live channels for the removals, and the new entry's prefix depends on all
  collisions having been handled. From it: `RegistryIndexSound`,
  `RegistrySharedNames`, `RegistryNamesUnique` (for distinct source ids),
  `RegistryIdentityStable` and `RegistryRemovalIsLocal`.
- `DeliveryProofs`. `DeliveryInv` joins the type invariant to the relation of
  `pending`, `timer`, `top` and `offered`. From it: nothing is lost silently and
  a parked frame always has its timer, with arbitrarily late timers. With
  `punctualTimers` (a premise of the properties) a due timer lies outside every
  interval, which gives `DeliveryRateLimited`; and the frames received, on the
  wire and parked form one increasing sequence (`Ordered`), which gives
  `DeliveryNeverMovesBack`: Delivery implements the safety part of LatestValue.
- `BrokerProofs`, the hub. `HubInv` joins the registry's invariant to the local id
  counters (below `nextGlobalId`, so the registry's calls are defined), the
  cache, the subscriptions, and what was written to whom. From it:
  `BrokerImplementsRegistry` (every step of the hub is a registry step or leaves
  the registry alone, so all of the registry's theorems hold of the hub),
  `BrokerLatchedCacheFaithful`, `BrokerTimersBelongToConns` and
  `BrokerLatchedReachesSubscriber`. `OwnersInv` adds that every channel has a row and
  every owner is connected; with `LocalIdPolicy[s] # "any"` for all sources it is
  inductive and gives `BrokerGoneOwnsNothing`.
- `SyncWindowProofs`. `SyncInv` says, besides the properties, that numbers are
  unique, that no held frame has been overtaken unduly (`OrderInv`), that what
  was let go lies below `horizon` and what is held above it (`HorizonInv`: the
  reason why stamps of one flush never go behind those of an earlier one), and
  that the mirror names the newest frame of its channel. A flush calls a panel
  with a *last* frame, whose existence is proved from the well-foundedness of the
  numbers (`LastExists`). From it: `SyncTypeCorrect`, `SyncKeepsOrder`,
  `SyncMonotone` and `SyncServesLatePanels`.
- `ClientProofs`, the C++ client. `CppInv` adds to the types that only the holder of the send
  lock is inside a frame, that the last chunk on the wire is the one before the
  rest it still has to write, and that a closed descriptor comes after the reader
  has gone. From it, for any number of senders and frames: `CppWholeFrames` and
  `CppClosedFdUnused`.
- `PanelProofs`, the robot. `RobotInv` adds to the types `Loads`, which relates the robot
  and its number to the loads that were made. `ShadowOfTheRobot` follows. For
  `AskedIsShown` a second part, `AsAsked`, says where a request made on its own is - being
  read, being loaded, failed, or shown (`LastAsked`) - and of every load into which nothing came
  that `meshBase` is still its own (`OwnMeshes`).
- `ClientProofs`, the jog loop. `JogInv` adds `Asserting` to the types and `HeldUntilSent`: what the
  keepalive holds, in the native backend, is what was committed; hence asserting it
  again commands nothing new. From it: `JogTypes`, `OnlySentIsCommanded`.
- `LayoutProofs`, the session store. `StoreInv` says that a file nothing has spoilt is as the last save
  or delete left it, or empty for the single save that has it open. From it
  `SavedLayoutsAreKept`, for any names, files, windows and calls.

- `HubSessionProofs`. `SessionInv` says of the messages under way to the window, read
  one by one in *any* way that follows `onMessage`, that they end in the hub's list
  (`Announced`), whatever the window's directory is now: after a reconnect it is of
  the old hub and `server_info` at the end of the queue replaces it. A broadcast is
  read message by message: each `advertise` of a renamed entry puts its new name in
  the place of the bare one, each `unadvertise` takes away exactly the id its name
  leads to (`AfterAdvertises`, `AfterUnadvertises`), because names differ.
  `DirectoryConvergesHolds` has three premises, `Setting`. Two sources of one id
  share public names, of which a directory by name can keep one only; a source that
  advertises a name twice withdraws both names with one `unadvertise` that does not
  say which; and an HTTP injection renames without telling (the
  run `HubSession_HttpRename` and its finding).
  `BindInv` says of the bindings: `bound` is what `bindSub` makes of the panels and
  the directory (`Bound`); the ids that the directory knows, and will know when
  everything under way is read, were given out by the hub, and two names of one id are
  names of one channel (`Told`); and however the hub handles the requests under way,
  read one by one, it comes to hold all that `bound` stands for (`Asked`). Each batch of
  requests carries that from the old bindings to the new (`BatchRenews`,
  `UnsubscribeRenews`), unless two names share an id: then the one given up takes the
  other's subscription with it. Hence the further premise of `BoundIsSubscribedHolds`,
  `PanelsApart`: no two names that panels may ask for are names of one channel. The run
  `HubSession` satisfies it (it asks for one name); `HubSession_SharedId`
  (finding 2) is what happens without it.
- `WindowProofs`. `PublisherInv` adds to `HubInSync` that sockets are numbered in the
  order they are made, that ids not given out have no value and are unknown to the hub,
  and that, unless a 'close' event is stale, a socket being closed is the last one and has
  no channels (`SocketOwned`). A close drops exactly one row of the name, the first (which exists,
  `FirstIsNamed`), so that rows and handles of a name stay equally many, and when the
  last handle of a name is closed no row of it is left (`CloseKeepsCount`). `PlayerInv` adds that there is one socket, advertised with the
  channels of the recording at hand (`ReplayOwned`), and that the cursor counts exactly the
  records due at the clock (`CursorDue`).
- `WindowProofs`, the tree. `TfInv` says of every buffer that it is a sequence of
  samples, not empty, in order of time, whose ends are no further apart than the window;
  a sample put in its place keeps the order (`PlacedInTime`), and what is cut off in front
  leaves the window (`KeptInTime`). That the search of `interpolate` finds neighbours with the time
  between them is shown of all its intervals, by the least width for which it would fail.
  Of the poses, `ComposeUpFacts` says that in a forest a frame is where its
  parent is, moved by its own transform, wherever the walk started: poses compose
  associatively, and what a walk has come by is never above it. The lemmas on walks
  are shown for all frames by looking at one that would refute them and has no parent
  that does (`TopmostExists`: a parent has fewer ancestors). `TopFacts` and `OneRoot` then
  say where walks end, and `Resolved` that the two ways of `resolveToFixed` are all there
  are. From it `PosesAgreeHolds`.
- `ClientProofs`, the consumer. `ConsumerInv` adds `AskedOnce` (a channel that
  has not ended was asked for at most once, counting the thread that is about to) and `OnTheWay`: for every prefix of the inbox, what the reader's tables will say
  of a name and a channel when it is past that prefix. `DeliveredOnceHolds` follows.
- `PanelProofs`, the markers. `MarkerInv` relates what is displayed to the whole history
  of what was said (`Published`): if the last word on its
  key was an addition of something to draw, the marker is there with that reference,
  expiry and, for a shape, pose, or its time is over; otherwise it is not there.
- `PanelProofs`, the viewers. `ViewerInv` is one invariant per panel. Of a decode that can
  still reach its cell it says that it is the only one, of the cell's channel and not older
  than the picture; of the log, that what is rendered is a view of what the buffer
  once was; of the map, that a map not drawn yet is newer than the one on the canvas.
  From it `ShownIsBoundHolds`, and the action properties `ImageNeverGoesBackHolds`
  and `MapFittedHolds`.
- `PanelProofs`, the recorder. `RecInv` says, while a recording runs, of *any* function
  that makes one pass over the records so far (`Passes`), hence of the one the file will be made by:
  its messages are the first ones heard, each under a name that its channel had by
  then, the topics it remembers are such names too (`Kept`), and until the cap is reached it has all of them
  and its catalogue has the current name of every channel (`UpToDate`), which is what the next
  message needs. From it `RecordedFaithfullyHolds`.
- `PanelProofs`, the plots. `PlotInv` says of every buffer that it is the end of what its
  series was sent since it was added, but for what lies more than MAX_POINTS back or is older
  than the retention before the edge of the view (`TailOf`): that edge is the clock, or in
  a pause the moment it began. An edge only moves on, so what was too old stays so
  (`TailAges`); and no clamped view reaches further back than the retention before its edge
  (`ViewInBounds`). From both `PlotFaithfulHolds`.
- `LayoutProofs`, the workspace. `WorkspaceInv` says of the work at hand, and of everything
  that may be read back, that panes own the pool's panels one each (`Tidy`), that their
  ids were given out before the next one (`Issued`; those of a legacy pool lie
  beyond the counter), and that what is mounted is what the panes own. From it
  `OwnedOnceHolds`, `SavedWhenQuietHolds` and the action property
  `PanesStayMountedHolds`.

What the model defines by a recursive function (`DirAfter` over a queue, `Pass` over
records, the search in `Bracket`, the walk in `ComposeUp`) is proved
about without induction over data: such a function is shown to exist,
and a claim about it to hold at every position, by looking at the least number for
which it would fail (`LeastThereIs`).

Invariants that are proved and in no run of their own, because a conjunct of an
inductive invariant that a listed property rests on: the type invariants,
`IndexSound`, `CollisionsPrefixed`, `IdentityStable`, `RemovalIsLocal`, `ParkedIffTimer`,
`NeverMovesBack` (also part of `ViewerPromise`), `TimersBelongToConns`,
`GoneOwnsNothing`.

Every invariant that a passing run checks is the subject of a theorem. Model-checked only
is liveness (`FlushedEventually`, `ViewerPromise`, `PanelsServed`,
`AllDispatched`, `EventuallyPublished`, `PlaysToEnd`, `ConsumerServed`,
`CloseReturns`, `JogSettles`, `ScreenUpToDate` of Display), which is outside the prover's
reach, as is ENABLED.

## Not modelled

- *Wire protocol* (`protocol/`, `_frame.py`, `frame.hpp`): encoding and decoding of
  frames keep no state and are covered by golden files in three languages. The
  models carry decoded messages.
- *ROS 2 adapter* (`sdks/ros2/`): its state is that of the ROS graph, outside this
  repository, and of the Python Client it publishes with, which Broker has as the
  "sdk" numbering of channels.
- *Numbers*: kinematics and IK iterations, slerp and blending of stamps, decoding
  of point clouds and pictures, colours, plot geometry.
- *Views*: cameras, picking, materials, the TF plugin (which draws what TFTree
  resolves) and the coordinate frame plugin (which publishes a pose through a handle of
  Publisher's), dialogs, search and scrolling, teleop widgets, the map's
  paths and scans.
- *Plumbing*: static files and CORS, `Broker.close` (process exit), the origin
  check, statistics, URL parsing, the handshake, file formats of recordings.

Of the parts that are modelled, what is left out stands with the component in
`PROJECT.json` and at the head of its module.

## Where to go on

Three channels in HubSession; the discovery of the ROS 2 adapter against a
model of the ROS graph.
