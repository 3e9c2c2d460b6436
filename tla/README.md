# Datagrove: specifications and proofs

TLA+ models of the concurrent parts of this repository (`src/`), the TLC
configurations that check them on small instances, and TLAPS proofs of what
holds for every instance. Paths below are relative to `src/`.

## 1. The system

Datagrove is a prototype of a platform for distributed applications: Go
services that run in a cloud or at home (a log server, a media relay, a task
server reached over ssh, a web server for browsers), a TypeScript library for
the browser with its own rpc and passkey login, and the beginnings of a storage
engine in Zig. Much of it is scaffolding: pages without logic, stubs that return
nil, copies of the same file, and libraries kept in the tree. The parts that keep
state and react to more than one source of events are few, and they are where
the models are.

### 1.1 Components with a model

| Component | State | Operations | What it talks to | Hard behaviour |
|---|---|---|---|---|
| Media relay `dgrtc/{webrtc,whip,whep,server}.go` | `streamMap` of stream objects under `streamMapLock`; per stream the sessions under an RWMutex, the labels, `pliChan`; per session its layer, sequence number and timestamp | publish (WHIP), view (WHEP), list layers, change layer, status, ICE failure callbacks, the packet loop of every track | browsers by http and RTP; the Pion library calls back on its own goroutines | locks held while waiting for candidates or for room in a channel, an increment under a read lock, callbacks that use an object after its map entry is gone |
| Log server `dglog/app.go`, `dglib/client.go`, `dgstore/store_s3.go` | per writer a channel, a batch and a hash chain with its end; per request a WaitGroup and results; the object store | commit, append of a batch, start (reads the store for the end of each chain) | http clients, an S3 store | a handler that waits for operations done elsewhere, batches cut from a channel that handlers go on filling, a crash between a put and the next start |
| Rpc `packages/ui/src/abc/rpc.ts`, `dgdb/cluster.go` WsHandler | number of the next call, promises by number, api sets; the messages in the channel | `rpc`, `apiListen`, `recv`, close | a websocket server, or another Peer over a port, a data channel or a channel of the application | both ends count from one, handlers run side by side, replies in any order, a channel that closes, or that hands on what `recv` cannot read |
| Task server `sshlib/sshlib.go` (twin: `dgdb/bot2.go`) | the running `LoadState` (keys, tasks, schedule), the home directory, one mutex | `Load` (at the start and by the task "load"), sign-in by key, command lines | ssh clients, the scheduler library gocron, files edited by others | a long reading that ends by replacing shared state, readers without the mutex, returns from the middle |
| Worker rpc `packages/ui/src/abc/worker/{useworker,listen,shared_listen,data}.ts`, `abc/shared.ts` | per tab the number of the next call, promises by number and a port; one api object in the worker for all ports | `rpc`, `log`, `notify` in a tab; `onconnect`, the message handlers of three listeners | any number of tabs and one shared worker, a dedicated one, or a service | tabs that count alike, handlers side by side, an api object completed with the log function of one port, results that count as false, what cannot be posted |
| Virtual scroller `packages/ui/src/virtual/{index,utils}.ts` | layout and measured sizes, offset and its corrections, the viewport, two timers, what was notified last | `setOptions`, `getVirtualItems`, `measureElement`, `measure`, `scrollTo*`, the observers' callbacks | a host that renders, a browser that scrolls and measures later | incremental layout, measurements before the scroll event of the last correction, elements that are gone, a timer that starts itself again |
| Passkey login `packages/ui/src/login/passkey.ts`, `dgdb/webauthn.go` | the current abort controller; one challenge in the session of the connection | `initPasskey`, `webauthnLogin`, `register`, `destroy`; `login`, `login2`, `register`, `registerb` | the browser's credential store, the server over one connection | overlapping ceremonies that share one controller and one challenge, state read after two awaits |
| Post form and transitions `packages/ui/src/post/{postform,transition}.tsx` | the toast's signal, the stage of its animation, timers made of animation frames | submit, show, close, the task that follows the signal | the user, animation frames | a signal that turns while the element moves, a timer nothing clears |
| Translations `packages/ui/src/i18n/i18.tsx`, `locale/index.ts` | the language in a context of the page and in a global of the process | `LocaleProvider`, `L`, `_`, `$localize`, `LanguageSelect` | several pages that one server renders at a time, their tabs | a global that pages share, a tab that goes on without it |
| Page layout `packages/ui/src/dg/layout.tsx`, the route of `dghome` | the open tool, the panes and their sizes, wide or narrow | toggle, drag, resize | the mouse, the window, handlers that are loaded when first wanted | a press handled after the mouse moved, was let go, or the window changed |

What makes each correct:

- relay: after a viewer chose a layer it gets only that layer; its sequence
  numbers have no gap; a packet reaches only viewers of the publisher's key;
  publishers and viewers of one key meet in one stream object; no cycle of
  locks; handlers return; a failed viewer is removed.
- log server: entries of one database stay in order; nothing is lost, repeated
  or reordered between a handler and the log; a commit returns; no
  block is written over.
- rpc: a reply settles the promise of its own call; a call is served at most
  once and settled at most once; a call that `WsHandler` can answer is settled.
- task server: a reload shows what the directory held when it was called, or
  later; nothing with an error comes into use; a reload is answered; the
  schedule of the old state stops.
- worker rpc: port and number together lead a reply to its call; what the worker
  logs reaches the tab it is about; calls of `SendToWorker` settle, once.
- virtual scroller: the layout kept is the one a full layout would give; what is
  in view is rendered; a measurement above the viewport does not move what is
  read; `scrollToIndex` comes to rest.
- passkey: a watch that waits can be aborted by the next one who needs the
  browser; a watch that was aborted signs nobody in.
- toast: it comes to rest as it was asked to. Translations: texts follow the url.
  Layout: a border is under the mouse as it was pressed, an open tool is visible.

### 1.2 Components without a model

`PROJECT.json` lists every one with its reason. In short:

| Component | Source | Why not, or when |
|---|---|---|
| Core file server | `dgdb/cluster.go` AddHandlers | one handler around a cache directory; its state is that of the file system, and the answer it writes twice (line 194) has no reader in the tree |
| Lobby client | `dgrtc/client.go` | unfinished: `GetLobby` stores a lobby only if the lookup failed, so its first user always gets nil and no later step runs |
| Reactive cells | `packages/ui/src/dg/cell.ts` | nothing imports the file |
| Capabilities | `dgcap/*.go` | the only store panics in every method, and `Verify` returns a set without rights whatever the proof; there is no behaviour to hold to anything |
| Firehose reader | `dgh/dgh.go` | one read of one page and one pointer, sequential, no loop yet |
| Storage engine | `dgz/` | the io layers are TigerBeetle's and the cbor codec a library; the B-tree is C++ in comments |
| Pion examples, data channel server | `dgrtc/{offer,answer,whap}.go` | examples of the library; nothing calls them |
| Query view | `packages/ui/src/query`, `virtual-qwik` | renders rows of a result nothing fills; its adapter of the scroller never calls `setOptions`, `_didMount` or `_willUpdate`, so the host of `Virtualizer` is external |
| Browser pages | `login/signup.tsx`, `post/message.tsx`, `dg/modal.tsx`, `theme/*` | markup and style; the form of `signup.tsx` is behind a return |
| Copies | `dglobby/*`, `dgdb/bot2.go`, `packages/dg` | the originals are modelled or listed |
| Stubs | most of `dgdb/*.go`, `dgrtc/{host,api}.go`, `dgf`, `dgssh`, `dgc`, `dgcashd` | return nil, panic, or parse arguments |
| Object stores, oauth, TURN, mail and messages | `dgstore`, `dgdb`, `dgsignup` | pass-through to libraries |
| Cryptography | `dglib/crypto.go`, `dgcash/blind.go` | single calls without state |

`PROJECT.json` lists under `hazards` what is hard to test in this code, each at its
line, with the properties that are about it. A few have a note and no property:
where the code promises nothing (a failed put, a closed channel), a property
would only say what somebody might have wanted.

## 2. Modules and plan

| Module | Holds | Extends, instances |
|---|---|---|
| `LayerFeed` | abstract: what a viewer is promised | |
| `StreamRelay` | the relay at the level of its locks | instance of `LayerFeed` |
| `MCStreamRelay` | instances for TLC | `StreamRelay` |
| `StreamRelayProofs` | inductive invariant, types, the confined race; refinement of `LayerFeed`, switching, sequence numbers; who meets in which stream object; the order of locks | `StreamRelay` |
| `LogStream` | abstract: an ordered stream appended in batches | |
| `LogServer` | commits, writers, chains, restarts | instance of `LogStream` |
| `MCLogServer`, `LogServerProofs` | instances; proofs | `LogServer` |
| `RpcCalls` | abstract: served once, settled once | |
| `RpcPeer` | two ends and their channel | instance of `RpcCalls` |
| `MCRpcPeer`, `RpcPeerProofs` | instances; proofs | `RpcPeer` |
| `TaskServer` | loads, sessions, schedules | |
| `MCTaskServer`, `TaskServerProofs` | instances; proofs | `TaskServer` |
| `WorkerRpc` | tabs and the listeners of their workers | instance of `RpcCalls` |
| `MCWorkerRpc`, `WorkerRpcProofs` | instances; proofs | `WorkerRpc` |
| `ListLayout` | the layout of a list, the search and the range: functions without state | |
| `Virtualizer` | the scroller, its host and the browser around it | `ListLayout` |
| `MCVirtualizer` | instances | `Virtualizer` |
| `ListLayoutProofs` | what those functions return, for every list | `ListLayout` |
| `VirtualizerProofs` | proofs | `Virtualizer`, `ListLayoutProofs` |
| `Passkey`, `Toast`, `Locale`, `Shell` | four parts of a page | |
| `Browser` | a page that has all four | `Passkey`, instances of the other three |
| `MCBrowser` | instances | `Browser` |
| `BrowserProofs` | proofs of `Passkey`'s and `Shell`'s properties | `Browser` |

The models were written in this order: the relay first, because it has the most
goroutines and locks; then the log server, whose order of entries everything
else will stand on; then the rpc every browser feature uses; then the task
server; then what runs in the browser, from the protocol of the workers to the
frame of the page. What is left, in order of its use:

1. Every safety property is proved (section 6). What can still be proved is about
   more than one lane: which items `calculateRange` leaves out there.
2. The file cache of `cluster.go` and the lobby client, once their handlers do what
   their names say; the storage engine and the capabilities, once they are written.

Every module has its parameters as CONSTANTS with a named assumption, one
action per handler or step, invariants as conjunctions of named parts, and no
RECURSIVE operator.

## 3. The models and the code

### 3.1 `StreamRelay`

A stream object is a member of `Streams`, because `streamMap` holds pointers:
after `delete(streamMap, key)` the old object goes on in the handlers, callbacks
and goroutines that captured it (`home`), while the key is given to a new one.

| Action | Code |
|---|---|
| `Request`, `Negotiate`, `Reject`, `RejectEarly` | `WhipHandler`/`WhepHandler`, then `WHIP` or `WHEP` from `streamMapLock.Lock()` to the wait for candidates, or to an early return (which may leave the stream that `getStream` made) |
| `WhipAnswer`, `WhepAnswer` | after `<-gatherComplete`: the deferred unlock, and for a viewer the insertion of its session |
| `IceFailed`, `deleteStream`, `DropSession`, `DropNothing` | the two ICE callbacks: the publisher's takes `streamMapLock` and deletes the entry of its key, the viewer's takes the session lock of its stream; the viewer's may come before its session is stored |
| `OnTrack`, `addTrack`, `ReadPacket`, `TrackEnd` | `videoWriter`: label, read, end |
| `BeginFanOut`, `CheckLayer`, `ClaimLayer`, `LoadSeq`, `StoreSeq`, `SendPacket`, `EndFanOut` | the `range` over the sessions under `RLock`, and `sendVideoPacket`; `sequenceNumber += 1` is a load and a store, because several tracks hold the read lock |
| `ForwardPli`, `ViewerPli` | the goroutine that reads `pliChan`, and the viewer's RTCP loop with its `select` and `default` |
| `CtlRequest`, `CtlLockMap`, `TakeSessions`, `CtlList`, `CtlMiss`, `CtlChange`, `CtlSend`, `CtlReturn` | `GetAllStreams`, `WHEPLayers`, `WHEPChangeLayer`: the map lock, then the session lock of one stream after another in the map's random order, all deferred; `CtlSend` is the plain send on `pliChan` with all of them held |

A packet is its layer and its number; payload and timestamp are left out (the
timestamp has the race of the sequence number). `since` and `out` are history:
what the viewer asked for last, and what it was sent.

### 3.2 `LogServer`

| Action | Code (`dglog/app.go`) |
|---|---|
| `CommitRequest`, `Preauth`, `PreauthFails`, `SendEntry`, `SkipOp`, `Respond` | the loop of `Commit` one operation at a time: a blob gets a url and a Done, a refused one `continue`s before the Done, a log entry is sent (and waits for room), other kinds fall through; then the Wait and the answer |
| `StartWriter`, `EmptyListing`, `NewHashChain`, `Parsed`, `Stored` | the writer's first step: `List` and the parsing of its names; a listing without a name indexes an empty slice, which ends the process |
| `Receive`, `Drain` | the `range` over the channel and the inner loop that empties it |
| `AppendBlock` | `HashChain.Append`: a put that may fail, and the count-down in any case |
| `Crash` | the process ends at any time; channels, batches and requests are lost, the store stays |

Names in the store are modelled by what the two conversions do: keys are
printed in hexadecimal behind a prefix and parsed as decimal numbers, so no name
parses. Payloads, hashes, proofs and tokens carry no state. The file needs small
repairs to compile (`LogOp` lacks three of the fields `Commit` uses); the model
follows the text.

Two things are in the model without a property, since a property would only
restate one assignment: `Body` (the handler writes its body under
`if e != nil`, so a commit that succeeded answers with nothing, although
`app.go:218` says "return tokens if the request sent proofs") and `Contents`
(the reader given to the put has no parts, so every block is empty, although
`app.go:241` says "each block should begin with a format byte, then 32 byte
hash, then an array of records").

### 3.3 `RpcPeer`

`channel` is the kind of channel a behaviour has, chosen at the start:

| Kind | Code (`packages/ui/src/abc/rpc.ts`) | In the model |
|---|---|---|
| `websocket` | `WsChannel`, with `WsHandler` of `dgdb/cluster.go` at the other end (`WsHandler("server")`) | the server has one table of methods, serves one message at a time and never calls; `recv` gets what was parsed |
| `port` | `WorkerChannel` | `listen` is the port's `onmessage` (line 58), so `recv` gets the event, which has neither a method nor an id: `Legible` is false and only `RecvUnknown` takes a message |
| `rtc` | `Wrtc` | the data channel belongs to a connection nobody negotiates and is never open, so `send` throws: `Sends` is false and only `RpcThrows` calls |
| `own` | a `Channel` of an application (external) | two Peers, and `recv` gets what was posted, as the interface has it |

So calls are answered over a websocket; `own` is there because the interface
`Channel` allows any number of other ones, and two Peers that both count from one
are what the numbers have to be safe against.

| Action | Code |
|---|---|
| `Listen` | `apiListen` |
| `Rpc`, `RpcThrows` | `rpc`: the number is taken, the message posted, the promise registered; a message that cannot be posted throws before the registration |
| `RecvCall` | `recv` of a call: the first api set with the method; none drops the message. For `WsHandler`: one message at a time |
| `Reply`, `Mute` | the handler's end: the reply; or an error without `toString`, which throws in the error path, and of `WsHandler` a result that `Marshal` refuses, whose error it ignores: the empty text it writes is refused by `JSON.parse` before `recv` |
| `RecvReply`, `RecvUnknown` | `recv` of a reply, and of what is neither |
| `Close` | the channel closes; messages on their way are lost and nothing is told to the promises |

`Settled` is the test `if (data.error)`: an error with an empty text resolves the
promise with undefined. Messages carry, for the properties, the call they belong
to; no step looks at it.

### 3.4 `TaskServer`

| Action | Code (`sshlib/sshlib.go`) |
|---|---|
| `Call`, `Enter` | the task "load" (or the start), and `mu.Lock()` |
| `ReadKeys`, `ReadTasks`, `Fail` | the two readings of the home directory, at different times; three returns from the middle, errors that are gathered |
| `StopOld` | `running.sched.Stop()` on the zero `gocron.Scheduler` of line 100: nothing, or a panic, depending on the version of the library (external) |
| `Swap` | `running = &st`, and the start of the local scheduler |
| `SignIn`, `SignOut`, `EmptyLine` | the public key handler and the session loop; an empty line indexes an empty slice and ends the process |
| `Edit` | the home directory changes (external) |
| `Interrupt` | the process is stopped |

`files` is the history of the directory's contents, so that a property can say
which version a Load has read.

### 3.5 `WorkerRpc`

| Action | Code (`packages/ui/src/abc/`) |
|---|---|
| `Connect` | `onconnect` of `shared_listen.ts` and `shared.ts`, or the start of `listen.ts`: the default log function, the call of the api's `connect`, the greeting |
| `CloseTab` | the page is left (external): its port is lost, handlers that run for it go on |
| `Rpc`, `RpcThrows`, `Notify` | `SendToWorker.rpc` (or `Peer.rpc`), its rejection of what cannot be cloned, and `log` and `notify` of the context |
| `Serve`, `Refuse`, `ServeUnknown` | the listener takes a message: the api's function runs; an unknown method is answered with an error, or by `unknown` in a shared worker |
| `Finish` | the function ends: its result, its error or the error of posting the result is posted; what cannot be posted either throws in the last catch |
| `Recv` | `recv` of the tab; the `Peer` of a tab of a service gets an event and not the reply in it, and settles nothing |

`kind` says which of the three listeners runs. `Settled` is the tab's test
`if (data.result)`: a result that counts as false rejects the promise. A message
without a number is a notification, and the listener answers it all the same,
with number zero, which no promise has. The default log function of a shared
worker is put into the api object all tabs share and keeps the port of the first
tab: `LogsReachTheirTab` holds everything but that function to the tab's own port.

### 3.6 `Virtualizer`

| Action | Code (`packages/ui/src/virtual/index.ts`) |
|---|---|
| `Render` | the host: `setOptions`, `getVirtualItems`, `getTotalSize`, `_willUpdate`; the first one attaches the scroll element, whose observers call back at once |
| `Measure`, `Removed` | `_measureElement` for an element in the DOM, and for one that has left it |
| `ScrollEvent`, `ScrollEnd`, `RectChange` | the callbacks of `observeElementOffset` and `observeElementRect`, and the timer of `isScrolling` |
| `ScrollToOffset`, `ScrollBy`, `ScrollToIndex`, `Retry` | the methods, and the timer of `scrollToIndex` |
| `Forget`, `Unmount` | `measure`, and the cleanup of `_didMount` |
| `UserScroll`, `Resize` | the user, and elements that change height (external) |

`Measurements` and `OffsetOf` are `getMeasurements` and `getOffsetForIndex`. What
keeps nothing is in `ListLayout`: `Laid` (the loop of `getMeasurements`, one
`Item` after another), `Furthest` (`getFurthestMeasurement`), `RangeOf`
(`calculateRange`), `Nearest` (`findNearestBinarySearch`) and `Extract`
(`defaultRangeExtractor`). An item's key is a number, so
that items put in front of the list change the index of every key. What the host
does is external, since the adapter in `virtual-qwik` does not call what the class
needs: the model's host renders when `onChange` asks for it.

Three histories mark where the code gives up what a reader may expect, and the
properties except exactly these: `reset` (`measure()` forgets the sizes but not the
pending indexes, and the next layout keeps what is above the first of them),
`drift` (the list was laid out again while the scroll event of a correction was
due) and `missed` (the viewport changed while `maybeNotify` remembered a range
that was never rendered: an item in view may then stay out until something else
changes). With two lanes `calculateRange` leaves items of the other lane out, and
the timer of `scrollToIndex` may go on for ever; after an unmount it is not
cleared either.

`ViewHolds` says of every state what the next layout would do: with one lane, the
first item that does not start above the offset is to move by exactly `adj`. So it
holds between the measurements too, and not only when the scroll event comes.

### 3.7 The parts of a page

`Browser` has the four parts of a page, which share no state; a step is a step of
one, and a behaviour follows one (`part`) through all that can happen to it, since
the product of four independent parts shows nothing more.

| Module | Actions | Code |
|---|---|---|
| `Passkey` | `Probe`, `Begin`, `RecvChallenge`, `Pick`, `Destroy`, ... | `initPasskey` between its awaits, `destroy` |
| | `AskFirst`, `WebauthnLogin`, `Create`, `Dismiss`, `RecvCheck` | `webauthnLogin` and `register` of the page, and their callers |
| | `Issue`, `IssueFails`, `Verify` | `login` and `register`, `login2` and `registerb` of `webauthn.go` |
| `Toast` | `Submit`, `Fail`, `Posted`, `CloseToast`, `Enter`, `Leave`, `Frame` | the form, the two halves of `handleStateChange`, and `requestAnimationFrame` with the timers made of it |
| `Locale` | `Provide`, `RenderL`, `Render_`, `Resume`, `Navigate`, `LanguageSelect` | the task of `LocaleProvider`, the three ways to a text, and a page that goes from the server to its tab |
| `Shell` | `Mount`, `Resize`, `Toggle`, `Open`, `SignIn`, `Press`, `Listen`, `MoveTo`, `Release` | `PageTool`, `Desktop`, `Mobile`, the button to sign in of a page that needs it, and the two handlers of a drag |

`Passkey`: the browser refuses a second request or ends the first, both are
choices. A watch reads `this.abort` only when its challenge is there, so it may
listen to a controller that another watch made; an aborted watch may thus go on.
An older watch may also be left with a challenge the server no longer has: picking
a passkey then fails without a message, and nothing promises otherwise. `Verify` lets
`login2` and `registerb` succeed, and `Issue` lets `register`: over a `Peer` they do
not, because it sends its parameters as an array and they unmarshal an object
(`webauthn.go:114,136,165`). The model has more behaviours than the code here, so
that what is safe in it is safe in the code, now and for a caller that sends the
object.

`Locale`: no app mounts `LocaleProvider` yet; the model has the pages that do. The
texts of `_` and `$localize` take a global of the process, which the pages of one
server share and a resumed tab does not have; they do come in the wrong language,
which the comment at `i18.tsx:86` calls fragile.

`Shell`: Qwik loads a handler when it is first wanted, so `Listen` comes any time
after `Press`. `app.mobile` is set by nothing, and the button to close a tool on a
narrow window is never shown.

## 4. Runs

| Run | Question | Bounds |
|---|---|---|
| `relay_switch` | Do packets obey the last layer choice, do numbers go on without a gap, where can the increment race, is `LayerFeed` implemented? | one publisher with two layers (two tracks), one viewer, two overlapping layer changes, two packets per track, sequence numbers modulo 2 (1 and 0 for the two packets of one track), `pliChan` of 1 |
| `relay_rivals` | Who meets in which stream object, with failures and refused offers? Do the waits for locks close no cycle? | two publishers, a viewer and a control request on one or two keys, three stream objects |
| `relay_live` | Does every handler return, and does a failed viewer leave? | two control requests, a publisher and a viewer of one key; no symmetry |
| `log_live` | Order, `LogStream`; do blob commits return and are sent entries appended? | two commits out of three lists of up to three operations, on two writers of which two databases share one, channels of 1, one restart |
| `log_hang` | Does every commit return? (it does not) | no restart |
| `log_restart` | Are blocks never written over? (they are) | one restart |
| `rpc_peers` | Does every reply find its call, is `RpcCalls` implemented, are calls settled that `WsHandler` can answer? | each kind of channel, two calls in either direction (over a websocket: of the browser), two methods in up to two api sets |
| `task_load` | Are loads fresh, clean and answered, with the mutex where it should be? | two sessions and the start, one edit, three schedules, one task that does not compile |
| `task_stop` | Does the old schedule stop? (it does not) | the same |
| `worker_tabs` | Do replies reach the promise of their call and logs their tab, do calls of `SendToWorker` settle, is `RpcCalls` implemented? | two tabs, two calls, a notification, each kind of worker, three apis that have or lack what is asked for |
| `virtual_list` | Is the layout right, what is in view rendered, the view held, and does `scrollToIndex` rest? | a list of three items that becomes two or none; sizes 1 and 3 against an estimate of 2; viewports of 2 and 4; one lane with two moves of the user or caller, two lanes with one; alignment "auto" |
| `browser_parts` | Does a page keep what its four parts promise? | two watches, a login and a registration; five changes of the toast's signal; two pages with two visits in two languages and an unknown one; two presses, two clicks and one change of width at three positions |

Why the bounds are enough: two tracks, two requests or two sessions are what a
race needs, and a third adds only repetitions; two keys are needed to hold two
session locks; with a modulus of 2 the second packet of one track wraps the sequence number; a
channel of one is full after one send; one restart is what a crash property
needs; one edit between two readings makes one of them old. Two tabs that count
alike and two calls whose handlers overlap are what a wrong reply needs. A list
of three items has one above, one in and one below the viewport, sizes on either
side of the estimate move the rest up and down, and two moves interleave with
measurements, events, timers and renderings in all ways (65,222 states). Three
positions are above and below the sizes the panes start with. The channel of
the rpc is any of the four kinds in the run as in the theorems.
`CHECK_DEADLOCK` is off in every run because requests, commits, calls, loads and
what users do are bounded: the system may come to rest when all have been made.

Symmetry is used in runs without temporal properties of fairness: interchangeable
requests, stream objects or sessions.

## 5. Fairness

- Goroutines that can run do run (weak fairness on their steps).
- Lock acquisitions are strongly fair: `sync.Mutex` gives the lock to a waiter
  that starved for a millisecond, a waiting writer of `sync.RWMutex` stops new
  readers, and a channel serves waiting senders first come, first served.
- Browsers run the message handlers of an open channel in order; a handler that
  was started ends: this is an assumption on the api functions.
- Ports of a worker connect and deliver, and its handlers end.
- The host of the scroller renders when it is asked to and hands every element it
  rendered to `measureElement`; scroll events that are due come, timers fire. An
  element that left the DOM need not be heard of.
- Animation frames come, and tasks and renderings that are due are run (Qwik).
- Nothing is assumed of clients, networks, stores or users: requests, packets,
  failures, edits and crashes may happen or not.

`HandlersReturn` and `FailedViewerLeaves` carry a proviso: a request that waits
for room in `pliChan` waits for a stream that some publisher still reads from.
Without it the code does stop: a viewer of a stream without a publisher may fill
the channel (its own `select` has a `default`, `WHEPChangeLayer` has not), and
the next layer change then holds `streamMapLock` for ever. `CallsSettle` excepts
a closed channel and a result that cannot be encoded, and is about the websocket only
(in a worker it excepts a closed tab and an error that cannot be posted, and is about
`SendToWorker` only), `RetryEnds` an unmounted host and more than one
lane, `BlobCommitsReturn` a refused blob
and a crash, `LoadsReturn` the end of the process: each is a step of the model
after which the code gives no answer.

## 6. What is proved

All proofs are checked by TLAPS for every value of the constants that satisfies
the named assumption of the module (`RelayAssumption`, `LogAssumption`,
`RpcAssumption`, `TaskAssumption`, `WorkerAssumption`, `LayoutAssumption`,
`VirtualizerAssumption`, `PasskeyAssumption`; the last is a definition, which the
theorems about `Passkey` state as their hypothesis and `Browser` assumes of its
constants, with `ShellAssumption`). These say that capacities, sizes and bounds are
numbers, that names of different kinds differ, and nothing about sizes of sets.

| Theorem | Statement |
|---|---|
| `StreamRelayProofs!Invariance`, `TypeCorrect`, `RaceConfined` | the inductive invariant `RelayInv`, `TypeOK`, `RaceNeedsSharedLayer` |
| `StreamRelayProofs!Refinement`, `Switching`, `Sequence` | `Spec => ImplementsFeed`, `Spec => []SwitchHolds`, `Spec => []SequenceExact` |
| `StreamRelayProofs!OneStream`, `Separation`, `NoLockCycle` | `OneStreamUntilFailure`, `KeysAreSeparate`, `LocksAreAcyclic` |
| `LogServerProofs!Invariance`, `TypeCorrect`, `Order`, `OthersWait`, `Refinement` | `LogInv`, `TypeOK`, `OrderedPerDb`, `OnlyBlobsReturn`, `ImplementsLogStream` |
| `RpcPeerProofs!Invariance`, `TypeCorrect`, `Correlation`, `Refinement` | `RpcInv`, `TypeOK`, `RepliesFindTheirCall`, `ImplementsRpcCalls` |
| `TaskServerProofs!Invariance`, `TypeCorrect`, `Fresh`, `Parsed` | `TaskInv`, `TypeOK`, `LoadsShowEdits`, `OnlyParsedStates` |
| `WorkerRpcProofs!TypeCorrect`, `Correlation`, `Logs`, `Refinement` | `TypeOK`, `RepliesFindTheirCall`, `LogsReachTheirTab`, `ImplementsRpcCalls` |
| `ListLayoutProofs!NearestIs`, `FollowsIsLaid` | what the binary search finds; a layout is determined item by item |
| `VirtualizerProofs!Invariance`, `TypeCorrect`, `CacheCorrect`, `Packed`, `Rendered`, `Holds` | `Inv`, `TypeOK`, `CacheMatches`, `LanesPacked`, `VisibleAreRendered`, `ViewHolds` |
| `BrowserProofs!TypeCorrect`, `Abortable`, `NobodySignedIn` | `TypeOK`, `WaitsCanBeAborted`, `CancelledSignsNobodyIn` |
| `BrowserProofs!Panes` | `PanesFit` |

The arguments:

- Relay. None of the properties is inductive. `RelayInv` adds what the locks
  give: who gathers or scans holds `streamMapLock` (`MapInv`); captured objects
  do not change and sessions belong to live viewers of that object (`HomeInv`); a
  track in its fan-out is among the readers of its stream and its sessions are
  still there (`LockInv`); a track that is about to write to a session whose
  viewer chose a layer carries that layer (`LayerInv`). The last holds because
  `WHEPChangeLayer` needs the write lock, which no track in a fan-out allows.
  Sequence numbers need a count: a track that writes to a session whose layer was
  chosen carries that layer, so with one carrier there is one writer; the number of
  the session is then that of its last packet or, between the store and the send,
  that of the next (`CountInv`). It starts from zero because `WHEPChangeLayer`
  meets no writer, and a session that was sent nothing and has no writer has not
  counted (`StartInv`). That a cardinality of one means one carrier needs finitely
  many tracks to be up (`ActiveInv`), since the constants may be infinite sets.
  Identity needs more: as long as no publisher of a key failed, all who captured
  an object for the key captured the one in the map.
- Log server. A writer's log, batch and channel are one sequence, the pipeline:
  a send appends to it, every other step leaves it as it is, and an append moves
  the mark in it. `PlaceInv` says that entries on their way come from before the
  place their commit has reached; so each send keeps the order. `WaitInv` says
  that the WaitGroup is never below the number of operations to come, and equal to
  it only if all so far were blobs that succeeded; a commit that is answered has
  both at zero. So only commits of blobs with urls return (`OthersWait`): no promise
  of the code, but what its missing Done comes to for every instance, where
  `log_hang` has one.
- Rpc. A call has one trace at a time: its message, its running handler, or its
  reply (`WireInv`, `OnceInv`, `ServeInv`), and as long as it has one, its promise
  is registered, alone under its number (`TicketInv`). The two ends need no
  disjoint numbers because calls and replies are told apart by kind.
- Task server. The mutex is part of `TypeOK`. What a Load inside has read is no
  older than its call and than the state in use (`ReadInv`), since a later Load
  enters only after an earlier one has left.
- Worker rpc. `WorkerInv` says of every tab (`TabInv`): the trace of a call (its
  message, its running handler, its reply) is on the port of the tab that made it
  and nowhere else, a call has one trace at a time, and as long as it has one its
  promise is registered there, alone under its number. Tabs need no numbers of
  their own because no step moves a trace from port to port. Logs need `LogInv`:
  once some port gave the default log function, the api has a "log", so no later
  `Connect` replaces it.
- Passkey. `PasskeyInv` says that an attempt has one trace, a request or an answer,
  which its step agrees with (`TraceInv`), and that a cancelled watch which may
  still go on is late (`CancelInv`): the server has the challenge of another
  attempt, or the request for one stands in the queue before the watch is checked;
  unless making a challenge failed. The abort that cancels a watch comes with a
  newer attempt's request or with an abort nothing replaced; in the second case the
  watch is refused by the browser, and a later watch that makes a new controller
  asks for a challenge of its own.

- Locks of the relay. `WriterInv` says that whoever has a session lock for writing
  holds `streamMapLock` and is inside of its handler, `ReaderInv` that a track keeps
  a read lock only inside its fan-out, on its own stream. What a layer request has
  still to lock is not locked by itself because two keys never have one stream
  object, which is part of the invariant of identity.
- Virtual scroller. `Laid` and `Nearest` are recursive functions of the list, and
  the prover has no induction over data that it can instantiate. It has the
  well-founded order of the numbers, though, as a theorem about a set: `Least`. So
  an induction over n is a set of counterexamples whose least element is
  contradicted, one level below (`LayoutThere`, `SearchThere`: such a function
  exists; `FollowsIsLaid`: it is the only one). On top of these,
  `ListLayoutProofs` shows that the first items fill the lanes one by one
  (`Filling`), that from then on every item is put under the lane that ends first
  (`Filled`, `Packing`), that the search stays inside of the list and ends at an item
  that starts no later than the offset (`NearestIs`), and that with one lane the
  range has all that is in view (`Covers`).
  The invariant of `VirtualizerProofs` has a part for each property. `ListInv`: the
  items before the first pending index are what a full layout makes of them, so one
  that starts from there is a full one; after `measure()` this is lost (`reset`).
  It also says that an item that was never measured has the estimated size, as
  `_measureElement` compares with the size in the layout and not with the one it
  will replace. `ViewInv`: unless something is due, the DOM has what the range of
  layout, viewport and offset asks for, because `notified` is the range rendered
  last; the first rendering needs that a range of one item at offset 0 is the range
  in no viewport, which the constructor notified. `AnchorInv`: the next layout
  moves the first item in view by `scrollAdjustments`. A measurement moves what is
  below its item (`Moved`), and its item is above the first in view just if it
  starts above the offset, because with one lane starts grow along the list.
- Frame. Presses are numbered and listen in order, the one that found no other
  before the rest (`DragInv`). What such a press keeps once its handler runs is
  where the mouse was minus the size the pane had then, however late the handler
  is, because nothing else moves the pane meanwhile (`EdgeInv`). The pane of a tool
  that was not opened on a wide window is at least 64 high also while the window is
  wide (`TallInv`), or it would not be when the window gets narrow.

Model-checked only: liveness (`HandlersReturn`, `FailedViewerLeaves`,
`BlobCommitsReturn`, `EntriesAreAppended`, `CallsSettle`, `LoadsReturn`,
`RetryEnds`, `EndsAsAsked`, `LFollowsTheUrl`), which is out of the prover's reach.
Every other property the passing runs check is proved.

## 7. Where the code and its comments disagree

| Run | The comment | The code |
|---|---|---|
| `log_hang` | `dglog/app.go:215` "wait for all writes to complete (or fail or timeout)" | Done is called only for a blob with a url; a commit with a log entry waits for ever |
| `log_restart` | `dglog/app.go:234` "StreamEnd counts down from MaxInt64 so that we can query in ascending order and find the last block" | no name of the store parses, so each start begins at the top and puts its batches under the old keys |
| `task_stop` | `sshlib/sshlib.go:213` "start running a new schedule; old one will finish then stop." | `Stop` is called on an empty Scheduler, and the schedules of all loads go on |

Each run checks the comment as a property and finds a counterexample.

## 8. Not modelled

- Media: RTP timestamps, audio tracks, codecs, the Pion library except for the
  callbacks it makes.
- The components of section 1.2, each for its reason there: what is left of the
  tree is markup, style, stubs that return nil or panic, copies of files that are
  modelled, examples, and libraries.
- Log server: hashes, proofs and tokens; the content of operations.
- Log tables and cells that `useworker.ts` declares without code.
- Virtual scroller: margins and paddings other than `paddingStart`, right-to-left
  and horizontal lists, which only rename an axis, and smooth scrolling by the
  browser.
- Passkey: sign-in by password, recovery, and codes sent by mail, which share no
  state with the ceremonies.
- Toast: the call that adds a post and the toast's own button are commented out in
  the source; what they would do is an input.
- Rpc: transfer lists, sign-in state, and what would come over a data channel of
  `Wrtc` if it were open (`send` would make a text of the object and hand `recv` that
  text, which has no method). No code connects a closed websocket again.
- Task server: the sftp subsystem (a file server without state here) and what
  the tasks do.
- Timeouts: none of the modelled components sets one on an answer; the timers of
  the scroller and of the transition are steps of their models.
