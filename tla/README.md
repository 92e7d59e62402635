# A TLA+ model of mod_janus

mod_janus is a FreeSWITCH endpoint module. It dials call legs into rooms of the
audiobridge plugin of a Janus server. This directory models its concurrent core,
checks it with TLC on small instances and proves the main safety results with
TLAPS. Line numbers below are those of the sources at the modelled commit.

## The system

| Component | State | Operations |
|---|---|---|
| Server thread (`mod_janus.c`, `servers.c`) | `server_t`: flags, `pThread`, `serverId`, `callsInProgress`, `connect_failures`; an entry in `globals.serverIdLookup`; the local session id | create or claim a Janus session, poll it, reconnect, hang up the legs of a refused session, evict itself; start and stop from the console |
| Call legs (`mod_janus.c`) | `private_t`: `serverId`, `senderId`; an entry in `server_t.senderIdLookup`; two call counters | dial, `channel_on_init`, `channel_on_routing`, `channel_on_hangup` |
| Answer gate (`mod_janus.c`, `api.c`) | `answerGate`, `answerDeadline`, `remoteReady`, `answerRequested`, `answerDone`, `pParticipantIdStr`, SDP body and trickle state | the events Janus sends, the fallback in `channel_read_frame` |
| Janus requests (`api.c`) | none | encode, send, decode, compare type and transaction |
| Id tables (`hash.c`) | id to pointer, a mutex per table | create, insert, find, delete, iterate, destroy |
| WebSocket transport (`janus_ws.c`) | one socket, one pending request, a queue of deferred events | open, close, request, pump |
| Registry of pods (`servers.c`, `resolveServerForDial`) | `globals.pServerNameLookup`, the cached address of each pod and when it was verified | refresh from DNS, verify before a dial, evict |
| Configuration, load, unload | `globals` | read XML, start the threads, stop them |
| HTTP transport, signed tokens, cJSON | none | one request; one token; JSON |

How they interact. One thread per server polls Janus and calls the handlers of
the legs (`joined`, `accepted`, `trickle`, `participant`, `answered`, `hungup`).
Each leg has a FreeSWITCH thread that runs its state handlers and reads its
frames. Consoles and the registry thread start and stop server threads. They
all meet in `globals.serverIdLookup`, in `server_t` and in `senderIdLookup`.
Each has its own mutex, and no mutex is held across a request to Janus.

What is hard. The session of a server is lost, claimed, refused and replaced
while legs are in any of their handlers. Start and stop release their mutex
before they create or join the thread. A leg's hangup handler can only find its
server through the session id, which may be gone. Two threads may answer a leg.
Requests fail at every point of every handler.

What makes each part correct:

* server thread: one thread per server; only a served session is registered; a
  disable completes; an enabled server reconnects; a dead pod is evicted;
* legs: a leg in its call belongs to a served session; a leg whose session is
  gone ends; a dial resolves; counters and table agree with the legs;
* answer gate: answered once, only for a reason, never lost, never wedged;
* transport: one request in flight, each reply goes to its request, an event is
  dispatched once or lost with its connection and is not kept back, every
  request returns;
* registry: one thread per `server_t`, no dial to a pod that did not answer or at
  an address that was not verified, a pod that is there is served and one that
  is gone is forgotten, the unload leaves nothing behind.

## Modules

| Module | Models |
|---|---|
| `JanusApi` | what each request function returns for each kind of reply |
| `ServerThread` | `server_thread_run`, `startServerThread`, `stopServerThread`, eviction, and what legs may do to `server_t` |
| `CallLegs` | the legs, composed with `ServerThread` |
| `AnswerGate` | the answering of one leg |
| `WsChannel` | what the WebSocket transport promises, abstractly |
| `WsTransport` | `janus_ws.c` with the threads that use it; implements `WsChannel` |
| `Registry` | refresh, eviction, dialling through the registry, unload |
| `ServerThreadProofs`, `CallLegsProofs`, `AnswerGateProofs`, `RegistryProofs`, `WsTransportProofs` | theorems |
| `MC...` | instances for TLC, with a `.cfg` per run |

An action is a stretch of code between two points where another thread can see
or change the shared state: a critical section, a table operation, or the return
of a blocking request. Program counters (`tpc`, `cpc`, `lpc`, `pc`) are named
after what the thread is about to do. A definition named `X_Y` is a mutant of
`X`: a plausible bug that no specification uses. It is there to show that the
property it breaks can fail.

`JanusApi`. A reply is abstracted to the stage at which a request function
stops looking at it. A claim treats only an undecodable reply as retriable: an
unencodable request or a wrong transaction is a refusal, which ends the calls.
A `configure` that cannot be built because of its recording options is not sent
and still counts as a success (`api.c:1174-1183`): the reply `unbuilt`, after
which `AnswerGate` has a leg whose offer was never made.

`ServerThread`. `tpc[t]` follows the code: `loop` (outer test), `claim`,
`drain`, `create`, `insert`, `inner`, `poll`, `reset`, `done`, `unregister`,
`evict`, `exit`. `localId` is the thread's variable `serverId`, as opposed to
the field of `server_t`. The console first finds the server and then acts on
the pointer, as the code does. `joining` is the thread a `disable` waits for.
Insertions in `globals.serverIdLookup` may fail if `InsertFaults` says so.
The registry resets `connect_failures` for a pod that is still in DNS
(`servers.c:457`), so the eviction run here is about a pod that the registry no
longer touches; `Registry` has the other side.
A change of the flags is atomic here. In the code `SFLAG_EVICTED` is set without
`flag_mutex` (`mod_janus.c:619`, `servers.c:645`), so a change that another thread
makes under the mutex at the same time could be lost, or `SFLAG_EVICTED` itself.

`CallLegs`. A step of the server thread is the step of `ServerThread` conjoined
with what the same code does to the legs; a step of a leg is conjoined with the
step of `ServerThread` that it performs on `server_t`. `crashed` records the use
of a destroyed table or of a freed session; the latter may also go unnoticed.
The iteration over `senderIdLookup` is sure to visit the entries that were there
when it began and stay (`todo`), and may visit new ones. That is an idealisation:
`hashIterate` takes no mutex (`hash.c:109-126`), and what a step from an entry
that was just deleted does is left to FreeSWITCH's hash table.
`Transfer` is a dialplan transfer of an answered leg, which joins again; one in
`CCS_EARLY` returns at once. Session ids that Janus creates are fresh with
respect to every leg that still remembers one. Errors in the dial string before the leg exists
have no effect on shared state and are left out.

`AnswerGate`. The server thread handles one event at a time; a participants
list is that many `Participant` steps. `served` changes only when the server
thread is between events, because the same thread loses and claims the session.
`inTable` is reset by the leg's thread, which is also the one that reads frames.
Of Janus it is assumed that `joined` comes first and once, that the SDP answer
and candidates come after our offer, and that `webrtcup` comes after RTP is
active here. `remoteSeen` and `requestedAt` (when the answer was first asked for
and held back) are history variables. The look-ups that precede a critical section are in the same step as the section.

`WsTransport`. `handle` is `server_t.janus_ws_handle`, as the number of the
connection that the ctx belongs to, so that a thread which still has the ctx of
a closed connection (`rctx`) can be told from one that has the current one. `ctx`
has the fields that `janus_ws_rpc_json` and the pump share; `io_mutex` is a
nested mutex, with an owner and a depth. `sock` is the libks socket: whether the
peer is there, the frames that have arrived, and the requests that Janus may
still answer. `rpc[t]` is where a thread is in `janus_ws_rpc_json`: before
`io_mutex` (`lock`), or holding it and reading (`wait`). A leg sends requests only
in a handler that found the server in `serverIdLookup` (`LegFind`, `found`), which
may have been unregistered by the time it sends. `spc` is where the server thread
is: at the head of its loop (`loop`), registering, or in `janus_ws_pump_once`, which locks
(`PumpSlice`), takes over and dispatches what was deferred (`Flush`), then reads
and dispatches (`Drain`). A handler that the dispatch calls may make a request in
the same thread (`HandlerRequest`), with the mutex held twice. A `success`
stands for an `ack` too. A transaction is a random string in the code; its
number is taken again when no trace of it is left, which nobody can tell from a
new one. `SFLAG_TERMINATING` is seen at the heads of the two loops only
(`ServerStop`). A session that cannot be inserted in `serverIdLookup` is forgotten
and the socket kept (`InsertFailed`). Other failed allocations and frames that
are not JSON are left out.
`RpcFreed` is the use of a ctx that was freed: undefined, and the model stops.

`WsChannel` has no mutex, no socket and no list: a thread asks and gets the
reply to what it asked, or none; an event arrives on a connection (`Arrive`), and
leaves what is pending by being appended to `handled` (`Handle`), or with all that
wait when the connection is given up (`Disconnect`). Each has a number that is
used once, so none is handled twice. `WsTransport` implements it with the mapping
of its `INSTANCE`: there is a connection while `janus_ws_handle` is set, an event
that waits anywhere (socket, deferred list, list being flushed) is pending,
`handled` is the history of the calls of `api_dispatch_poll_event` for events, a
thread waits from its entry into `janus_ws_rpc_json` to its return, and what it
got is the transaction of the reply. A frame that is dropped while a request
waits, or dispatched a second time, is no step of the channel.

`Registry`. A refresh is one step per blocking call: `Resolve`, `Probe` per
address, `Apply` under `globals.mutex`, one `EvictNext` per server of the evict
list with the join of its thread, as the registry thread and every dialling
thread may do at the same time. Workers share `stopServerThread` (`Stop`,
`JoinDone`, `RemoveEvicted`), which returns to where its caller is. A server
thread is reduced to running, giving up and ending; `ServerThread` has the rest.
Ages of `last_verified` saturate at the time to live, so time needs no bound. It
passes also between the answer to a dialler's probe and the store of
`last_verified` (`VerifyMatch`, `VerifyStore`: the server's mutex is taken in
between), up to `MaxDelay`, which is arbitrary. `confirmed` (when a pod last
answered) and `trusted` (the address of a server when `last_verified` was stored)
are history variables. A
`server_t` is never freed by the code; here one that nothing refers to is taken
for the next new one. Starting a thread is part of `Apply`: the code releases
`flag_mutex` in between, which matters only for a console that enables, and
consoles here only disable. An address that is missing from the DNS and a probe
that gets no answer are the same: the address is not among those resolved. The
unload works through the servers that are listed when the registry thread has
ended (`RegistryJoined`); the code iterates over the live table without a lock
(`mod_janus.c:1643`) while threads that end remove themselves (`servers.c:809`),
which is undefined if the two meet at one entry, and is not modelled.

## Runs

All bounds are constants of the `.cfg` files.

| Run | Bounds | Shows |
|---|---|---|
| `server_static` | 2 threads, 2 consoles, 2 sessions | one thread, sessions owned, nothing registered when disabled; `disable` returns and the server registers again |
| `server_dynamic` | 2 threads, 1 console, eviction after 3 failures | one thread and sessions owned, with eviction and a restart of an evicted server; a pod that cannot be registered is evicted |
| `legs` | 2 legs, 2 sessions | a leg in its call has a served session; lost legs end |
| `legs_console` | 1 leg, 1 console, insertion faults | the composition implements `ServerThread`; dials resolve |
| `gate` | 1 remote, window 2, clock to 4 | answered once, for a reason, not lost, not wedged |
| `ws` | 1 leg, 2 connections, 2 transactions, 2 events | requests are serial, only a handler's request lets an event be overtaken, `WsChannel` is implemented; requests return, events are handled |
| `registry` | 1 pod, 2 addresses, 2 `server_t`, registry thread, 1 dialler, 1 console, time to live 1, delay 1 | one thread per server, only a pod that answered is dialled, and at an address that was not changed since |
| `registry_live` | 1 pod, 2 addresses, 2 `server_t`, registry thread | a pod that stays is served, one that is gone is forgotten, the unload ends all threads |

Two threads allow a second one to be created while the first is alive; two
consoles allow an enable to race a disable. One console suffices for a leg's
handlers to meet a stop and a start. Two legs allow one to be in the table while
another is drained, and two sessions allow the session to be replaced, and a
number to be used again when no leg remembers it.
A clock two beyond the window lets the leg join late and the deadline pass.
`legs` has insertion faults off: when `hashInsert` fails after a successful
claim the thread forgets a session whose legs are up (`mod_janus.c:577-582`),
and `LegOfServedSession` does not hold. That needs an allocation failure.
Deadlock is not checked in the runs with legs: a leg is dialled once, and an
answered or ended leg may have nothing left to do; a crash stops everything. Nor
is it in the runs of the gate, whose clock stops at its bound.

Two connections let a leg be left with the context of the first. Two
transactions let the server thread and a leg both have a request open; a late
reply to one keeps its number from being used, and one is always kept for the
server thread to register with (`Spare`). Two events are needed for one to
overtake the other; that one which a handler's request deferred is overtaken
takes three, so TLC does not meet the exception of `OvertakenOnlyNested`, and
`WsEventOrder` has it for any number. In the registry one pod is enough for every
race about its name: two `server_t` are the evicted one and its successor, and two
addresses let the pod move while an older answer is under way. `RegView` in
`MCRegistry` identifies states that differ only in what nothing reads any more.
A delay of one unit is as long as the time to live, so that a verification can
be over when it is stored. The liveness of the registry was also checked
once with two pods, three servers and two endpoints. `MaxEndpoints` is 64 in the
code and equals the number of pods here, so that the limit is reached and never
exceeded.

Deadlock is checked in the other runs, but says little in those of the WebSocket
and the registry, where the peer and the clock can always take a step: that
nobody waits for ever is what `RequestReturns` and `UnloadCompletes` are for.

Four runs end in a violation of something that the repository says.
PROJECT.json quotes the lines.

* `legs_dangling`: a leg that ends while the session is not registered stays in
  the table (and in both counters: `mod_janus.c:1004-1007`).
* `ws_close`: the connection is closed and its context freed, without
  `io_mutex`, while a leg waits for that mutex or for its reply. The leg found
  the server while it was registered; then the thread is stopped, or the session
  is lost and the claim gets no reply.
* `gate_window`: the window of the answer fallback starts in `joined`
  (`mod_janus.c:157`), not when the leg becomes answerable (`README.md:145`), so a
  leg is answered without a remote participant earlier than documented.
* `registry_verify`: a dialler probes the address it has copied, and a refresh
  that still has an older answer changes the address before `last_verified` is
  stored (`servers.c:504-507`). The new address is dialled, and counts as verified.

More things the models show, which no run is about because the repository does
not say what should happen, or not exactly enough:

* Two consoles: a `disable` that finds nothing to stop removes an evicted server
  before its thread has ended (`mod_janus.c:733-736`, `servers.c:810`); an
  `enable` then starts a second thread. That is why `server_dynamic` has one
  console, and why `OneThread` is proved of a dynamic server with one console only. In the
  same way an `enable` between the registry's test of `SFLAG_ENABLED` and its
  forced start (`servers.c:606-609`) would start a second one.
* A stopped thread leaves its session id in `pServer->serverId`. A pod that is
  disabled and enabled again while its Janus is gone is therefore not evictable
  (`servers.c:765`); `UnregisteredEvicted` has the id among its premises.
* A pod lost after it was registered is claimed for ever by its thread: a claim
  that cannot reach Janus is not counted as a failure (`mod_janus.c:565-571`).
  Only the registry removes it (`GoneEvicted`).
* A failed attach resets `pServer->serverId` (`mod_janus.c:804`), and dials then
  fail although the polls of the session succeed.
* A leg that was never counted uncounts another one (`mod_janus.c:1023`). A call
  that stays counted keeps a pod that is gone listed, until the next session.
* A leg whose SDP has no candidates is answered right after `accepted`, before
  `proceed` has activated its media (`api.c:575-583`).
* Events that were deferred are dropped when the connection is closed
  (`janus_ws.c:540`).
* `serversDynamicRemoveFromLookup` removes by name (`servers.c:795`). When a
  server gave up and its pod was registered anew, a refresh in another thread
  that still has the old server on its evict list removes the new one; its
  thread runs on unlisted, and an unload does not join it. `UnloadStopsThreads`
  therefore is about the registry thread alone: give `MCRegistryLive.cfg` a
  dialler and TLC shows the behaviour.
* A call that connects after the evict list was made is cut off
  (`servers.c:639`). With more pods than 64 the ones that do not fit are evicted
  and come back in turn (`servers.c:562`).

## Fairness

Threads run (weak fairness of `ThreadStep`, `LegStep`, `ServerHandler`,
`MediaStep`): every request has a timeout (`HTTP_GET_TIMEOUT`,
`HTTP_POST_TIMEOUT`), and frames are read while a channel has media. A console
completes the command it has begun. `server_static`, `legs` and `legs_console`
also assume that a Janus that is asked again and again eventually answers
(strong fairness of an answered claim, of a successful create and of the
insertion): the outer loop retries every 5 s for ever, and without an answer
nothing can be promised. `server_dynamic` assumes only
that threads and consoles run. `NotWedged` has the premise that the session is not lost
for ever. `ws` assumes that a thread which waits for `io_mutex` gets it if
the mutex is free again and again (strong fairness of `RpcWrite`): the pump
yields after each slice of 200 ms to let others in. It also assumes that the
insertion of a session, which fails for want of memory, does not fail for ever
(strong fairness of `ServerRegistered`). A reply may never come; the wait has a
deadline. `registry_live` assumes that the registry thread runs, that
a thread which is told to end does, and that the DNS names every address at which
a pod answers again and again (strong fairness of such a `Resolve`), though it
may miss some or fail in between. Nobody is assumed to dial, to hang up or to
send an event, and no pod to come or go.

## Proofs

Assumptions are those named in the modules (`ConstantsAssumption`,
`LegsAssumption`, `GateAssumption`, `RegistryAssumption`, `WsAssumption`): the
null values are no ids, and bounds are numbers. Some theorems have a premise on
the constants besides; it is that of the run which checks the same property, and
the behaviour that breaks the property without it is described above.

`ServerThreadProofs`. `ThreadTypeCorrect` holds for every server; it needs that
a thread that claims or registers has a session (`SessionHeld`). For configured
servers `OneThread`, `LookupOwned` and `DisabledUnregistered` are consequences of
`StaticInv`: the thread that exists is the one `pThread` names, and it exists
only while `SFLAG_ENABLED` is set (`ThreadNamed`); at most one console is between
setting a flag and finishing its work, and the flags say which (`ConsoleExclusion`);
a registered session is the one its thread remembers, and the thread is at a
point from which it removes it before it forgets it (`LookupHeld`). The second
is what makes two unlocked stretches of code exclusive. For dynamic servers the
first is not true with two consoles, see above. With one (`OneConsole`, the premise
of `server_dynamic`) the three properties are proved for them too, from
`OneConsoleInv`. There the thread ends by itself and clears `SFLAG_ENABLED`, so
`pThread` may name a thread that is gone; what holds is that a thread that runs
is the one `pThread` names, in an enabled server, while the console is not where
it takes the thread to be gone (`LiveNamed`), and that `SFLAG_TERMINATING` is set
only while the console waits (`ConsoleStage`).

`CallLegsProofs`. `CallsImplementThread`: each step of the composition is a step
of `ServerThread` or leaves `server_t` alone. So the results above hold with any
number of legs (`CallsKeepServer`). `CallTypeCorrect` needs that the counters stay
below their bound: `CountInv` relates both to the set of legs that have passed
`channel_on_init`'s count, which also shows that the bound never keeps a leg from
being counted (`CountNeverBounded`). `LegsServed` proves `LegOfServedSession` if
there are no consoles and no failing insertions (`Undisturbed`, as in `legs`), for
configured and dynamic servers. A leg reads its session when it is dialled and
uses it three requests later; what relates the two is `ServedInv`: there is one
thread (`LoneThread`); which session it has, and whether that is registered,
follows from where it is (`SessionAt`); a leg that was not hung up stays in
`senderIdLookup`, unless the thread has gone (`InsertedFound`); and from the second
look-up, in `channel_on_routing`, the leg is of the thread's session, and of those
the loop over a refused session will still visit (`JoinedServed`).

`AnswerGateProofs`. `GateInv` adds to the three properties: `joined` is first
and a handler runs in a served session (`JoinedFirst`); the gate is closed
before our offer can be answered (`GateFirst`); our id is recorded before the
next event (`OwnIdKnown`); an open gate has a reason that does not go away
(`OpenedForReason`); the thread about to answer is the only one, and it set
`answerDone` (`AnswererUnique`). The results hold for every set of
participants, window and clock bound, gated or not.

`RegistryProofs`. `RegInv` adds to the types and to `OneThreadPerServer`: a listed
server bears the name it is listed under (`Named`), and has a thread only while
it is enabled (`RunningEnabled`). The second is what allows the registry to
start a thread with force when the flag is not set. It would not be kept without
the first: `serversDynamicRemoveFromLookup` clears the flag of one server and
unlists whatever has its name, which must therefore include that server.
`AgeKnown` and `DialSound` carry `DialedPodAlive`: the last answer of the pod with
that name is older than a fresh `last_verified` by at most `MaxDelay`, which is
any number, and the `server_t` a dialler holds keeps the name it was found under,
also when it has been evicted and replaced. `AgeKnown` also says that a server
with a fresh `last_verified` has the address it had when that was stored, which
gives `RegMovedReverified`: every change of the address makes `last_verified`
count no longer. That the address is the one probed does not hold
(`registry_verify`). `ApplyEffect`, `ServersKept` and `DialersKept` are the lemmas
that most steps are instances of. The results hold for any number of pods, addresses,
servers, diallers and consoles that disable.

`RegUnloadStopsThreads` has the premise that only the registry thread refreshes
and no console disables (`OnlyRegistryThread`, as in `registry_live`). The unload
stops what is listed, so `UnloadInv` says that every server with a thread is
listed (`RunningListed`). To keep that, a server on an evict list must not have
been replaced under its name (`ToStop`), and one that is removed without a join
must have no thread. The latter holds because `SFLAG_TERMINATING` is set only
while somebody joins (`TerminatingJoined`), and only one thread at a time can: the
unload starts to stop servers after the registry thread has ended (`Phases`).
`LeftToStop` then counts down the threads that run.

`WsTransportProofs`. `WsInv` adds to the types, to `SerialRequests` and to
`OvertakenOnlyNested`: who holds `io_mutex`, how deep, and at which point of its
code (`MutexHeld`; the pump holds it once, and once more during a request of one
of its handlers); a ctx pointer that a thread waits on is a real one, and the
server thread's is never stale (`Connections`, hence `ServerContextLive`); a
reply that was kept is the one to the request in flight (`OwnReply`); an event is
in one of the three queues only, and the queues are in the order of arrival
(`EventQueues`); without a connection there is nothing in the socket and nothing
deferred (`Unconnected`); an event that was overtaken and is still deferred was deferred by
the request of a handler (`OvertakenQueued`). From these each step of
`WsTransport` is one of `WsChannel` or leaves the mapped variables alone
(`WsImplementsChannel`): that an event is in one queue only makes a dispatch a
`Handle`, and that a server thread which opens or closes is not flushing makes a
close a `Disconnect`. The results hold for any number of legs, connections,
transactions and events. A leg that waits on a freed ctx (`ws_close`) is in the
model, and the results hold up to that use, where the model stops.

Only model-checked: the liveness properties, which need fairness and are out of
the prover's reach. Every invariant and action property of the passing runs, and
both refinements, are stated by a theorem.

## Not modelled

* HTTP: one libcurl request with a timeout. Its outcomes are the kinds of reply
  of `JanusApi` and the answers to a probe in `Registry`.
* Signed tokens: a string from a time, a realm and a key; no state. That a
  keepalive over the WebSocket carries the stored token only
  (`janus_ws.c`, `api.c:364-368`) is a matter of message contents.
* cJSON: vendored. Reading of configuration: XML. Frames, codecs, DTMF and the
  texts of SDP are FreeSWITCH's.
* A use of a freed leg by `AnswerGate`'s handlers is in `CallLegs`, not there.
* The console's `enable` of a registry server is in `ServerThread`, not in
  `Registry`; the two are not composed.

## Plan

1. Done: `JanusApi`, `ServerThread`, `CallLegs`, `AnswerGate`, `Registry`,
   `WsTransport` with its abstract channel, and the proofs of all of them.
2. Proofs left: the safety part of the liveness arguments as action properties
   (a step towards `DialResolves`, `LostLegsEnd`, `RequestReturns` is never undone).
3. Pure operators: the conversion of ids through a double and the lifetime of
   tokens, against reference definitions.
4. `LegLife`: what a leg promises to FreeSWITCH, as an abstract specification
   that `CallLegs` implements; a leg with its gate, as a composition.
