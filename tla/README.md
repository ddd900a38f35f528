# DLNA microstack: specifications, model checking and proofs

This directory verifies the core of the DLNA microstack, the C library under
`src/src/dlna`: a UPnP/DLNA media server, media renderer and control points on
top of a small asynchronous runtime. Line numbers below are those of
`src/src/dlna/Functional/ILibParsers.c` unless a file is named.

## 1. The system

One thread per process, the *microstack thread*, runs a *chain* of objects: for
every link it calls `PreSelect` (fill fd sets, lower the block time), then
`select`, then every `PostSelect`. All protocol code is callbacks of that
thread. Everything else that runs is a thread of the application, or a thread
the application donated to a *thread pool*, to which request handlers are moved
so that they may block. The threads meet in few places: the timer list, the
wake-up pipe of the chain, the send queue and the pause flag of a socket, the
pool's queue and a few locks. Those places carry the correctness of all the
rest, and they are what is modelled first; the layers of the microstack thread
on top of them follow: HTTP client and server, the renderer with its
subscriptions, the renderer control point, the uploads to the media server.

| Component | State | Operations | Interacts with | What is hard; what makes it correct |
|---|---|---|---|---|
| Thread pool `ILibThreadPool.c` | work queue, semaphores SyncHandle/AbortHandle, NumThreads, Terminate | AddThread, QueueUserWorkItem, Destroy | every module that leaves the microstack thread | tokens vs. items; Destroy against running threads; each item run at most once and none forgotten |
| Reader/writer lock `ILibReaderWriterLock_*` | three counters, three semaphores, Exit | ReadLock, ReadUnLock, WriteLock, WriteUnLock, Destroy2 | DlnaHttpClient (chain thread and pool) | hand-over between readers and writers, release of everybody by Destroy2; exclusion, nobody forgotten |
| Timed callbacks `ILibLifeTime_*` | ObjectList, Reserved | Add, Remove, Check, Flush, Destroy | chain (block time, pipe), every protocol module | removal against firing, sleeping over a new timer; fired or destroyed once, not early, in order |
| Chain `ILibBaseChain` | links, TerminateFlag, terminate pipe | AddToChain, SafeAdd, SafeRemove, ForceUnBlock, Start, Stop, subchains | all links | links that come and go under the loop; no call to a dead link, stop always works |
| Socket module `ILibAsyncSocket.c` | internalSocket, FinConnect, PAUSE, PendingSend queue, timers | ConnectTo, UseThisSocket, Send, Resume, Disconnect, PreSelect, PostSelect, Destroy | chain, timers, HTTP client and server, UDP | senders against the draining thread, stale events after reuse; bytes in order, the end reported once |
| HTTP server `ILibAsyncServerSocket.c`, `ILibWebServer.c` | pool of sockets, sessions (Reserved4..13: answered, request made, references) | OnConnect, OnReceive, OnSendOK, OnDisconnect, Send, Stream*, AddRef, Release, idle timer | sockets, timers, pool threads that answer | answers from the pool against the end of the session; one answer per request, sessions freed once |
| HTTP client `ILibWebClient.c` | table of connections, request queues, idle table, backlog | PipelineRequest, OnData, OnConnect, OnDisconnect, retry, Cancel, DeleteRequests | sockets, timers, control points | reuse, retry with back-off, closing by either side; every request ends exactly once |
| UDP and SSDP `ILibAsyncUDPSocket.c`, `ILibSSDPClient.c` | multicast sockets, table of devices with timeouts | notify, M-SEARCH, expiry | control points | alive, byebye and expiry out of order; a device is known or not |
| Containers and parsers (queues, lists, hash trees, XML, HTTP, URI, base64) | the structures themselves | pure, or locked by the caller | everything | boundaries and lengths |
| Renderer stack `DMR_MicroStack.c` (generated) | description, subscribers, event keys | SOAP dispatch, SUBSCRIBE/UNSUBSCRIBE, notify | HTTP server and client, SSDP | subscriptions that expire while events are sent; every subscriber gets every event in order |
| Renderer `DMR.c` | state variables, change mask, LastChange timer | setters, callbacks, moderated LastChange | renderer stack, pool | changes during the 200 ms window; no change lost |
| Renderer control point `DMRCP_ControlPoint.c`, `MicroAVRCP.c`, `MAVRCP.c` | renderers, connections with reference counts | discovery, invoke, events | HTTP client, SSDP | answers of renderers that have left |
| Server stack `MediaServer_MicroStack.c` (generated) | as the renderer stack | as the renderer stack | as the renderer stack | as the renderer stack |
| Content directory `MediaServerAbstraction.c`, `DmsIntegration.c`, `FileSystemEnumerator.c` | update IDs, moderated ContainerUpdateIDs, context-switch records | Browse, Search, Create, Destroy; ContainerUpdate | server stack, pool, files | answers from the pool; no container update lost or repeated |
| Server control point `MediaServerCP_ControlPoint.c`, `MediaServerControlPoint.c`, `FilteringBrowser.c` | servers, browse requests, pages of results | discovery, browse, page, filter | HTTP client | results that come after the user went elsewhere |
| Playlists `PlaylistTrackManager/*` | track numbers, random order, history | next, previous, seek, modes | renderer application | random order without repetition, boundaries of blocks |
| Transfers `HttpFiles/*`, `UploadController.c`, `DownloadController.c`, `PushController.c` | transfer status, files | start, pause, abort, progress | HTTP client and server, pool | pool threads against SendOK and Disconnect |
| CDS objects, DIDL-Lite, protocolInfo, MIME types, file access | none between calls | pure conversions, pure I/O | content directory, control point | formats |
| AirPlay, dns_sd, tests, build and platform files | | | | not part of this development |

`PROJECT.json` lists the same components with what is modelled of each, and the
hazards of the code, line by line, with the properties that watch them.

## 2. Modules

| Module | Models | Proofs | Run |
|---|---|---|---|
| `ThreadPool` | `ILibThreadPool.c` | `SemaphoreProofs` | `threadpool` (`MCThreadPool`) |
| `LockSpec` | a reader/writer lock as a user sees it | | |
| `ReaderWriterLock` | lines 5080-5330 | `SemaphoreProofs` | `rwlock` (`MCReaderWriterLock`) |
| `LifeTime` | lines 3980-4290 and the sleep of `ILibStartChain` | `LifeTimeProofs` | `lifetime` (`MCLifeTime`) |
| `Chain` | lines 337-950 | `ChainProofs` | `chain` (`MCChain`) |
| `AsyncSocket` | `ILibAsyncSocket.c` | `ConnectionProofs` | `asyncsocket` (`MCAsyncSocket`) |
| `WebClient` | `ILibWebClient.c` | `ConnectionProofs` | `webclient` (`MCWebClient`), `webclient_drop` |
| `WebServer` | `ILibWebServer.c`, `ILibAsyncServerSocket.c` | `WebServerProofs` | `webserver` (`MCWebServer`) |
| `LastChange` | state variables, mask and timer of `DMR.c` | | in `Renderer` |
| `Gena` | subscriptions and events of `DMR_MicroStack.c` | | in `Renderer` |
| `Renderer` | `LastChange` and `Gena` composed | `RendererProofs` | `renderer` (`MCRenderer`), `renderer_lost` |
| `ControlPoint` | `DMRCP_ControlPoint.c` | `ControlPointProofs` | `controlpoint` (`MCControlPoint`) |
| `Upload` | uploads of `DmsIntegration.c`, `DHS_SavePostToLocalFile` of `DlnaHttpServer.c` | `UploadProofs` | `upload` (`MCUpload`) |

Each component's state is its module's VARIABLES, under the names of the C
fields where it has them; variables marked *history* are not in the program and
only record what properties speak of. One action is one handler or one critical
section: no critical section of this code blocks, so the lock that protects it
does not appear. What happens after a section (a semaphore operation, a write to
the pipe, a callback) is an action of its own wherever another thread can come
between.

**ThreadPool.** `pc[t]` is where a donated thread is in `AddThread`; the queue,
`NumThreads` and `Terminate` change in critical sections of the queue's lock.
Items come from another thread or from a running handler. `Destroy` is four
steps: it sets `Terminate` and counts, posts `SyncHandle` once per thread, waits
for `AbortHandle`, frees.

**ReaderWriterLock.** The POSIX build, whose `lock_t` is a counting semaphore.
Writers are preferred: a reader waits while a writer is pending, the last reader
or writer out hands the lock over by posting a semaphore, and `Destroy2`
rewrites the counters and releases all waiters. `ImplementsLockSpec` maps the
threads between the verdict of `lock` and the critical section of `unlock` to
the holders of `LockSpec`. Its formulas carry the prefix `RW` where `ThreadPool`
has the same names, since `SemaphoreProofs`, which counts tokens for both, extends
both.

**LifeTime.** A registration is the number of its insertion. `Stamp` and `Insert`
are the two halves of `AddEx` (the trigger time is taken before the lock);
`Collect`, `FireNext` and `CallbackReturns` are `Check`; `Recalculate`, `Select`,
`SelectReturns` and `DrainPipe` are the part of the chain that decides how long
to sleep. Callbacks run on the microstack thread and may add and remove.

**Chain.** A round is `Check` (the base timer), the sinks of the requests that
`SafeAdd` and `SafeRemove` left there, `PreSelect` of each link, `select`,
`PostSelect` of each link. Every callback may add, remove or stop. What the
module takes from `LifeTime` is what is checked there: timers of 0 ms run in the
order of the calls and wake a chain whose list was empty.

**AsyncSocket.** One socket module used for one connection after another. Any
thread sends and resumes, the rest is the microstack thread's. Sizes of partial
sends, readiness and errors are any the network can produce. `socket = 0` is the
closed descriptor `~0`.

**WebClient.** The data objects (`wcdo`) of the servers over the pool of
sockets. A step is one handler of the microstack thread: `PreProcess` hands
sockets to the backlog, `Connected` and `ConnectFails` are `OnConnect`,
`BodyFollows` and `ResponseDone` are `OnData` with `ProcessChunk`, the next five
are `OnDisconnectSink`, `TimerSink` and `RetrySink` the timers. A handler that
calls `OnResponse` for the last time of a request is cut there (`callback`),
because the callback may make requests. Of the socket module only what
`AsyncSocket` promises is used: a connection attempt ends in `OnConnect`, a
connection ends once. The two modules share no variable, and the prefix `WC`
keeps the formulas apart that `ConnectionProofs`, which extends both, would
otherwise find twice.

**WebServer.** Sessions over the pool of sockets. Nothing but the reference
count has a lock, so a step is one write, or a run of writes that no other
thread can tell apart. Thread 0 is the microstack thread, the others are threads
of the pool that serve one request each. A handler answers at once, with a
reference on the session or without, or takes a reference and leaves the request
to the pool. `Received` and the four actions that use it are
`ILibWebServer_OnResponse` up to the handler, `Check` and `Pause` its tail,
`Copy` that of `ILibWebClient_OnData`; `Mark` to `Leave` are one answer,
`Disconnect`, `Forget` and `Free` the end of a connection and of a session. Of
the socket module what `AsyncSocket` promises is used. The histories `whole`,
`released` and `disturbed` (a session whose connection a pool thread took for
that of another session) name the sessions for which a promise holds.

**LastChange, Gena, Renderer.** `LastChange` is the state of the renderer: a call
of the application holds `DMR_Lock` from the comparison to the flag and is one
action; the timer handler holds it for each of its two snapshots, but neither
while it sends them nor when it clears the mask, and these are five actions
(`at`). `Gena` numbers the subscribers in the order of their allocation; a
handler of SUBSCRIBE, UNSUBSCRIBE, renewal, expiry, an event or its sink is one
action of the microstack thread. `flight` are the events of a subscriber that
the event client holds, in order; `Accept` and `Settled` are the control point
(external). `Renderer` sends the snapshots of the one through the subscriptions
of the other and keeps what each control point was told (`view`).

**ControlPoint.** One root device, by its UDN. `Announced`, `Gone`,
`ExpiredDevice`, `InterfaceChanged` and `Hello` are SSDP and the timers;
`DescriptionDone` and `SCPDDone` the fetches; `Subscribed`, `Answered` and
`InvokeFailed` the sinks of requests; `Renew` the renewal timer. A call of the
application takes its reference and queues its request in two steps
(`StartCall`, `QueueRequest`). `Check` collects the timers of a pass before it
fires any: a timer that removes a device chooses which of its timers were
collected too (`Collected`), and these stay in `due` and fire, whatever has become
of the device; until then nothing else runs on the thread (`Waiting`). A device
that is used after it was freed is used as if its memory were still there. What `ILibWebClient_DeleteRequests` does to the
requests of a device is part of the removal.

**Upload.** `CreateObject` and `DestroyObject` run on threads of the pool
(`DmsIntegration.c:1734` puts both into `ContextSwitchBitMask`;
`MediaServerAbstraction.c:919, 1870-1877`), any number of them at a time, even of
one name. Each access to a file and each critical section of the table is a step
of its own: `CreateObject` (the look for a temporary file), `DeleteMedia`,
`CreateFile` (`fopen "wb"`, 1347), `AddEntry` (1365-1373), `AddTimer` (1376-1379,
after the unlock, from a request that may have been freed by then);
`DestroyObject` and `DestroyTemp` delete medium and temporary file. `create` is
the position of each of them; for destructions it is enough to know that some
thread is between its two deletions (`destroying`). A POST takes the lock and
looks for its entry and at the size of its file (`OnContentUpload`), then opens
the file, under the lock still, but between the steps of the others (`Post` and
the three refusals). `Receive` and `Write` are the parts of its body, which the
microstack thread and the pool hand to each other by pausing the connection. A
transfer ends in the pool (`SendOK`, `Clear`, `DoneDone`) or, with the
connection, on the microstack thread (`Disconnect`, `AbortDone`); both call
`OnContentUploadDone`, which waits for the lock. A file is known by who made it,
so that one that was deleted and made again under its name is another; one that
is emptied under a transfer puts this into `cut`, as what it wrote is lost.
`disturbed` names the transfers no promise is made for.

## 3. Runs

All runs check deadlock off because each of these systems may really stop: a
destroyed pool, an ended chain, a lock nobody wants, or the bound reached.

| Run | Instance | Checks |
|---|---|---|
| `threadpool` | 3 threads, 3 items, Destroy at any time | `WakeUpsMatchItems`: SyncHandle tokens and items agree, so no wake-up is lost; `NoUseAfterFree`: Destroy frees only what nobody will touch; `ExactlyOnce`; `DestroyReturns`; `QueuedItemsRun` unless the pool goes |
| `rwlock` | 2 readers, 3 writers, Destroy2 at any time | `MutualExclusion`; `DrainNeverBlocks`: an unlock never waits; `ImplementsLockSpec`; `WaitersAdmitted` |
| `lifetime` | 1 client, callbacks, 2 owners, delays 0 and 1, 2 registrations, 2 ticks | `OnePlace`: each registration is listed, queued or settled once; `NoSleepOverTimers`; `FiresInOrder`; `TimersSettle` |
| `chain` | 1 client, 3 links, 3 waiting requests | `LinksAreLive`: no link is called after its Destroy; `LinksAccounted`; `RemovedLinksGo`; `StopEndsChain` |
| `asyncsocket` | 1 client and the microstack thread, 2 connections, 3 messages of 2 bytes | `WireInOrder`; `QueueHasSocketAndHead`; `EndedOnce`; `QueuedDataGoesOut`; `ResumeDelivers` |
| `webclient` | 3 servers, 2 sockets, 3 requests | `OneSession`: a server with requests has one session under way, never two; `AnswersItsRequest`: a response goes to the request it answers; `ToldInOrder`: the requests of a server are told done in the order they were made, none twice; `RequestsLeave` |
| `webclient_drop` | as above | violated: `NoSilentDrop` |
| `webserver` | 1 socket, 2 connections, 1 request for the pool | `ReferencesAccounted`: the count of a session is its connection and its handlers, and one thread frees it; `SessionsOutliveUse`: not under a thread that still works on it; `ServedInTurn`: no request is read before the last one is answered; `WaitersAreTimed`; `RequestsSettle` |
| `renderer` | 2 services of one variable, 2 subscriptions, 2 changes | `SubscribersAccounted`: freed when nothing refers to them; `ListedMeansInformed`: who stays listed misses nothing; `ToldInTheEnd` |
| `renderer_lost` | as above, 1 subscription | violated: `FiresLastChange` |
| `controlpoint` | 2 locations, 2 services, 2 device objects, 3 fetches, 2 calls | `ReferencesAccounted`: the count of a device is exact, and a freed one is named by nothing, but for the two exceptions it states; `RemovedGoAway` |
| `upload` | 2 uploads of one name, the first resumable, 2 connections, 2 of `CreateObject`, `DestroyObject` and POST under way at a time | `TempFilesOwned`: no temporary file without an entry of the table, or a thread about to add it, no entry of a freed request; `TransfersEndOnce`; `PublishedWhole`; `UploadsSettle` |

The type invariants are proved (section 5) and not repeated in the runs. Neither
are `NotEarly` of `LifeTime`, `PostSelectAfterPreSelect` of `Chain`, nor the five
invariants that say of a run's liveness property why nobody can be stuck:
`DestroyIsAwaited` of `ThreadPool`, `NobodyForgotten` of `ReaderWriterLock`,
`SelectIsWoken` of `Chain`, `SelectMissesNothing` of `AsyncSocket` and
`UploadsAreAwaited` of `Upload`. TLC was asked about each of them once, on the
instance of its run.

Why the bounds are enough to meet the interesting cases:

- three pool threads: one works, one waits for a token, one leaves; three items:
  one runs, one is queued, one is submitted by a handler;
- two readers share, three writers are one inside, one signalled and one
  pending; the second signalled writer is where `Destroy2` miscounts tokens;
- two registrations of two owners with delays of 0 and 1 tick: equal and
  different trigger times, removal of one of two, a callback that removes its
  neighbour in the same batch; two ticks let the second fire after the first;
- three links: one removed before, at and behind the loop's position;
- two connections: whatever the first leaves (timers, queue, flags) meets the
  second; two bytes are the shortest message that can be cut in the middle;
- one HTTP server socket: the second connection takes over the socket of the
  first while a thread of the pool may still answer the first, which is where
  everything about the end of a session can go wrong; one request in the pool,
  any number on the microstack thread (508,805 states);
- one variable of each service and two changes: one before, in or after each
  snapshot and the clearing of the mask; two subscriptions: of one service, of
  both, or one after the other; the position variable is set quietly too
  (642,174 states). The limit of subscribers is not reached, and the variables
  whose setter compares the wrong way round (`Backwards`) or takes NULL
  (`Nullable`) are left to the proofs;
- two locations: a device that moves; two device objects: one found while the
  other has not gone; three fetches: the late end of a cancelled one meets the
  next; two calls or references of the application (157,043 states; three calls,
  without the liveness property, were explored once, 709,053 states);
- three servers and two sockets: two connections at once and one server that
  waits for the pool; three requests to one server: one on the wire, one that
  is next, one made in a callback;
- two uploads of one name, together or one after the other: the second is
  accepted, its file made, its entry added or its timer set while a transfer, a
  timer or a file of the first is left; two connections: an upload aborted and
  resumed, refused and repeated, or two POSTs at once; the first upload may be
  resumed, the second not. `MCSpec` lets two creations, destructions or POSTs be
  under way at a time, and uses the connections, which are alike, in order
  (437,916 states); no fair step is held back by either bound. Without them the
  safety properties, `UploadsAreAwaited` included, were explored once
  (6,320,916 states).

**Fairness.** Weak fairness on the steps of every thread: the scheduler runs
what can run, and handlers return. No fairness on requests: nobody has to
submit, add, send or stop. In `LifeTime` time passes (`Tick`). In `AsyncSocket`,
`select` returns when the pipe has a byte or the block time is over (weak), and
a descriptor that is asked again and again for room is writable in the end, or
fails (strong fairness of `SelectWritable`: the peer reads, or TCP gives up).
In `ReaderWriterLock` a holder unlocks, and admission of a waiter is only
promised if requests stop arriving in between (`WaitersAdmitted` says so). In
`WebClient` the chain serves sockets and timers, an attempt to connect ends
(`CONNECTTIME`), and a server that was sent a request answers it or ends the
connection: the client has no limit of its own for that. In `WebServer` threads
go on with what they began, the pool serves every request, and the loop comes
round to each timer and each socket with data, which another thread may take
away in between (strong). In `Renderer` the timer runs again 200 ms after each
handler, and the event client settles every event: it is answered or fails. In
`ControlPoint` requests are answered or fail, timers fire, and an application
that was told a device has left gives its references back; a device that has
left does not confirm renewals for ever (strong fairness of the failing answer).
In `Upload` a thread goes on with the creation or the POST it is at, the pool
writes what it was left, and the loop comes round to each timer and to the end
of a connection that was refused (strong, since the microstack thread may be
elsewhere whenever it could); nobody has to create, to destroy, to post, to send
the rest of a body, or to hang up.

## 4. What the runs found

- `webclient_drop`: when a server accepts a connection and ends it before its
  first answer, `OnDisconnectSink` reports the failure, takes the failed request
  off the queue and calls `FinishedResponse`, which takes off another one because
  there is no socket (`ILibWebClient.c:1802-1817, 622-634`). That one was never
  sent and its `OnResponse` is never called; a request that an application makes
  from the callback of the failure to try again is lost in the same way.
- `renderer_lost`: `DMR_LastChangeTimerEvent` clears the whole mask, without the
  lock and after the snapshots were taken and sent (`DMR.c:1947`). A change that
  an application thread flags in between is told to nobody, although "This
  method will fire a LastChange event asyncronously" (`DMR.h:569`).

Further observations made while modelling, with the way the models treat them:

- A donated thread that enters `AddThread` after `Destroy` has counted the
  threads uses the freed pool. `LateJoin = FALSE` in the run states the rule the
  applications must keep; with `TRUE`, `NoUseAfterFree` and `DestroyReturns`
  fail.
- `ILibLifeTime_Remove` cannot stop a timer that `Check` has already taken off
  the list. It stores the owner's pointer in `Reserved` (4237), while `Check`
  looks there for the pointer of the list entry (4150), and on an empty list it
  stores nothing (4215), against the comment at 4146. `LifeTime` models it so:
  `FireNext` fires whatever was collected.
- `ILibStopChain` sets `TerminateFlag` and then writes to the pipe of a chain
  that may have ended and been freed in between (946-947).
- After `Destroy2` an unlocking thread may lose its ExitLock token to the
  collecting thread, so "This won't block" (5181, 5267) is only true before:
  `DrainNeverBlocks` is stated for `~Exit`. With an active reader and one
  pending writer `Destroy2` releases nobody (5290).
- The block time is taken from the oldest registration (4190; sorting is
  commented out at 4072): a short timer behind a long one fires late, never
  lost.
- A failed send schedules `Disconnect` for the module, not for the connection
  (`ILibAsyncSocket.c:443,1136`). If the connection ends first and the module is
  reused, the next connection is closed. `EndedOnce` holds all the same: each
  connection ends once. There is one exception: on a chain that was stopped
  `Disconnect` leaves the connect timer (499), and `ConnectTimeout` (553) tests
  nothing, so a connection still being made that such a `Disconnect` closed is
  reported once more, in the same pass of the timers (`ReportedAgain`).
- HTTP server. `ILibWebServer_OnResponse` may pause a connection after a pool
  thread has answered and resumed it (`ILibWebServer.c:305-310`); a paused
  connection is not polled at all. `ILibWebServer_Release` removes every timer of
  the session, also the idle timer the answer has just set (1165), against the
  comment at 93-95, and reads the session after giving its reference back (1163),
  when it may have been freed: the one exception in `SessionsOutliveUse`.
  A pool thread marks its last chunk as the end of the answer before it is sent,
  so the microstack thread, draining an earlier chunk, may end the request early.
  A session that outlives its connection still names its socket: its last
  `Release` disconnects whoever is connected there by then, on a pool thread
  (`ILibWebClient.c:302-308`), and its timer, data and resume go to that
  connection too. After a disconnect `RequestAnswered` may leave a timer that
  closes the next connection. A session that waits for a body is on no timer.
  `ServedInTurn` and `RequestsSettle` are therefore stated for sessions that only
  the microstack thread serves, `WaitersAreTimed` for those never released.
- Renderer. `DMR_StateChange_TransportPlaySpeed` flags a value that is not new
  (`DMR.c:2500`). A subscriber that is given up with two or more events in flight
  is never freed. The initial event carries only the last LastChange, and may
  overtake the answer to SUBSCRIBE. SUBSCRIBE purges lapsed subscribers whatever
  refers to them (`DMR_MicroStack.c:5481`); a late renewal revives a lapsed one
  (5714). `SubscribersAccounted` and `ListedMeansInformed` make exactly these
  exceptions. `DestroyMicroStack` frees subscribers whose events are still with
  the event client, and events of ConnectionManager are sent from application
  threads beside the unlocked `TryToSubscribe`; neither is modelled.
- Control point. A renewal that fails is not tried again, and a new SID of a
  repeated subscription is not stored. A device that is removed because its
  interface lost its address keeps the references of its events
  (`DMRCP_ControlPoint.c:2311-2313, 3019`). An invocation without answer destroys
  the device whatever its count (3506, in each of the 54 sinks), or, if the
  device was not listed, never gives its reference back. The late end of a
  cancelled fetch deletes the entries of its successor (1996): the device is then
  found as a second object. A description of 200 without a body leaves the NULL
  entry of its UDN for ever. `ILibLifeTime_Remove` (2085, 2104) does not stop a
  timer that `Check` has already collected (`ILibParsers.c:4150, 4237`): when the
  expiry of a device, or its change of interface, and a renewal are due in one
  pass, the removal releases the reference of the renewal, and `Renew` (2764) runs
  all the same, on a device freed perhaps, and its request gives the reference
  back a second time. `overdrawn` counts these. Deleting the requests to one root device deletes
  those to another on the same server.
- Uploads. The pool answers a POST before it takes the transfer off the session
  (`DlnaHttpServer.c:481-482`): a connection that ends in between has the whole
  upload reported as aborted, then as done, and its data freed twice. A POST
  that resumes at the wrong place without `Expect` is disconnected under the
  lock of the table (631), which the callback of the disconnect waits for on the
  same thread; the comment there wants the socket closed. A refused POST stays
  bound to its session (409, 417) while the request may expire, so that its end
  reads a freed request. Two POSTs of one name are not kept apart. Nor are two
  `CreateObject`: both may look for the temporary file before either makes it
  (`FileSystemEnumerator.c:1528`). The second `fopen` (1347) then empties the
  file of the first, in the middle of its POST perhaps, which is published
  without what it had written; the second entry hides the first, whose request
  is never freed. An object that is destroyed and created again while it is
  uploaded is published by the end of the first transfer, empty
  (`DmsIntegration.c:925, 1370`). The timer is set from the request after the
  table was unlocked (1378), when a POST may have finished and freed it. A
  destruction between file and entry leaves an entry without a file, which the
  POST makes anew. `TransfersEndOnce` and `PublishedWhole` except the transfers
  they name for these reasons and no others; creations and destructions are no
  exception of the first. A request of another method leaves the lock of the MSA
  taken (1010). A resumable upload that was begun stays until it is finished:
  nothing times it.
- The HTTP client is safe for requests made on the microstack thread. A request
  of another thread that comes between the end of an idle connection and the
  last look of `OnDisconnectSink` at the queue puts the server into the backlog
  twice (`ILibWebClient.c:2324, 1826`); so does a request after a
  `CancelRequest` that emptied the queue of a server still being connected.
- `OnConnect` sets `PendingConnectionIndex` to 0, a valid index
  (`ILibWebClient.c:1606`), and a failed connection leaves `SOCK` pointing to a
  socket the pool may give to another server: `DeleteRequests` (2556-2570) and
  `CancelRequestEx2` (2665) then disconnect that server.
- A response that was cut off in its body leaves `FinHeader` set when its request
  is sent again on a new connection (`ILibWebClient.c:1826`), so the new header
  is taken for the rest of the body. `ResponseDone` then ends the request.

## 5. Proofs

All theorems are proved for every value of the constants. Assumptions are only
the named ASSUMEs of the modules: finite sets of threads, disjoint readers and
writers, client threads different from the microstack thread, connections that
are not numbers, natural bounds.

- **ThreadPool**: `TypeCorrect`, `WakeUpsMatch`, `DestroyIsSafe`,
  `DestroyIsNotStuck`, `HandlersRunOnce`. The last places every item: a queued one is in the queue
  once, a running one with exactly one thread or the client that runs it inline, and the others are done or given
  up by Destroy. The invariant
  relates `NumThreads` to the set of threads between their two critical
  sections, and the tokens to the queue; for Destroy it is one baton: the post
  of `AbortHandle` is pending, done or consumed, and only by the last thread.
  `DestroyIsNotStuck` adds that the baton is not lost, and that every thread
  asleep on `SyncHandle` has a token there or one that Destroy still posts.
  Both need that no thread joins late: one that does may sleep for ever, and
  Destroy with it.
- **ReaderWriterLock**: `RWTypeCorrect`, `Exclusion`, `Refinement`, `DrainIsFree`,
  `NobodyIsForgotten`.
  `MutualExclusion` alone is not inductive: the turn of a writer is in four
  places (the token of `WriteLock`, its poster, the writer that took it, the
  writer inside), at most one at a time, and never together with an active or
  promoted reader. `Refinement` maps every step to a step of `LockSpec` or a
  stutter. `NobodyIsForgotten` needs that until `Destroy2` the counters of those
  who wait are exact (`Queues`): a writer is pending from its request to its
  unlock, a reader waits until it is promoted and has then a token, or a writer
  that still owes it one, and readers wait only behind a writer.
- **LifeTime**: `TypeCorrect`, `SettledOnce`, `NeverEarly`,
  `FirstComeFirstFired`, `NoLostWakeUp`. Order of firing needs that trigger times
  of like timers grow with their numbers and that `Check` leaves no older one
  behind; the wake-up needs the window between the look at the list and
  `select`.
- **Chain**: `TypeCorrect`, `RoundsAreWhole`, `DestroyedOnce`, `NoLinkIsLost`,
  `NoSleepOverRequests`. The invariant places every link: on the chain once, in one waiting addition, or
  dead. `NoLinkIsLost` adds the end of the chain: the links before the loop's
  position are destroyed, those from it on are not. `NoSleepOverRequests` follows
  what came up since the list and the flag were looked at (`Alert`).
- **Renderer**: `TypeCorrect`, `CountsAreExact`, `ListedAreInformed`. The count of a
  subscriber is its list entry and its events in flight; who is listed and never
  lapsed has a gap-free flight, and the last event in flight that names a variable
  carries the value of the last snapshot, which differs from the variable only
  where a change is still untold.
- **ControlPoint**: `TypeCorrect`, `CountsAreExact`. The invariant states, device by
  device, the sum of the holders of references less what a timer released in the
  pass of a renewal, that an object not yet found has none, that what the
  application knows is not freed, that only a listed one is in the table of UDNs,
  and which timers a removed one has lost. A step of a device freed early is not
  counted, only typed.
- **AsyncSocket**: `TypeCorrect`, `SendsInOrder`, `QueueIsSafe`, `EndsOnce`,
  `NoSleepOverWork`. The inductive invariant adds that only an established connection whose last send
  did not fail has queued data, that what `PreSelect` saw waiting still waits
  when `PostSelect` writes, that the connect timer belongs to the last connection,
  which was not established and is open unless the chain was stopped, and that a
  paused connection is not polled. `NoSleepOverWork` adds that what is
  scheduled after the timers were looked at has put a byte in the pipe.
- **WebClient**: `ClientTypeCorrect`, `SessionsAreSingle`,
  `AnswersGoToTheirRequest`, `TellsInOrder`. `Queues` says that requests wait in the order they
  were made and that of those told done only the first of the server that called
  back may still be queued. `Placed` gives every server one place (a socket,
  the backlog, the retry timer) while it has requests, unless it has just given its
  connection up or lost it and its callback still runs. `Used` agrees each
  socket in use with its server. `PreProcess` needs that the free sockets, in their
  order, have the ranks from 1 on, each once (`Ranks`), and the retries need that
  waiting times are powers of 2 below the last (`Backoffs`), which is counted with
  sets of subsets since the library states nothing about `^`. On top of it
  `Ordered` compares what was told with what waits and with what a destroyed
  server leaves, which comes before the requests of the server that replaces it.
- **WebServer**: `TypeCorrect`, `ReferencesAreAccounted`, `SessionsOutliveTheirUse`,
  `RequestsAreServedInTurn`, `WaitingConnectionsAreTimed`. The invariant comes in five layers. `Shape` says
  where each thread may be and with which session. `Refs` places every reference:
  the count of a session is its connection and the threads that hold it, and the
  thread that took the last one is the only one to free it. `Lives` says that the
  microstack thread, which often has no reference of its own, is in the middle of a
  session only while that is connected, or its connection was ended by a pool thread
  that took it for its own. `Turn` relates, for a
  connection only the microstack thread serves, what was read to what is
  answered: a request is whole in the buffer, with the handler, or answered.
  `Timed` says that between two requests the timer is set, or a named step that
  sets it is still to come on some thread; it needs `Turn`, because an answer in
  parts sets the timer at its last one.
- **Upload**: `TempFilesAreOwned`, `TransfersEnd`, `WholeIsPublished`,
  `NoUploadIsForgotten`. `Shape` is the table (an entry is a live request of its
  name, a temporary file has an entry or is about to get one, nobody else knows
  a request before it is entered, and what a POST found stays there while it has
  the lock) and where a connection may be. `Single` says of a transfer no
  excepted race meets that it has its name for itself as long as its callback is
  to come, that its request is not freed and still names it, so that neither
  timer nor another end removes it even if a second creation has hidden its
  entry, and who will make the callback. `Files` gives a file the name it was
  made under, wherever it is, so that two transfers that write to one file have
  one name, which `Single` excludes; hence a file nobody empties is whole from
  the last write to its publication. `Settling` is about uploads that are
  neither finished nor given up: the transfer the table names is one of that
  request, and a callback that was made has left the request in the table only
  to have it resumed; so the timer may go when there is a transfer, and a timer
  is missing only until its `CreateObject` sets it.

Only model-checked, on the instances above: all liveness properties (the proof
system reasons neither about ENABLED nor about fairness), and the violations. Of
`DestroyReturns`, `WaitersAdmitted`, `TimersSettle`, `StopEndsChain`,
`QueuedDataGoesOut`, `ResumeDelivers` and `UploadsSettle` the safe half is proved:
no wake-up, timer or callback is lost, so the system never rests with somebody
waiting; of `RequestsLeave` and `RemovedGoAway` it is part of `SessionsAreSingle`
(a server with requests has a place in the client) and of `CountsAreExact` (a
removed device that is not freed has a holder of references). What is left to TLC
is that the steps still to come are taken. Induction over data and RECURSIVE
operators are out of the prover's reach too; the modules use neither.

## 6. Rules of use the models assume

- Pool: nothing is submitted after `Destroy` returned; see `LateJoin`.
- Lock: a thread unlocks what it locked, and does not lock twice.
- Timers: not used by client threads after `ILibStopChain`.
- Chain: a link is added once, removed only after it was added; nothing is asked
  of a stopped chain.
- Socket: nothing is sent before `OnConnect`, no message is empty (an empty one
  behind waiting data would make the writer loop), `Resume` only after `OnData`
  paused, `Disconnect` only on the microstack thread as the code's own comment
  demands (`ILibAsyncSocket.c:441`), nothing after `ILibStopChain`. `ConnectTo` is
  called in a `PreSelect` in front of the module (HTTP client), `UseThisSocket`
  in a `PostSelect` behind it (HTTP server).
- HTTP client: requests are made on the microstack thread, between handlers or
  in a callback; nothing is cancelled; one connection to a server; at most 20
  servers (with more, `TimerSink` returns before it disconnects and leaves
  `Closing` set, `ILibWebClient.c:481-498`). The chain does not stop.

- HTTP server: a timer that was removed does not fire; a handler that leaves a
  request to the pool has taken a reference first, gives it back after its answer,
  and answers each request once. The chain does not stop.
- Uploads: a connection carries one POST, of a client that resumes with the range
  that is missing or is refused; nobody pauses a transfer (`DH_Pause` has no
  caller); the server is not destroyed. The memory of a freed request holds the
  name of its upload still, or none. What was written to a file is in it when its
  size is asked for.
- Renderer: the event client sends the events of one subscriber one after the
  other and reports each once. The application does not destroy the renderer.
- Control point: every device has a server of its own; an application uses a
  device while it is listed or it has a reference to it; it does not search again
  (`DMRCP_ControlPoint.c:3437`: the search empties the tables under the devices).

## 7. Not modelled

Windows and Symbian branches, QOS, the packet filter of a second interface and
the growth of receive buffers; `ReplaceSocket`, which nothing calls; the wrap of
the millisecond clock where long has 32 bits; subchains (planned). Formats and
parsing have no state between calls. The components of section 1 without a
module, and what the modules leave out, are the plan:

1. HTTP client: `CancelRequest`, `DeleteRequests` and requests of other threads.
2. HTTP server: the stop of the chain, `DisconnectSession`, requests that are too
   large (413), virtual directories.
3. Content directory: moderated ContainerUpdateIDs and the switch of requests to
   the pool (`MediaServerAbstraction.c`). Its stack is generated from the template
   `Gena` models.
4. Control point: the search, embedded devices, `StopCP`; `MicroAVRCP.c` on top.
   `MediaServerCP_ControlPoint.c` comes from the same template as
   `DMRCP_ControlPoint.c`, but its invocations only give their reference back.
5. Actions that control points invoke on the renderer, which cross to the pool.
6. The other file transfers between pool and microstack thread (`HttpFiles`):
   sending a file, and the client's side.
7. SSDP (`ILibSSDPClient.c`): its table of devices and their timeouts.
8. Playlist algorithms (`BitArray`, `CircularBuffer`, `IndexBlocks`,
   `PlayListManager`) as functions against reference definitions.
9. Subchains.

SOAP dispatch and description documents are generated wording; browser and
wrappers (`FilteringBrowser.c`, `MAVRCP.c`), CDS objects, DIDL-Lite and file
access are conversions and I/O; AirPlay, dns_sd, tests, build and platform files
are not part of this development.

Hazards outside the present models, beside those `PROJECT.json` lists: late
threads in `ILibThreadPool.c:126`; links and wake-ups of subchains
(`ILibParsers.c:562, 675`), the count of chains (500), the write to a chain that
ended (947); the disconnect that names a module and not a connection
(`ILibAsyncSocket.c:1136`, modelled); requests of other threads and the index of
a pending connection (`ILibWebClient.c:2324, 1606`); the lock made on first use
(`DlnaHttpClient.c:515`); the search of the control point
(`DMRCP_ControlPoint.c:3441`) and, modelled with exceptions in the properties, its
lost interface (3019), the order of the timer list (`ILibParsers.c:4190`) and the
length `SendTo` keeps of what it drops (`ILibAsyncSocket.c:434`).
