# HTTPAceProxy: a TLA+ model

HTTPAceProxy lets HTTP players watch peer-to-peer channels of an Ace Stream
engine. It keeps one control session with the engine per channel (infohash) and
fans its MPEG-TS stream out to any number of clients. The maintained program is
the C++20 server in `src/httpaceproxycpp/`; paths of its files below are relative
to it. The Python program in `src/httpaceproxypy/` is its
deprecated ancestor.

This directory holds the specification of the parts where threads meet: what
keeps a shared session alive, what may end it, and who is told; who may use a
connection, a plugin or a verifier that others are taking away; and what is left
on disk when the process is killed.

## 1. Inventory

| Component | State | Operations | Interacts with |
|---|---|---|---|
| **Broadcast** (`src/broadcast.cpp:103-558`) | `subscribers_` (atomic), `clients_` (mutex), `zero_subscribers_time_`, `start_time_`, `running_`, `started_`, `stopped_` (atomics), the control connection `ace_`, stream and keepalive threads | constructor, `add_client`, `remove_client`, `start_once`, `stop`, `stream_loop`, `keepalive_loop`, `broadcast_chunk`, migration attach/detach, destructor | handlers call it; owns an AceClient; pushes into client queues; reference-counted by `shared_ptr` |
| **BroadcastManager** (`src/broadcast.cpp:560-751`) | the map infohash → broadcast, its mutex, the reaper thread | `get_or_create`, `remove_if_empty`, `force_stop_broadcast`, `reap_inactive_sessions`, `stop_all` | handlers, reaper, `Proxy::stop` |
| **ChunkQueue** (`src/broadcast.cpp:11-101`) | chunks, byte count, closed flag, one mutex, two condition variables | `push` (drop oldest, or wait first), `pop`, `pop_timeout`, `close` | one per client: stream thread produces, handler consumes, `stop` closes |
| **AceClient** (`src/ace_client.cpp`) | socket, reader thread, queue of messages, authentication state | `authenticate`, `load_async`, `start_broadcast`, `status`, `stop_broadcast`, `shutdown`, `reader_loop`, `wait_for` | engine (TCP), broadcast's stream and keepalive threads, verifier |
| **ChannelVerifier** (`src/channel_verifier.cpp`) | per-content state and timestamps, work queue, a counting semaphore for engine sessions, workers | `enqueue`, `verify_sync`, `worker_loop`, `run_pipeline`, `update_state`, `clear_state`, `get_cached`, destructor | HTTP API, favourites worker, engine |
| **FavoritesHealthWorker** (`src/favorites_worker.cpp`) | wake-up flag, probe list, one thread | `start`, `stop`, `notify`, `request_channel_probe`, `probe_all_favorites` | verifier, EPG favourites |
| **HttpServer / ThreadPool** (`src/http_server.cpp`) | task queue, stop flag, workers, listening socket | `try_submit`, `submit`, `worker_loop`, `shutdown` | runs every handler |
| **Proxy, stream handling** (`src/proxy.cpp:2283-2800`) | per-request locals, connection limits | first chunk wait, failover over candidates, streaming loop | broadcasts, scorer, virtual channels |
| **Virtual channels, migration, pin** (`src/proxy.cpp:4612-4863`) | active, pinned and disabled content per virtual channel | `migrate_subscribers`, `pin_candidate`, `toggle_disabled_candidate` | two broadcasts at once, clients' queues |
| **Candidate scoring** (`src/stream_scorer.cpp`, `src/proxy.cpp:3918-4183`) | history per content | `calculate_score`, `rank_candidates` | pure, read by failover |
| **Persistence** (`src/proxy.cpp:3660-3878, 4476-4601, 4938-5350`) | JSON files: favourites, plugin state, logos, filters | load, save, backup | HTTP API, `main.cpp` |
| **Engine selection and limits** (`src/proxy.cpp:248-334, 2802-3150`) | engine address, limits, log ring of 200 lines | `set_engine`, `set_limits`, `restart_engine`, `get_content_info` | every request |
| **HttpClient** (`src/http_client.cpp`) | none of its own (libcurl) | `get`, `stream` | stream threads, verifier |
| **Plugin registry and sources** (`src/plugins.cpp`, `src/proxy.cpp:1444-1541,1628-1866,2189-2216,3644-3817`) | registered plugins, the list of each, an updater thread each, the settings under `plugins_state_mutex_` | `handle`, `refresh_if_needed`, `set_plugin_url`, `set_plugin_enabled`, `add_custom_list_plugin`, `remove_custom_list_plugin`, `import_sources` | persistence, HTTP API, HttpClient, detached threads |
| **Playlists** (`src/playlist.cpp`) | none | render M3U | HTTP API |
| **Config, util, JSON** (`src/config.cpp`, `src/util.cpp`, `src/json.cpp`) | none | parsing, encoding | everything |
| **main** (`src/main.cpp`) | the proxy, a signal handler | start, stop on a signal | all |
| **Web UI** (`http/`) | browser | AJAX panels | HTTP API |
| **Python proxy** (`src/httpaceproxypy/`) | its own | the same job, with gevent | engine |
| **Packaging and scripts** (Dockerfiles, `src/scripts/update_epg.py`) | none | build, EPG download | |

### What is hard here

* The reference count of a session is three things updated one after the other
  (`subscribers_`, `clients_`, `zero_subscribers_time_`) by threads that share
  no lock, and read together by whoever decides to stop it.
* `get_or_create` hands out a session before the caller has counted itself in.
* Four actors end sessions (reaper, last handler, stream thread, `stop_all`),
  and the destructor ends what they put off.
* Every one of them waits for another thread: `stop` joins the stream thread,
  which may wait for the engine; the manager's mutex is held while connecting.
* Client queues drop data when full, and are closed from three places.
* Engine replies are matched by waiting for the first message of some kind,
  by several threads on one connection.
* The verifier's workers take a slot of a semaphore with a timeout, put a task
  back when a stream has begun, and write results that callers who gave up, or
  handlers that know better, overwrite.
* State on disk is rewritten in place, copy by copy, by requests that change
  memory and save it in two critical sections.
* A pin and a migration work for seconds on copies of the client lists, while
  the handlers of those clients fail over, leave and are freed.
* A source is deleted while its updater, detached refreshes and requests use it;
  whoever is last runs the destructor, which joins the updater.
* The registry and the settings have a mutex each, and three threads (an import, a
  removal, an updater that is joined) take them in orders that can close a circle.

### What makes each component correct

* *Broadcast and manager*: what is handed out is alive; a stop never cuts off a
  settled client; what nobody uses is ended; the count never exceeds the
  holders, and is below zero for a moment only.
* *ChunkQueue*: bounds, byte account, order of what is delivered, no lost
  wake-up, `close` releases everybody.
* *HttpServer and its pool*: bounded queue, an accepted task runs, `shutdown` returns.
* *ChannelVerifier*: a task is carried out once, a content is not left PENDING,
  each request gets an answer, slots are returned, destruction ends.
* *AceClient*: a handler finds the reply to his own request (as long as none was
  given up), the idle client is one of the selected engine, every wait ends.
* *Virtual channels*: a failover ends, a pin holds, references follow the clients.
* *Persistence*: a start finds what memory was at or after the last finished
  save; without a request under way the copies are what memory is.
* *FavoritesHealthWorker*: what was asked for is probed.
* *Sources*: what is used is alive, what is removed ends (unless an import hangs),
  lists follow settings.

## 2. The modules

| Module | Section | Models | Proofs |
|---|---|---|---|
| `Broadcast`, `MCBroadcast` | 3 | sessions, their manager, the reaper, the handlers; every access to shared state is a step | `Broadcast_proofs` |
| `ChunkQueue` over `LossyChannel` | 4 | a client's queue, and what it promises | `ChunkQueue_proofs` |
| `HttpServer` | 5 | accept thread, pool, shutdown | `HttpServer_proofs` |
| `ChannelVerifier`, `MCChannelVerifier` | 6 | queue, workers, slots and results of the verifier | `ChannelVerifier_proofs` |
| `AceClient` | 7 | a connection to the engine, its reader and all who wait on it | `AceClient_proofs` |
| `VirtualChannels`, `MCVirtualChannels` | 8 | viewers of a virtual channel and the administrator who moves them | `VirtualChannels_proofs` |
| `Sources`, `MCSources` | 9 | a source of channels, its plugins, threads and settings | `Sources_proofs` |
| `Settings`, `FavoritesWorker` | 10 | the four stores on disk; the worker that probes the favourites, on top of them | `FavoritesWorker_proofs` |

How they compose: `FavoritesWorker` extends `Settings`, since a request that
changes the favourites ends by telling the worker. `ChunkQueue` implements
`LossyChannel` (`INSTANCE LossyChannel WITH buffer <- chunks_, shut <- closed_`).
`VirtualChannels` takes each call of `Broadcast` (`add_client`, `remove_client`,
`stop`) as one step, and `Broadcast` shows what happens inside. `AceClient`
stands in the same relation to the field `ace` of `Broadcast` and to
`get_content_info`, which `VirtualChannels` takes as one step, and
`ChannelVerifier` to the call of `verify_sync` by `FavoritesWorker`.

What could follow: an abstract *leased session* (listed, in use, ended, gone)
implemented by `Broadcast`, by a proof as `ChunkQueue` implements `LossyChannel`; the
fan-out of `broadcast_chunk` over the queues of several clients.

A run is worth its time when it answers a question of its own, so instances that
could share a run do: `shared` covers both the ordinary life of a session and
`stop_all`, `settings` all four stores.

## 3. `Broadcast`

A session is a member of `Sessions`: memory the allocator may reuse, so that a
session may be freed and its place taken by another one. `bc[b]` holds the
fields of the object, named as in the code.

| Variable | Code |
|---|---|
| `broadcasts_`, `mutex_` | `BroadcastManager::broadcasts_`, and who holds its mutex across more than one step |
| `bc[b]` | the members of `Broadcast`; `ace` abstracts the connection (authenticated, START sent, SHUTDOWN sent), `stream` is where the stream thread is |
| `client[h]` | the locals of `handle_core_stream` and whether the client's queue is closed |
| `job[t]` | the session a thread stops, and `force` |
| `doomed`, `scan`, `verdict` | `to_stop`, the iterator and the branch taken in `reap_inactive_sessions`; the map swapped out by `stop_all` |
| `pc[t]` | where each thread is |

One action is one critical section or one access to an atomic. The reads of one
guard are taken in a single step; writes that the code does one by one are
separate steps: `CountIn`, `ClearZeroTime`, `Enlist` (`add_client`), `Erase`,
`CountOut`, `ClampToZero`, `StampZeroTime` (`remove_client`), `StopGuard`,
`StopClearsCount`, `StopWins`, `StopCloses`, `StopSends`, `StopJoins` (`stop`).
The reaper reads a session (`ReapLook`) and acts on it (`ReapAct`) in two steps,
holding the manager's mutex but no lock of the session.

Time is relative: a timestamp is the number of ticks since it was stored, and
saturates at `Linger` (the grace period) or `Startup` (the protected start-up
window), the largest age any guard distinguishes. `Unset` is a stored zero.

What the engine answers is nondeterministic: whether a status protects a session
during start-up, whether START yields a URL, when a stream ends.

Migration is not in this module. `attach_migrated_client` and
`detach_client_for_migration` (`src/proxy.cpp:4663,4827`) put a client on a session
its handler has no `shared_ptr` of, so a session may be destroyed with a client on its
list; here a client is listed only by its handler, on the session that handler
holds. `VirtualChannels` has the migration, and what it does to the counts.

### Runs

| Run | Instance | Shows |
|---|---|---|
| `shared` | 2 handlers (one virtual), reaper, `stop_all`, 1 session, 1 infohash | type invariant and three safety invariants |
| `failover` | 1 virtual handler, reaper, 2 sessions, 2 infohashes | failover leaves nothing behind |
| `release` | 1 handler, `stop_all`, reaper, 1 session, with fairness | an engine session nobody uses is ended |

Two handlers are what the hazards need: one that leaves or is being stopped for,
and one that joins in between. One session with reuse covers free and rebuild;
two sessions are needed only for failover and for a duplicate. `Linger` and
`Startup` are 1: before, and at or after, the limit. The liveness run has one
handler: a session that nobody uses is a matter of the reaper, the stream thread
and the destructor. `failover` uses symmetry of memory and infohashes and the
action constraint `CallsAreShort` (a call into the manager takes less than a
tick), which keeps it in bounds; `shared` has neither.
Deadlock is not checked where every handler may simply stop asking.

### Fairness

`Fairness` gives weak fairness to each handler's steps inside the server, to
`stop_all`, to the stream thread, to the destructor and to time. Requests,
disconnections and a stream that keeps flowing are not fair: players may stay
for ever. The reaper gets strong fairness, because it competes for a mutex that
others take again and again; the code relies on the operating system for that.
A stream thread goes on when the engine answered or its timeout passed
(`connect`, `wait_for`, and curl's low-speed limit bound each wait).

## 4. `ChunkQueue` and `LossyChannel`

The queue between the stream threads that push and the handler that pops, at the
level of its mutex: one action is one stay in the critical section. A thread
that waits is in `cv_data_` (consumers) or `cv_space_` (producers); once notified
or timed out it is in `notified` until it has the mutex again. `pending` is the
chunk a waiting producer has with it, `total_bytes_` the running account of the
code, kept by additions and subtractions.

| Action | Code |
|---|---|
| `Push`, `PushWaitsOn`, `PushGoesOn` | `push`: without waiting; a woken producer that still has no room; one that has, or whose time is up |
| `Pop`, `PopWaitsOn`, `PopGoesOn`, `PopTimesOut` | `pop` and `pop_timeout` |
| `Close` | `close` |

`LossyChannel` is what a client may rely on: a bounded channel that delivers in
order, loses only the oldest chunks and no more of them than it takes to make
room. The run `queue` (2 producers, 2 consumers of which one waits without a
limit, chunks of size 1, 2 and 4 in a queue of 2 chunks and 3 bytes) checks that
the queue implements it with `buffer <- chunks_` and `shut <- closed_`, that it never
has more than `max_chunks_` chunks (`TypeOK`), that the account is exact (the channel counts the bytes of its chunks), that one
`notify_one` per push is enough (`NoLostWakeup`), and that `close` lets everybody
go (`ClosedReleases`). Section 11 proves all of them for any limits, sizes and numbers
of threads. A chunk of size 4 is larger than the whole queue, one of size 2
makes two of them too large. `MaxPushes` = 4 is a bound of the model: four chunks
fill the queue, drop two and still leave one to arrive after them.

## 5. `HttpServer`

The accept thread, the pool and the thread that takes the server down
(`HttpServer::stop`, `join`, and `ThreadPool::shutdown` from the destructor).
A connection stands for the task that serves it; `fate` is history.

The wait of a worker is two steps, `FindsNothing` (predicate evaluated, mutex
held) and `Blocks` (mutex given up, asleep), because `shutdown` stores `stop_` and
notifies without the mutex. Everything else done with the mutex held is one step.

`server` (4 connections, 2 workers, a queue of 2, taken down at any time) shows
that no task is overlooked, that `shutdown` throws away nothing and that each
accepted connection is served or refused. Four connections are what it takes to
have both workers busy, the queue full, and one refused after a hand-over.
`server_shutdown` shows that `shutdown` may not return. Fairness: threads run and
handlers end. The second is an assumption about players, who in fact may stay:
then later connections wait in the queue, as many streams as there are workers.
A thread blocked in `accept` is not woken by closing its socket, which is why
`Accept` and `AcceptFails` are not fair. Spurious wake-ups are left out: a worker
that wakes evaluates its predicate again, whatever woke it.

## 6. `ChannelVerifier`

A *call* is one invocation of `verify_sync` (`force`) or `enqueue`, and also the
task it pushes: no call pushes more than one. `call[k].pc` is where its thread
is, `worker[w]` is a worker with its task, the engine that opened its session and
the host of its `command_url`.

| Variable | Code |
|---|---|
| `state_`, `aged` | the table of results; which PENDING entries are 12 s old or more |
| `task_queue_`, `stop_` | as in the code; `queue_mutex_` makes each use of them one step |
| `semaphore_`, `ace_host_` | free slots; the engine selected |
| `call`, `worker`, `called` | threads; the callbacks that have run |
| `streaming` | `broadcasts_.client_count() > 0`, read by the predicate and, through the active checker, by the bypass |

What a result says is abstracted to `KNOWN`: nothing in the control of the
verifier depends on it, and `classify` is a pure function. Time-outs may come at
any moment at which the awaited event has not happened, which is every race
between the two. The table is written in a step of its own (`Publish`) between the
release of the slot and the callback, and the caller that gives up writes too
(`TimesOut`). `MarkUnlocked` is the write of `verify_sync` after a wait that timed
out, without its lock; two such writes at once are a data race, and the model
continues as if both had taken place. A waiter of `sync_cv_` may miss its
notification, which is sent without `sync_mutex_`; as the wait ends by itself the
outcome is that of `AwaitEnds` later.

`queue_cv_` is shared by idle workers and by workers that pause for a stream.
`NotifyOne` therefore wakes an idle worker or, when one pauses, perhaps nobody who
cares.

| Run | Instance | Shows |
|---|---|---|
| `verifier` | 3 calls, 1 content, 2 workers, 1 slot, 2 engines that stand in for each other, symmetry | the six safety invariants |
| `verifier_live` | 2 calls, 2 workers, 1 slot, 1 engine, with fairness, no symmetry | tasks are carried out, the destructor ends, `verify_sync` returns |

The program has 3 workers and 2 slots; 2 and 1 keep what matters, one worker more
than slots. Three calls about one content have one that waits for another's task,
one that queues it again, and one held back. One content is enough because
nothing relates two of them but the queue and the slots, which calls share
anyway. With `Modern` = `Loopback` no host stands in for another, as when the
engine selected is neither of the two.

Fairness: callers and workers go on; every wait of theirs is bounded in the code
(8 s for a slot, 500 ms for a pause, time-outs of the HTTP client and of the
caller), except that of an idle worker, which has no step to take. The destructor
is assumed to run when no call is under way; the order of the members of `Proxy`
does not guarantee that (`include/httpaceproxycpp/proxy.hpp:168,182`), which is
listed as a hazard. `TasksAreDone` assumes that watching ends some day: until then
background tasks are held back on purpose, and the destructor with them.

## 7. `AceClient`

One connection to the engine, in the hands of one of two owners, chosen in the
initial state. The idle client (`Proxy::idle_ace_`) serves the handlers that ask
for an infohash, one at a time under `idle_mutex_`, and is thrown away by
`set_engine` and `restart_engine`. The client of a session serves its stream
thread and its keepalive thread until `stop` and the destructor end all three.

| Variable | Code |
|---|---|
| `host` | `config_.ace_host`, which `set_engine` changes before it waits for the mutex |
| `client`, `reader` | the `AceClient`, and its reader thread (none, reading, done, or an exception that nobody catches) |
| `messages_` | lines read and not taken, per command |
| `asked`, `playing` | what the engine has still to answer; whether it believes that a stream is wanted |
| `pc`, `want`, `idle_mutex_` | where each thread is, the content it asks for, who holds the mutex |
| `strayed` | history: somebody has given up on a LOADASYNC of this connection, so that its answer may still come |

`wait_for` is three actions: `Takes` (the line awaited), `GivesUp` on a line of
`ERROR`, and `GivesUp` because the reader has ended or the deadline has passed.
The socket keeps the receive time-out of its connection phase, so an engine that
is silent for long ends the reader (`ReaderEnds`) though the wait for START may be
longer. The engine (`Engine`) is external: it answers in any order, late, with an
error instead of or on top of an answer, speaks unasked, or never.

The run `engine_client` has 2 handlers, 2 contents, 2 engines and at most 2 lines
unread or under way: two requests are what it takes for one to meet the leavings
of another, two engines for the old and the new one. It checks that a handler that waits
finds the answer to his own request and no other, as long as nobody has given up on a
LOADASYNC of the same connection (`AnswersAreOwn`); that the idle client names the
selected engine once a change of engine has gone through (`IdleIsOnSelected`); and that
the mutex comes back and a stopped session releases its client, whatever the engine
does (`IdleMutexIsReturned`, `SessionIsReleased`).

The condition of `AnswersAreOwn` is a limit of the program, not of the model.
`load_async` catches the time-out (and any line of `ERROR`) and returns the content id in
the place of the infohash (`src/ace_client.cpp:180`), so `get_content_info` keeps the
connection (`src/proxy.cpp:2809`). The answer given up arrives later, and the next
handler takes it for the one to his own LOADASYNC, whose answer then waits for the one
after him, until the connection ends. The model does the same (`StandIn`, then
`Answered` with the line of another content). `strayed` is set at exactly that step
and cleared by a new connection: before it, and after a reconnection, no answer
goes astray, although handlers, errors and engines come and go. Nothing in the
repository claims more. Lines are told apart by
their command alone. Fairness: threads go on and waits end; the engine owes
nobody an answer, and a stream that keeps flowing ends only when `running_` is
cleared. Deadlock is not checked: an owner may have no more to do.

## 8. `VirtualChannels`

One slug, `/auto/<slug>`, with its candidates; viewers of it and viewers who ask
for one of the candidates by its content id; administrators.

| Variable | Code |
|---|---|
| `active`, `pinned`, `disabled` | `virtual_active_cid_`, `virtual_pinned_cid_`, `disabled_cids_` |
| `bmap`, `bc` | the manager's map and the broadcasts: count, client list, whether data may come |
| `sc` | each `StreamClient`: `current_broadcast`, and whether its queue is closed; the first wait makes a new one at each failover |
| `viewer` | the locals of `handle_core_stream`; `under` is history, the pin the request found |
| `admin` | the locals of `pin_candidate` and of `toggle_disabled_candidate` with `migrate_subscribers`: the copies they work on, the target, the client in hand |
| `lost` | history: a migration and a handler have lost track of a client |

| Action | Code |
|---|---|
| `RequestAuto`, `RequestCid` | `handle_core_stream` up to the limits (403, 503), with the choice of the candidate and `get_content_info` |
| `Join`, `Refused` | `get_or_create`, `add_client`, `start_once`, or a constructor that throws |
| `FirstChunk`, `Head`, `Hangup` | the first wait is over; HEAD; the player leaves |
| `Fails`, `GivesUp`, `NextCandidate`, `Rejoin`, `Exhausted` | both failovers, before the first chunk and while playing |
| `StreamEnds`, `Reap`, `Status` | the stream thread, the reaper, `get_virtual_active_cid` called for a page |
| `Pin`, `Unpin`, `Toggle`, `Collect`, `Target`, `Detach`, `Attach`, `AdminStop` | `pin_candidate` and `migrate_subscribers`, cut where they wait (3 s) or give up a lock |

A `weak_ptr` is modelled by `Alive` and `Referenced`; memory that is used again
answers to no pointer of its past (`ClientsWith`). The ranking may give any order.

The run `virtual` has one viewer of the slug, one of a candidate, one administrator
with one order, two candidates known to the engine by their content id, two
sessions per infohash and limits of 2 connections and 1 channel. One order crossing
one failover is the smallest instance of every race in the list of hazards; a
second order or a third candidate repeats them. It checks `CountsAreReturned` (no
broadcast counts more subscribers than it serves, unless `lost`), `PinnedRequestStays`
and `RequestsAreAnswered`: the failover from candidate to candidate ends. Fairness:
a handler of the slug goes on (`ViewerWork`), with no help from data, players,
reaper or administrator.

## 9. `Sources`

One name in the registry, of any kind: built in, or a list of its user's that may
be deleted. `entry`, `flag` and `urls` are the settings; `plugin[o]` an object, its
life, its list and the address of its constructor; `job[t]` what a thread does.
An updater has only the address of its object, everybody else a `shared_ptr`
(`Users`); the last to let go (`Leaves`, `Registers`) runs the destructor, which
joins the updater (`Destroyed`), under the mutex of the registry if it was `add` or
`remove` that let go.

A refresh is three steps, as the settings may change between them: `Check`
(`refresh_if_needed`), `Begins` (the address is read), `Fetch` (the list is stored).
Each kind has its own way to keep, replace or empty its list when a download fails.
Requests that change a source are several steps, too: the settings, then the plugin
registered by then, then a detached thread (`Hand`, `Starts`).

There are two mutexes. `mutex_` is that of the registry, held longer than a look-up by
who runs a destructor under it. `plugins_state_mutex_` is that of the settings; a
look at them or a change waits for it (`MaySee`, `Requested`), but only an import keeps
it: `ImportSources` takes it and copies the settings, `Imports` goes into the registry by
`set_plugin_url` (`Tell`, `Told`) or `add_custom_list_plugin` (`Add`, `TellHeld`,
`Register`, `Hand`), and `ImportEnds` overwrites the settings with the copy and lets go.
(The mutex is recursive: `Done` brings the request back to its import.)

The run `sources` has every kind, 2 addresses (both of them in one setting for the kinds
that download several documents), 2 objects (one replaces the other), 2 administrators,
and one worker for detached threads and requests. A list of its user's and `newera`
undergo 2 changes, imports among these; for the other kinds one change is enough for
what is their own, a refresh put together from several documents, or parsed, around
it. The run checks that what is registered or in use is alive (`InUseIsAlive`), that
in the end the list is what the settings say though refreshes overlap
(`SettledListFollows`), and that what is removed is destroyed and both mutexes are free
(`RemovalEnds`).

`RemovalEnds` has one exception, and shows that it is the only one: `ImportHangs`. An
import has the settings locked and waits for the registry; a thread that removes or
replaces a plugin has the registry and joins the plugin's updater
(`src/plugins.cpp:134,188`); the updater waits for the settings in `is_enabled`
(`src/proxy.cpp:3645`). The three wait for each other for ever, and with them everybody
who looks a plugin up. An import that itself destroys the plugin it has replaced needs
no second request for it. With the exception, a new circle of waits, a join of an updater
that was not told to end, or a mutex that is not given back, is still found.

Fairness: downloads end, updaters wake up every 30 or 60 minutes; no request need come.
An updater that calls `refresh` while the destructor of the derived class has already
run is a pure virtual call and ends the process; the model has it (`aborted`), and the
two liveness properties say nothing after it.

Bounds and what they leave out: an import names the modelled source once at most; it
does not fail when it saves; one that finds no `Worker` free for a refresh goes on
without it (the code starts as many threads as it likes); the look-ups by which
requests about other names wait for the same mutexes count as those about this one.

## 10. `Settings` and `FavoritesWorker`

A behaviour of `Settings` is about one of four stores: the state of the plugins,
the favourites with the disabled candidates, the logos, the filters. Each is a value
in memory behind a mutex and up to four copies on disk. A request changes the value
(`Change`) and saves it (`Save`) in two critical sections; a save truncates
(`Truncates`) and writes (`Writes`) one copy after the other. A copy that is
truncated or half written is `Torn` and does not parse. `Crash` ends the process at
any step, also while `main` copies a file (`EnsureStructure`, `CopyEnds`); `Starts`
loads the first copy that can be read, in the order of each load function.

`FavoritesWorker` adds the thread: `Warm`, `Serves` (the queue), `NextFavorite` and
`Urgent` (a pass, interrupted by what was asked for), `ProbeChannel` (which waits as
long as somebody watches), and the two ways to ask for a probe.

The run `settings` has every store, 2 requests of any kind, 1 crash, and an
installation that is fresh, old, or has the second pair of copies alone. It checks
`Recoverable` (a start finds a value memory has had since the last finished save),
`DiskFollowsMemory` and `AskedForIsProbed`. While the worker is there the requests
about the store come one at a time and the process is not killed (`Alone`, and the
guard of `Crash` in `FNext`): the worker writes nothing to disk. Fairness: the worker
and the requests go on; a watching viewer may stay, a stopped worker stops.

`MaxCrashes` = 1 keeps the run small; `Recoverable` is proved for two (section 11), and
that is as many as the code survives. A torn copy stays torn until the next save: with
four copies, three crashes each in the middle of a write, with a fourth save under way,
can leave nothing to read. The state of the plugins has one copy that
counts when it is torn, and the filters two when their second directory is the first
or missing; what a crash in the middle of a save loses there is named `Lost`, and
excepted.

## 11. Proofs

All theorems hold for any values of the constants that satisfy the named
assumption of their module (`ConstantsAssumption`, `QueueAssumption` and
`NoChunkAssumption`, `ServerAssumption`, `VerifierAssumption`, `ClientAssumption`,
`VirtualAssumption`, `SourcesAssumption`, `SettingsAssumption` and
`WorkerAssumption`): sets of threads, sessions, contents and connections of any
size, finite where they are counted, and bounds of the model of any value.

| Module | Theorem | Property |
|---|---|---|
| `Broadcast_proofs` | `Typing` | `TypeOK` |
| | `NothingStoppedIsHandedOut` | `StoppedIsUnlisted` |
| | `OnlyLateClientsAreCutOff` | `StopSparesSettled` |
| | `NobodyIsCountedTwice` | `NoOvercount` |
| `ChunkQueue_proofs` | `Typing` | `TypeOK` |
| | `EveryChunkIsFetched` | `NoLostWakeup` |
| | `CloseLetsEverybodyGo` | `ClosedReleases` |
| | `AccountIsRight` | `Account`: `total_bytes_` is the bytes of the chunks in the queue |
| | `QueueIsLossyChannel` | `ImplementsChannel` |
| `HttpServer_proofs` | `Typing` | `TypeOK` |
| | `NoWorkerSleepsOnATask` | `NoTaskIsOverlooked` |
| | `EveryAcceptedConnectionIsAnswered` | `ShutdownDropsNothing` |
| | `OneConnectionOneWorker` | `OnePlace`: an accepted connection is at the accept thread, once in the queue, or with one worker |
| | `NobodyIsAnsweredTwice` | `[][AnswersOnce]_vars`: no step changes an answer that was given |
| `ChannelVerifier_proofs` | `Typing` | `TypeOK` |
| | `NothingIsPendingForNobody` | `PendingIsWorkedOn` |
| | `EveryTaskIsInOnePlace` | `TaskInOnePlace` |
| | `TheQueueIsAttended` | `QueueIsAttended` |
| | `SlotsAddUp` | `SlotsAreReturned` |
| | `DestructionDrains` | `DestroyedIsDrained` |
| `AceClient_proofs` | `Typing` | `TypeOK` |
| | `SelectedEngine` | `IdleIsOnSelected` |
| | `OwnAnswers` | `AnswersAreOwn` |
| `VirtualChannels_proofs` | `Typing` | `TypeOK` |
| | `PinIsKept` | `PinnedRequestStays` |
| | `CountsComeBack` | `CountsAreReturned` |
| `Sources_proofs` | `Typing` | `TypeOK` |
| | `NothingInUseDies` | `InUseIsAlive` |
| | `NothingIsLeaked` | `NothingLeaks`: whatever is still there is registered, in use, or being destroyed by somebody |
| `FavoritesWorker_proofs` | `Typing` | `WorkerTypeOK` |
| | `StoresFollowMemory`, `CopiesFollowMemory` | `DiskFollowsMemory`, for `Settings` alone and with the worker |
| | `StoresRecover`, `FavoritesRecover` | `crashes <= 2 => Recoverable`, for `Settings` alone and with the worker |
| | `TwoKillsAreSurvived` | `Recoverable`, where `MaxCrashes <= 2` |
| | `AskedForIsNotForgotten` | `NothingIsForgotten`: the queue is what is pending, each once; what was asked for is there or being probed |
| | `QueueIsBounded` | the queue is no longer than there are channels |

Each follows from an inductive invariant, which holds initially and is kept by every
step: the theorem `Invariance` of most of the modules, `Spec => []IInv`. Theorems
whose property has no name in a run (those written out in the table) are about what
the liveness properties need of every state, and were evaluated by TLC on the
instances of the runs before they were proved.

*Broadcast.* No property of it is inductive by itself. That what is stopped is
unlisted needs `Evicted` (whoever is about to stop a session holds one that is
out of the map), which in turn needs `Listing` (the map is keyed by the infohash
of what it holds, so that erasing the key erases the session), `Holding` (free
memory has no reference, so that a new session is nobody's target) and `Scanning`
with `Locked` (nothing enters or leaves the map under the reaper). That a stop
spares settled clients needs the guard's `clients_ = {}` to be remembered through
the stop: `StopSparesSettled` itself, with `OnList` (a listed client holds its
session and is between `Enlist` and `Erase`). Most steps change the counter, a timestamp or a program
counter only: `QuietKeeps` proves once that such a step keeps `IInv`, and each
action is shown quiet. `TakeOutKeeps`, `ReleaseKeeps` and `ReturnKeeps` do the same
for taking a session out of the map, for a handler that returns, and for a
finished stop. `NoOvercount` is kept by itself, given `IInv`, and with it `Passing`, the
part of `TypeOK` about a counter below zero: `QuietCount` covers the
steps that leave the counter or clear it and let nobody out of those it counts; what is
left are `CountIn` and `CountOut`, where a handler and one unit come and go together.
The set of handlers has to be finite for that, and `AutoHandlers` to be among them.

*ChunkQueue.* `TypeOK` (with the limit on the number of chunks), `NoLostWakeup` and
`ClosedReleases` are inductive together. The count of consumers on their
way is compared with the length of the queue at every wake-up, so the lemmas on
cardinalities (`OneMore`, `OneLess`) are stated once.
The refinement compares sums of bytes, which both modules define by recursion over a
sequence. No induction theorem of the library can be used (each takes an operator as
a parameter), but its least-element principle can: `Least` gives the smallest
counterexample, and from it follow that the sums exist (`SumsExist`), what a chunk at
the end and the loss of the first ones do to them (`BytesAppended`, `BytesWithout`), and
that the loop of `push`, which subtracts the chunks it drops one by one, arrives at the
sum of what is left (`AccountAfterDropping`). `Account` is then inductive, the queue and
the channel find room after the loss of the same number of chunks (`RoomIsFitting`),
and each step of the queue is one of the channel, or none (`StepIsOfChannel`).

*HttpServer.* `NoTaskIsOverlooked` needs `Dozing` (a worker between predicate and
sleep holds the mutex, and found the queue empty); `ShutdownDropsNothing` needs
`HandOver` and `Order` (the accept thread is gone before `stop_` is set, and the
workers before the queue is swapped) and `Tracked` (an accepted connection is in
the hand of the accept thread, in the queue, or served). `OnePlace` is the converse:
nothing is in two places. From it follows the action property, as whoever answers a
connection has one that nobody has answered.

*ChannelVerifier.* `TaskInOnePlace` needs `Attached` (a worker has a task exactly
while it carries one out) and `Pushed` (only what was pushed is anywhere);
`QueueIsAttended` and `DestroyedIsDrained` need `Ended` (the destructor comes after
the last call, and workers leave after it began). `PendingIsWorkedOn` uses all of
them: the task that will write a content's result is found where `TaskInOnePlace`
says, and the one step that lets a content go is the one that writes it.
`AppendAdds` and `TailRemoves` say what a queue contains after a push and a pop.

*AceClient.* What a handler has read or asked for can only be tied to its content if
the connection is its own: `Holds` says that from its first look at the idle client
to its return it has the mutex, and `Wanted` that it knows what it asks for. As long as
nothing has strayed, every request and every answer that is left is for the content
of the handler that waits (`Owed`), each has one line at most (`OneLine`), and names a
content (`Named`): so the line it takes is its own, and nothing is left for the next
one (`TakenAnswer`).
`IdleIsOnSelected` rests on the order of the two halves of `set_engine`.

*VirtualChannels.* `Bound` is `PinnedRequestStays` carried back to the moment at which
the pin was read: a request that goes by a pin has it as its key before it joins, and
the pin is still the one it read. `Keyed` (the map lists a broadcast under its own key)
makes the broadcast it is given one of that key, and `Ordering` does the same for the
target of a pin, which may re-attach it. `Viewing` counts: the number of a handler's
client object is at most the number of candidates tried, so there are enough of them.
`ViewerStep`, `OutsideStep` and `AdminWorkStep` prove once what a step of one viewer,
of nobody's and of one administrator leaves alone. `CountsAreReturned` compares a
counter with a set of viewers; inductive is that each broadcast of the map is
`Accounted`: it counts no more than the clients on its list (`Fair`), and each of them
is the client object its handler works with now, playing from, or waiting for, this
very broadcast (`Serving`). A client is new for each failover of the first wait
(`Waits`), so none is counted in twice.

*Sources.* `InUseIsAlive` needs to know who uses what: `Occupied` (a thread at work has
a plugin, an updater its own; an import is at one of its places) and `OneJoins` (one
thread destroys a plugin).
`NothingLeaks` is inductive with them: `HoldsOn` is for steps in which whoever lets go of
a plugin knows of somebody else who has it, and what is left are the last to leave, the
change of the registry and the destruction.

*FavoritesWorker.* `SaveIsDue` says that while the copies differ from memory some
request is between its change and the end of its save; `SavesMemory` that a save holds
the mutex, writes what memory is, and has still to write every copy that differs.
`Recoverable` is about what may be read after a kill. `CopiesAreKept` and `MemoryIsKept`
say that every copy that parses has a value memory has had since the last finished save,
and `FreshIsKept` the same of having no copy at all. What remains is that a copy is left:
`FewAreTorn` counts the torn ones, one for each kill and one for the writer at work, and
`InTurn` (a save gets to a copy after the ones before it, `SaveGoesOn`) rules out that
a missing first copy is followed by torn ones only. With two kills there are three torn
copies at most, of four.

Only model-checked: the liveness properties `AbandonedIsReleased`, `AcceptedIsAnswered`, `TasksAreDone`, `SyncCallsReturn`,
`IdleMutexIsReturned`, `SessionIsReleased`, `RequestsAreAnswered`,
`SettledListFollows`, `RemovalEnds` and `AskedForIsProbed`. They need fairness, which is
out of the prover's reach; and `ShutdownReturns` does not hold (section 12). Every
safety property that a run checks is proved.

## 12. Where the code and its documentation differ

`ShutdownReturns` (run `server_shutdown`): a worker between its predicate and its
sleep misses the notification of `shutdown`, which then waits for it for ever.

The models contain more behaviours that a comment or a document does not expect, for
which no run is kept; each was met while modelling, and the actions named produce it.

* `Broadcast`: a session evicted between `get_or_create` and `add_client` lives on
  beside its successor of the same infohash, both with clients (`README.md:76`
  speaks of one session per infohash). A client that joins a listed session whose
  stream has ended is told by nobody on a direct route. A client that completes
  `add_client` between the guard of `stop` and its STOP is cut off, although the
  comment there says that STOP is blocked while clients are connected
  (`StopSparesSettled` is what does hold). A stop decided while the last client is
  leaving finds no timestamp and gives no grace period. An exhausted failover removes
  the same client twice.
* `ChannelVerifier`: after a wait that timed out `verify_sync` writes the table without
  its lock (`MarkUnlocked`, `src/channel_verifier.cpp:269`). A handshake that throws
  after the engine answered leaves no stop, and one during which the engine was changed
  sends it to the wrong engine, so a session stays open
  (`include/httpaceproxycpp/channel_verifier.hpp:192`). A PENDING content held back for
  12 s is queued again, although the header says that it is not.
* `VirtualChannels`: a migration attaches a client whose handler has left, which is then
  counted for ever (`Attach`, `src/proxy.cpp:4658`). A client moved during its first wait
  is removed from the broadcast it joined, not from the one it is on (`Forgotten`). A
  client is attached to a target that was stopped during the 3 s of waiting. A pin takes
  clients off every broadcast, whoever else's channel it is (`Collect`,
  `src/proxy.cpp:4822`). A client attached to a session that its handler does not hold may
  still be listed when that session is destroyed. A migration does not look at the pin (`Target`). The limits are
  read before the client counts itself in, and a failover never asks for them (`Full`).
* `Sources`: an import can hang for ever, and others with it (`ImportHangs`, section 9).
  An updater may call `refresh` of an object whose derived part is gone
  (`Check`, `aborted`). Three kinds of source keep the list of the address they had for
  as long as the new one cannot be downloaded.
* `AceClient`: after a LOADASYNC that timed out the next handlers are given the infohash
  of another content (`StandIn`, `Answered`; section 7).
  An answer to `EVENT getuserdata` that cannot be written throws out of the
  reader thread, which ends the program (`ReaderThrows`).
* `Settings`: a crash in the middle of a save of the state of the plugins loses it
  (`Lost`).

## 13. Not modelled

`PROJECT.json` lists every component with its status and every hazard with the
property that covers it or the reason why none does. Not modelled:

* *Formatting and parsing*: JSON, configuration, utilities, playlists, status pages,
  the proxying of files and logos, the web UI. They are sequential, keep no state of
  their own or read it under the mutexes of the modelled parts.
* *Candidate scoring*: a sum of weights, with no second definition to compare it with.
  It decides the order of the candidates, and `VirtualChannels` holds for any order.
* *The data path inside the stream thread*: the alignment of packets, null packets, the
  bitrate meter and the discontinuity marks shape bytes. The fan-out to a snapshot of
  the clients is left out, and with it the queue that a failover replaces while the
  fan-out holds the old one (`src/proxy.cpp:2755`), a data race on a `shared_ptr`.
* *HttpClient*: its calls return, fail or time out, which is how each module that uses
  them models them.
* *The list of engines*, its status page, the ring of log lines, the parsing of arguments
  and the signal handler of `main`.
* *The order of destruction* of the members of `Proxy` (`proxy.hpp:182`): what a handler
  finds in a verifier that is gone is undefined.
* The Python predecessor, packaging and scripts: not part of the running program.
